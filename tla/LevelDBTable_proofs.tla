------------------------- MODULE LevelDBTable_proofs -------------------------
(***************************************************************************)
(* Proofs about ExecutionBuffer: the rows of a sort do not lie on each     *)
(* other and read back as they were copied, for every size of a block, of  *)
(* the buffer and of the rows.  And proofs about LevelDBTable, which uses  *)
(* the same row format: a scan returns the rows that are in the table, in  *)
(* the order of their keys, for any columns, any key and any statements.   *)
(***************************************************************************)
EXTENDS LevelDBTable, FoldLemmas, SequenceTheorems, FiniteSetTheorems

\* The powers of two up to the n-th, as a function
IsPowers(f, n) == f \in [0..n -> Nat] /\ f[0] = 1 /\ \A m \in 1..n : f[m] = 2 * f[m - 1]

\* The recursive definition of the powers of two defines a function.
LEMMA Powers ==
  /\ TwoTo[0] = 1
  /\ \A n \in Nat : TwoTo[n + 1] = 2 * TwoTo[n]
  /\ \A n \in Nat : TwoTo[n] \in Nat \ {0}
<1>. DEFINE P(n) == CHOOSE f : IsPowers(f, n)
            g == [n \in Nat |-> P(n)[n]]
            Exists == {n \in Nat : \E f : IsPowers(f, n)}
<1>1. \A n \in Nat : IsPowers(P(n), n)
  <2>1. 0 \in Exists
    <3>1. IsPowers([m \in 0..0 |-> 1], 0)
      BY DEF IsPowers
    <3>. QED  BY <3>1
  <2>2. ASSUME NEW n \in Nat, n \in Exists PROVE n + 1 \in Exists
    <3>1. PICK f : IsPowers(f, n)
      BY <2>2
    <3>. DEFINE h == [m \in 0..(n + 1) |-> IF m = n + 1 THEN 2 * f[n] ELSE f[m]]
    <3>2. IsPowers(h, n + 1)
      <4>1. f[n] \in Nat /\ \A m \in 0..n : f[m] \in Nat
        BY <3>1 DEF IsPowers
      <4>2. h \in [0..(n + 1) -> Nat] /\ h[0] = 1
        BY <3>1, <4>1 DEF IsPowers
      <4>3. ASSUME NEW m \in 1..(n + 1) PROVE h[m] = 2 * h[m - 1]
        <5>1. CASE m = n + 1
          BY <5>1
        <5>2. CASE m \in 1..n
          BY <3>1, <5>2 DEF IsPowers
        <5>. QED  BY <5>1, <5>2
      <4>. QED  BY <4>2, <4>3 DEF IsPowers
    <3>. QED  BY <3>2
  <2>. HIDE DEF Exists
  <2>3. \A n \in Nat : n \in Exists
    BY <2>1, <2>2, Induction
  <2>. QED  BY <2>3 DEF Exists
<1>. HIDE DEF P
<1>2. ASSUME NEW n \in Nat PROVE P(n + 1)[n] = P(n)[n]
  <2>. DEFINE T == {m \in Nat : m <= n => P(n + 1)[m] = P(n)[m]}
  <2>1. IsPowers(P(n + 1), n + 1) /\ IsPowers(P(n), n)
    BY <1>1
  <2>2. 0 \in T
    BY <2>1 DEF IsPowers
  <2>3. ASSUME NEW m \in Nat, m \in T PROVE m + 1 \in T
    <3>. SUFFICES ASSUME m + 1 <= n PROVE P(n + 1)[m + 1] = P(n)[m + 1]
      OBVIOUS
    <3>1. m + 1 \in 1..n /\ m + 1 \in 1..(n + 1) /\ (m + 1) - 1 = m
      OBVIOUS
    <3>2. P(n + 1)[m] = P(n)[m]
      BY <2>3
    <3>3. P(n + 1)[m + 1] = 2 * P(n + 1)[m] /\ P(n)[m + 1] = 2 * P(n)[m]
      BY <2>1, <3>1 DEF IsPowers
    <3>. QED  BY <3>2, <3>3
  <2>. HIDE DEF T
  <2>4. n \in T
    BY <2>2, <2>3, Induction
  <2>. QED  BY <2>4 DEF T
<1>3. /\ g[0] = 1
      /\ \A n \in Nat : g[n] \in Nat /\ g[n + 1] = 2 * g[n]
  <2>1. P(0)[0] = 1
    BY <1>1 DEF IsPowers
  <2>2. ASSUME NEW n \in Nat PROVE P(n)[n] \in Nat /\ P(n + 1)[n + 1] = 2 * P(n)[n]
    <3>1. IsPowers(P(n + 1), n + 1) /\ IsPowers(P(n), n) /\ n + 1 \in 1..(n + 1) /\ (n + 1) - 1 = n /\ n \in 0..n
      BY <1>1
    <3>2. P(n + 1)[n + 1] = 2 * P(n + 1)[n] /\ P(n)[n] \in Nat
      BY <3>1 DEF IsPowers
    <3>. QED  BY <3>2, <1>2
  <2>. QED  BY <2>1, <2>2
<1>. HIDE DEF g
<1>4. g = [n \in Nat |-> IF n = 0 THEN 1 ELSE 2 * g[n - 1]]
  <2>1. g = [n \in Nat |-> g[n]]
    BY DEF g
  <2>2. ASSUME NEW n \in Nat, n # 0 PROVE g[n] = 2 * g[n - 1]
    <3>1. n - 1 \in Nat /\ (n - 1) + 1 = n
      BY <2>2
    <3>. QED  BY <3>1, <1>3
  <2>. QED  BY <2>1, <2>2, <1>3
<1>5. TwoTo = [n \in Nat |-> IF n = 0 THEN 1 ELSE 2 * TwoTo[n - 1]]
  BY <1>4 DEF TwoTo
<1>6. TwoTo[0] = 1
  BY <1>5
<1>7. ASSUME NEW n \in Nat PROVE TwoTo[n + 1] = 2 * TwoTo[n]
  <2>1. n + 1 \in Nat /\ n + 1 # 0 /\ (n + 1) - 1 = n
    OBVIOUS
  <2>. QED  BY <1>5, <2>1
<1>. DEFINE T == {n \in Nat : TwoTo[n] \in Nat \ {0}}
<1>8. \A n \in Nat : n \in T
  <2>1. 0 \in T
    BY <1>6
  <2>2. ASSUME NEW n \in Nat, n \in T PROVE n + 1 \in T
    BY <1>7, <2>2
  <2>. HIDE DEF T
  <2>. QED  BY <2>1, <2>2, Induction
<1>. QED  BY <1>6, <1>7, <1>8

\* Dividing by a number and then by two is dividing by twice the number.
LEMMA HalfQuotient ==
  ASSUME NEW n \in Int, NEW d \in Nat \ {0}
  PROVE  n \div d \in Int /\ n \div (2 * d) = (n \div d) \div 2 /\ n \div 1 = n
OBVIOUS

\* The quotients of numbers below the divisor
LEMMA SmallQuotient ==
  ASSUME NEW n \in Int, NEW d \in Nat \ {0}
  PROVE  /\ 0 <= n /\ n < d => n \div d = 0
         /\ -d <= n /\ n < 0 => n \div d = -1
OBVIOUS

\* The number that bits stand for, as it is computed from left to right
LEMMA UnsignedFold ==
  ASSUME NEW bits \in Seq({0, 1})
  PROVE  \E f \in [0..Len(bits) -> Nat] :
           /\ f[0] = 0 /\ f[Len(bits)] = Unsigned(bits)
           /\ \A m \in 0..(Len(bits) - 1) : f[m + 1] = 2 * f[m] + bits[m + 1]
<1>. DEFINE n    == Len(bits)
            step == [x \in Nat \X (1..n) |-> 2 * x[1] + bits[x[2]]]
            fold == CHOOSE iter : iter = [s \in SUBSET (1..n) |->
                                            IF s = {} THEN 0 ELSE 2 * iter[s \ {Max(s)}] + bits[Max(s)]]
<1>1. n \in Nat /\ DOMAIN bits = 1..n /\ \A i \in 1..n : bits[i] \in Nat
  OBVIOUS
<1>. HIDE DEF n
<1>2. step \in [Nat \X (1..n) -> Nat]
  BY <1>1
<1>3. PICK iter : Folds(step, 0, iter, SUBSET (1..n)) /\ \A s \in SUBSET (1..n) : iter[s] \in Nat
  <2>1. 0 \in Nat
    OBVIOUS
  <2>. HIDE DEF step
  <2>. QED  BY <1>1, <1>2, <2>1, FoldExists
<1>4. \A s \in SUBSET (1..n) : s # {} => Max(s) \in 1..n /\ s \ {Max(s)} \in SUBSET (1..n)
  BY <1>1, LargestIndex
<1>5. iter = [s \in SUBSET (1..n) |-> IF s = {} THEN 0 ELSE 2 * iter[s \ {Max(s)}] + bits[Max(s)]]
  BY <1>1, <1>3, <1>4 DEF Folds
<1>6. fold = [s \in SUBSET (1..n) |-> IF s = {} THEN 0 ELSE 2 * fold[s \ {Max(s)}] + bits[Max(s)]]
  BY <1>5
<1>7. Unsigned(bits) = fold[1..n]
  BY <1>1 DEF Unsigned, FoldLeft, MapThenFoldSet
<1>. HIDE DEF fold, step
<1>. DEFINE f == [m \in 0..n |-> fold[1..m]]
<1>8. f[0] = 0
  <2>1. 1..0 = {} /\ 0 \in 0..n
    BY <1>1
  <2>. QED  BY <1>6, <2>1
<1>9. ASSUME NEW m \in 0..(n - 1)
      PROVE  f[m + 1] = 2 * f[m] + bits[m + 1]
  <2>1. 1..(m + 1) \in SUBSET (1..n) /\ m \in Nat /\ m \in 0..n /\ m + 1 \in 0..n
    BY <1>1
  <2>2. Max(1..(m + 1)) = m + 1 /\ (1..(m + 1)) \ {m + 1} = 1..m /\ 1..(m + 1) # {}
    BY <2>1, LastIndex
  <2>3. fold[1..(m + 1)] = 2 * fold[(1..(m + 1)) \ {Max(1..(m + 1))}] + bits[Max(1..(m + 1))]
    BY <1>6, <2>1, <2>2
  <2>. QED  BY <2>1, <2>2, <2>3
<1>10. f = [m \in 0..n |-> f[m]] /\ f[n] = fold[1..n]
  BY <1>1
<1>. HIDE DEF f
<1>11. \A m \in 0..n : f[m] \in Nat
  <2>1. f[0] \in Nat
    BY <1>8
  <2>2. \A m \in 0..(n - 1) : f[m] \in Nat => f[m + 1] \in Nat
    BY <1>1, <1>9
  <2>. QED  BY <1>1, <2>1, <2>2, StaysIn
<1>. QED  BY <1>7, <1>8, <1>9, <1>10, <1>11 DEF n

\* A number written with some bits: what is read is what it leaves when it is
\* divided by the first power of two that does not fit.
LEMMA EncodeFold ==
  ASSUME NEW n \in Int, NEW w \in Nat
  PROVE  /\ Encode(n, w) \in Seq({0, 1}) /\ Len(Encode(n, w)) = w
         /\ Unsigned(Encode(n, w)) = n - (n \div TwoTo[w]) * TwoTo[w]
<1>. DEFINE bits == Encode(n, w)
            q    == n \div TwoTo[w]
<1>1. \A i \in 0..w : TwoTo[w - i] \in Nat \ {0}
  BY Powers
<1>2. \A i \in 1..w : n \div TwoTo[w - i] \in Int /\ bits[i] = (n \div TwoTo[w - i]) % 2
  BY <1>1 DEF Encode
<1>3. bits \in Seq({0, 1}) /\ Len(bits) = w
  <2>1. \A i \in 1..w : bits[i] \in {0, 1}
    BY <1>2
  <2>2. bits = [i \in 1..w |-> bits[i]]
    BY DEF Encode
  <2>. HIDE DEF bits
  <2>. QED  BY <2>1, <2>2
<1>4. PICK f \in [0..w -> Nat] : /\ f[0] = 0 /\ f[w] = Unsigned(bits)
                                 /\ \A m \in 0..(w - 1) : f[m + 1] = 2 * f[m] + bits[m + 1]
  BY <1>3, UnsignedFold
<1>. HIDE DEF bits
<1>5. TwoTo[w] \in Nat \ {0} /\ TwoTo[0] = 1
  BY Powers
<1>. HIDE DEF q
<1>50. q \in Int
  <2>. DEFINE d == TwoTo[w]
  <2>1. d \in Nat \ {0}
    BY <1>5
  <2>. HIDE DEF d
  <2>2. n \div d \in Int
    BY <2>1
  <2>. QED  BY <2>2 DEF q, d
<1>. DEFINE T == {m \in Nat : m <= w => f[m] = (n \div TwoTo[w - m]) - q * TwoTo[m]}
<1>6. 0 \in T
  <2>1. (n \div TwoTo[w - 0]) - q * TwoTo[0] = q - q * 1
    BY <1>5 DEF q
  <2>. QED  BY <1>4, <1>50, <2>1
<1>7. ASSUME NEW m \in Nat, m \in T PROVE m + 1 \in T
  <2>. SUFFICES ASSUME m + 1 <= w PROVE f[m + 1] = (n \div TwoTo[w - (m + 1)]) - q * TwoTo[m + 1]
    OBVIOUS
  <2>. DEFINE d == TwoTo[w - (m + 1)]
              a == n \div d
  <2>1. /\ w - (m + 1) \in Nat /\ w - m = (w - (m + 1)) + 1
        /\ m \in 0..(w - 1) /\ m + 1 \in 1..w
    OBVIOUS
  <2>2. d \in Nat \ {0} /\ TwoTo[w - m] = 2 * d
    BY <2>1, Powers
  <2>3. TwoTo[m] \in Nat /\ TwoTo[m + 1] = 2 * TwoTo[m]
    BY Powers
  <2>. HIDE DEF d
  <2>4. a \in Int /\ n \div TwoTo[w - m] = a \div 2
    <3>1. n \div d \in Int /\ n \div (2 * d) = (n \div d) \div 2
      BY <2>2, HalfQuotient
    <3>. QED  BY <2>2, <3>1
  <2>5. bits[m + 1] = a % 2
    BY <1>2, <2>1 DEF d
  <2>6. f[m] = (a \div 2) - q * TwoTo[m]
    BY <1>7, <2>4
  <2>. HIDE DEF a
  <2>7. f[m + 1] = 2 * ((a \div 2) - q * TwoTo[m]) + (a % 2)
    BY <1>4, <2>1, <2>5, <2>6
  <2>8. 2 * (a \div 2) + (a % 2) = a
    BY <2>4
  <2>9. q * (2 * TwoTo[m]) = 2 * (q * TwoTo[m])
    BY <1>50, <2>3
  <2>. DEFINE x == a \div 2
              y == a % 2
              z == q * TwoTo[m]
  <2>10. z \in Int /\ x \in Int /\ y \in Int
    BY <1>50, <2>3, <2>4
  <2>11. f[m + 1] = 2 * (x - z) + y /\ 2 * x + y = a /\ q * TwoTo[m + 1] = 2 * z
    BY <2>3, <2>7, <2>8, <2>9
  <2>. HIDE DEF x, y, z
  <2>12. f[m + 1] = a - q * TwoTo[m + 1]
    BY <2>4, <2>10, <2>11
  <2>. QED  BY <2>12 DEF a, d
<1>. HIDE DEF T
<1>8. w \in T
  BY <1>6, <1>7, Induction
<1>9. f[w] = (n \div TwoTo[0]) - q * TwoTo[w]
  BY <1>8 DEF T
<1>10. f[w] = n - q * TwoTo[w]
  <2>1. w - w = 0 /\ n \div 1 = n
    OBVIOUS
  <2>2. n \div TwoTo[w - w] = n
    BY <1>5, <2>1
  <2>. QED  BY <1>9, <2>2
<1>. QED  BY <1>3, <1>4, <1>10 DEF bits, q

\* A length is read as it was written.
LEMMA UnsignedEncode ==
  ASSUME NEW w \in Nat, NEW n \in Nat, n < TwoTo[w]
  PROVE  Unsigned(Encode(n, w)) = n
<1>1. TwoTo[w] \in Nat \ {0}
  BY Powers
<1>2. n \div TwoTo[w] = 0
  BY <1>1, SmallQuotient
<1>3. Unsigned(Encode(n, w)) = n - (n \div TwoTo[w]) * TwoTo[w]
  BY EncodeFold
<1>. QED  BY <1>1, <1>2, <1>3

\* A number that fits the width of its type is read as it was written.
LEMMA SignedEncode ==
  ASSUME NEW w \in Nat \ {0}, NEW n \in Int, -TwoTo[w - 1] <= n, n <= TwoTo[w - 1] - 1
  PROVE  Signed(Encode(n, w)) = n
<1>. DEFINE h == TwoTo[w - 1]
<1>1. h \in Nat \ {0} /\ TwoTo[w] = 2 * h
  <2>1. w - 1 \in Nat /\ (w - 1) + 1 = w
    OBVIOUS
  <2>. QED  BY <2>1, Powers
<1>2. Encode(n, w)[1] = (n \div h) % 2
  <2>1. 1 \in 1..w
    OBVIOUS
  <2>. QED  BY <2>1 DEF Encode
<1>3. /\ Unsigned(Encode(n, w)) = n - (n \div (2 * h)) * (2 * h)
      /\ Len(Encode(n, w)) = w
  BY <1>1, EncodeFold
<1>. HIDE DEF h
<1>4. CASE n >= 0
  <2>1. n < h /\ n < 2 * h /\ 2 * h \in Nat \ {0}
    BY <1>1, <1>4 DEF h
  <2>2. n \div h = 0 /\ n \div (2 * h) = 0
    BY <1>1, <1>4, <2>1, SmallQuotient
  <2>. QED  BY <1>1, <1>2, <1>3, <2>2 DEF Signed
<1>5. CASE n < 0
  <2>1. -h <= n /\ -(2 * h) <= n /\ 2 * h \in Nat \ {0}
    BY <1>1, <1>5 DEF h
  <2>2. n \div h = -1 /\ n \div (2 * h) = -1
    BY <1>1, <1>5, <2>1, SmallQuotient
  <2>. QED  BY <1>1, <1>2, <1>3, <2>2 DEF Signed
<1>. QED  BY <1>4, <1>5

-----------------------------------------------------------------------------
(* Results and their bits                                                   *)

\* The length that marks MaxString has its place in a header.
LEMMA LengthMark == MaxLength \in Nat /\ MaxLength = TwoTo[Header] - 1 /\ MaxLength < TwoTo[Header]
<1>1. TwoTo[Header] \in Nat \ {0}
  BY RowAssumption, Powers
<1>. QED  BY <1>1 DEF MaxLength

\* The kind of a result tells what else it has.
LEMMA ResultKinds ==
  ASSUME NEW r, IsResult(r)
  PROVE  /\ r.kind = "maxString" => r = MaxString
         /\ r.kind = "string" => r = StringResult(r.chars) /\ r.chars \in Seq({0, 1})
         /\ r.kind = "int" => r = IntResult(r.value) /\ r.value \in Int
         /\ r.kind \in {"maxString", "string", "int"}
BY DEF IsResult, MaxString, StringResult, IntResult

\* What is written for a result has the size that was computed for it.
LEMMA WrittenBits ==
  ASSUME NEW t \in DOMAIN Width \cup {"string"}, NEW r, IsResult(r), ~WriteThrows(t, r)
  PROVE  /\ Written(t, r) \in Seq({0, 1})
         /\ Len(Written(t, r)) = ResultSize(t, r)
<1>1. RightKind(t, r)
  BY DEF WriteThrows
<1>2. Header \in Nat /\ MaxLength \in Nat
  BY RowAssumption, LengthMark
<1>3. CASE t # "string"
  <2>1. r.kind = "int" /\ r.value \in Int /\ Width[t] \in Nat
    BY <1>1, <1>3, ResultKinds, RowAssumption DEF RightKind
  <2>2. Written(t, r) = Encode(r.value, Width[t]) /\ ResultSize(t, r) = Width[t]
    BY <1>3, <2>1 DEF Written, ResultSize
  <2>. QED  BY <2>1, <2>2, EncodeFold
<1>4. CASE t = "string" /\ r.kind = "maxString"
  <2>1. Written(t, r) = Encode(MaxLength, Header) /\ ResultSize(t, r) = Header
    BY <1>4 DEF Written, ResultSize
  <2>. QED  BY <1>2, <2>1, EncodeFold
<1>5. CASE t = "string" /\ r.kind = "string"
  <2>1. Written(t, r) = Encode(Len(r.chars), Header) \o r.chars /\ ResultSize(t, r) = Header + Len(r.chars)
    BY <1>5 DEF Written, ResultSize
  <2>2. r.chars \in Seq({0, 1}) /\ Len(r.chars) \in Nat
    BY <1>5, ResultKinds
  <2>. DEFINE length == Encode(Len(r.chars), Header)
              chars  == r.chars
  <2>3. length \in Seq({0, 1}) /\ Len(length) = Header
    BY <1>2, <2>2, EncodeFold
  <2>4. chars \in Seq({0, 1})
    BY <2>2
  <2>5. Written(t, r) = length \o chars /\ ResultSize(t, r) = Header + Len(chars)
    BY <2>1
  <2>. HIDE DEF length, chars
  <2>6. length \o chars \in Seq({0, 1}) /\ Len(length \o chars) = Len(length) + Len(chars)
    BY <2>3, <2>4
  <2>. QED  BY <2>3, <2>5, <2>6
<1>. QED  BY <1>1, <1>3, <1>4, <1>5 DEF RightKind

\* The size of a result is a number.
LEMMA SizeOfResult ==
  ASSUME NEW t \in DOMAIN Width \cup {"string"}, NEW r, IsResult(r), t = "string" => RightKind("string", r)
  PROVE  ResultSize(t, r) \in Nat
<1>1. CASE t # "string"
  BY <1>1, RowAssumption DEF ResultSize
<1>2. CASE t = "string" /\ r.kind = "maxString"
  BY <1>2, RowAssumption DEF ResultSize
<1>3. CASE t = "string" /\ r.kind = "string"
  <2>1. Len(r.chars) \in Nat /\ Header \in Nat
    BY <1>3, ResultKinds, RowAssumption
  <2>. QED  BY <1>3, <2>1 DEF ResultSize
<1>. QED  BY <1>1, <1>2, <1>3 DEF RightKind

-----------------------------------------------------------------------------
(* The layout of a row                                                      *)

\* Where column i begins, counted from the beginning of the row
Place(types, results, i) == ComputeSize(SubSeq(types, 1, i - 1), SubSeq(results, 1, i - 1))

\* The sum of the first elements of a sequence is where its sum has got to by then.
LEMMA SumOfPrefix ==
  ASSUME NEW seq \in Seq(Nat), NEW m \in 0..Len(seq),
         NEW f \in [0..Len(seq) -> Nat], f[0] = 0,
         \A k \in 0..(Len(seq) - 1) : f[k + 1] = f[k] + seq[k + 1]
  PROVE  FoldLeft(+, 0, SubSeq(seq, 1, m)) = f[m]
<1>. DEFINE part == SubSeq(seq, 1, m)
<1>1. part \in Seq(Nat) /\ Len(part) = m /\ Len(seq) \in Nat /\ m \in Nat /\ m <= Len(seq)
      /\ \A k \in 1..m : part[k] = seq[k]
  OBVIOUS
<1>. HIDE DEF part
<1>2. PICK g \in [0..m -> Nat] : /\ g[0] = 0 /\ g[m] = FoldLeft(+, 0, part)
                                 /\ \A k \in 0..(m - 1) : g[k + 1] = g[k] + part[k + 1]
  <2>1. 0 \in Nat
    OBVIOUS
  <2>. QED  BY <1>1, <2>1, Sums
<1>. DEFINE T == {k \in Nat : k <= m => g[k] = f[k]}
<1>3. 0 \in T
  BY <1>2
<1>4. ASSUME NEW k \in Nat, k \in T PROVE k + 1 \in T
  <2>. SUFFICES ASSUME k + 1 <= m PROVE g[k + 1] = f[k + 1]
    OBVIOUS
  <2>1. k \in 0..(m - 1) /\ k \in 0..(Len(seq) - 1) /\ k + 1 \in 1..m
    BY <1>1
  <2>2. g[k + 1] = g[k] + part[k + 1] /\ part[k + 1] = seq[k + 1]
    BY <1>1, <1>2, <2>1
  <2>3. f[k + 1] = f[k] + seq[k + 1]
    BY <2>1
  <2>4. g[k] = f[k]
    BY <1>4
  <2>. QED  BY <2>2, <2>3, <2>4
<1>. HIDE DEF T
<1>5. m \in T
  BY <1>1, <1>3, <1>4, Induction
<1>6. g[m] = f[m]
  BY <1>1, <1>5 DEF T
<1>. QED  BY <1>2, <1>6 DEF part

\* The columns lie one behind the other.
LEMMA Places ==
  ASSUME NEW types, NEW results, IsRow(types, results), ~ComputeSizeThrows(types, results)
  PROVE  /\ Place(types, results, 1) = 0
         /\ Place(types, results, Len(types) + 1) = ComputeSize(types, results)
         /\ \A i \in 1..Len(types) :
              /\ ResultSize(types[i], results[i]) \in Nat
              /\ Place(types, results, i + 1) = Place(types, results, i) + ResultSize(types[i], results[i])
         /\ \A i \in 1..(Len(types) + 1) : Place(types, results, i) \in Nat
<1>. DEFINE n     == Len(types)
            sizes == [i \in DOMAIN types |-> ResultSize(types[i], results[i])]
<1>1. /\ n \in Nat /\ DOMAIN types = 1..n
      /\ \A i \in 1..n : types[i] \in DOMAIN Width \cup {"string"} /\ IsResult(results[i])
  BY DEF IsRow
<1>2. \A i \in 1..n : ResultSize(types[i], results[i]) \in Nat
  BY <1>1, SizeOfResult DEF ComputeSizeThrows
<1>3. sizes \in Seq(Nat) /\ Len(sizes) = n
  BY <1>1, <1>2
<1>4. PICK f \in [0..n -> Nat] : /\ f[0] = 0 /\ f[n] = FoldLeft(+, 0, sizes)
                                 /\ \A k \in 0..(n - 1) : f[k + 1] = f[k] + sizes[k + 1]
  <2>1. 0 \in Nat
    OBVIOUS
  <2>. HIDE DEF sizes
  <2>2. \E f \in [0..Len(sizes) -> Nat] :
          /\ f[0] = 0 /\ f[Len(sizes)] = FoldLeft(+, 0, sizes)
          /\ \A k \in 0..(Len(sizes) - 1) : f[k + 1] = f[k] + sizes[k + 1]
    BY <1>3, <2>1, Sums, Zenon
  <2>. QED  BY <1>3, <2>2
<1>5. ASSUME NEW m \in 0..n PROVE Place(types, results, m + 1) = f[m]
  <2>1. (m + 1) - 1 = m /\ m \in Nat
    OBVIOUS
  <2>2. /\ DOMAIN SubSeq(types, 1, m) = 1..m
        /\ \A i \in 1..m : SubSeq(types, 1, m)[i] = types[i]
    BY <1>1 DEF IsRow
  <2>3. \A i \in 1..m : SubSeq(results, 1, m)[i] = results[i]
    <3>1. results \in Seq({results[i] : i \in 1..n}) /\ Len(results) = n
      BY <1>1 DEF IsRow
    <3>. QED  BY <1>1, <3>1
  <2>4. /\ DOMAIN SubSeq(sizes, 1, m) = 1..m
        /\ \A i \in 1..m : SubSeq(sizes, 1, m)[i] = ResultSize(types[i], results[i])
        /\ SubSeq(sizes, 1, m) \in Seq(Nat)
    <3>1. \A i \in 1..m : sizes[i] = ResultSize(types[i], results[i])
      BY <1>1
    <3>. HIDE DEF sizes
    <3>. QED  BY <1>1, <1>3, <3>1
  <2>5. SubSeq(sizes, 1, m) = [i \in 1..m |-> SubSeq(sizes, 1, m)[i]]
    BY <2>4
  <2>6. [i \in DOMAIN SubSeq(types, 1, m) |-> ResultSize(SubSeq(types, 1, m)[i], SubSeq(results, 1, m)[i])]
          = SubSeq(sizes, 1, m)
    <3>. HIDE DEF sizes
    <3>. QED  BY <2>2, <2>3, <2>4, <2>5
  <2>. HIDE DEF sizes
  <2>7. FoldLeft(+, 0, SubSeq(sizes, 1, m)) = f[m]
    BY <1>3, <1>4, SumOfPrefix
  <2>. QED  BY <2>1, <2>6, <2>7 DEF Place, ComputeSize
<1>6. ComputeSize(types, results) = f[n]
  BY <1>4 DEF ComputeSize
<1>7. 0 \in 0..n /\ n \in 0..n /\ 0 + 1 = 1
  BY <1>1
<1>8. ASSUME NEW i \in 1..n
      PROVE  Place(types, results, i + 1) = Place(types, results, i) + ResultSize(types[i], results[i])
  <2>1. i - 1 \in 0..(n - 1) /\ (i - 1) + 1 = i /\ i \in 0..n /\ i - 1 \in 0..n
    BY <1>1
  <2>2. f[i] = f[i - 1] + sizes[i] /\ sizes[i] = ResultSize(types[i], results[i])
    BY <1>1, <1>4, <2>1
  <2>. QED  BY <1>5, <2>1, <2>2
<1>9. ASSUME NEW i \in 1..(n + 1) PROVE Place(types, results, i) \in Nat
  <2>1. i - 1 \in 0..n /\ (i - 1) + 1 = i
    BY <1>1
  <2>. QED  BY <1>4, <1>5, <2>1
<1>. QED  BY <1>2, <1>4, <1>5, <1>6, <1>7, <1>8, <1>9

\* Each column ends where a later one begins, or before.
LEMMA PlacesGrow ==
  ASSUME NEW types, NEW results, IsRow(types, results), ~ComputeSizeThrows(types, results),
         NEW i \in 1..Len(types), NEW j \in (i + 1)..(Len(types) + 1)
  PROVE  Place(types, results, i) + ResultSize(types[i], results[i]) <= Place(types, results, j)
<1>. DEFINE n == Len(types)
            end == Place(types, results, i) + ResultSize(types[i], results[i])
            T == {m \in Nat : i + 1 + m <= n + 1 => end <= Place(types, results, i + 1 + m)}
<1>1. n \in Nat /\ i \in Nat /\ end \in Nat /\ end = Place(types, results, i + 1)
  <2>1. n \in Nat /\ i \in 1..(n + 1)
    BY DEF IsRow
  <2>. QED  BY <2>1, Places
<1>2. ASSUME NEW m \in Nat, i + 1 + m <= n
      PROVE  /\ Place(types, results, i + 1 + m) \in Nat
             /\ Place(types, results, i + 1 + (m + 1)) >= Place(types, results, i + 1 + m)
             /\ Place(types, results, i + 1 + (m + 1)) \in Nat
  <2>1. i + 1 + m \in 1..n /\ i + 1 + m \in 1..(n + 1) /\ i + 1 + (m + 1) \in 1..(n + 1)
        /\ i + 1 + (m + 1) = (i + 1 + m) + 1
    BY <1>1, <1>2
  <2>. DEFINE k == i + 1 + m
  <2>2. k \in 1..n
    BY <2>1
  <2>. HIDE DEF k, n
  <2>3. /\ Place(types, results, k + 1) = Place(types, results, k) + ResultSize(types[k], results[k])
        /\ ResultSize(types[k], results[k]) \in Nat
    BY <2>2, Places DEF n
  <2>4. Place(types, results, i + 1 + m) \in Nat /\ Place(types, results, i + 1 + (m + 1)) \in Nat
    BY <2>1, Places DEF n
  <2>. QED  BY <2>1, <2>3, <2>4 DEF k
<1>. HIDE DEF end, n
<1>3. 0 \in T
  BY <1>1
<1>4. ASSUME NEW m \in Nat, m \in T PROVE m + 1 \in T
  <2>. SUFFICES ASSUME i + 1 + (m + 1) <= n + 1 PROVE end <= Place(types, results, i + 1 + (m + 1))
    OBVIOUS
  <2>. DEFINE p == Place(types, results, i + 1 + m)
              q == Place(types, results, i + 1 + (m + 1))
  <2>1. i + 1 + m <= n /\ end <= p
    BY <1>1, <1>4
  <2>2. p \in Nat /\ q \in Nat /\ q >= p
    BY <1>2, <2>1
  <2>. HIDE DEF p, q
  <2>3. end <= q
    BY <1>1, <2>1, <2>2
  <2>. QED  BY <2>3 DEF q
<1>. HIDE DEF T
<1>5. j - (i + 1) \in Nat /\ i + 1 + (j - (i + 1)) = j /\ j <= n + 1
  BY <1>1 DEF n
<1>6. j - (i + 1) \in T
  BY <1>3, <1>4, <1>5, Induction
<1>. QED  BY <1>5, <1>6 DEF T, end

-----------------------------------------------------------------------------
(* Copying a row and reading it                                             *)

\* A piece of memory, as bits
Memory(size) == [1..size -> {0, 1}]

\* The bits of each column are where the column begins.
Stored(types, results, memory, start) ==
  \A i \in 1..Len(types) : \A k \in 1..ResultSize(types[i], results[i]) :
    memory[start + Place(types, results, i) + k] = Written(types[i], results[i])[k]

\* Writing some bits leaves all others.
LEMMA Overwriting ==
  ASSUME NEW size \in Nat, NEW memory \in Memory(size), NEW offset \in Nat, NEW bits \in Seq({0, 1})
  PROVE  /\ Overwritten(memory, offset, bits) \in Memory(size)
         /\ \A x \in 1..size : Overwritten(memory, offset, bits)[x] =
              IF offset < x /\ x <= offset + Len(bits) THEN bits[x - offset] ELSE memory[x]
<1>1. DOMAIN memory = 1..size /\ Len(bits) \in Nat
  BY DEF Memory
<1>2. \A x \in 1..size : offset < x /\ x <= offset + Len(bits) => bits[x - offset] \in {0, 1}
  <2>. SUFFICES ASSUME NEW x \in 1..size, offset < x, x <= offset + Len(bits)
                PROVE  bits[x - offset] \in {0, 1}
    OBVIOUS
  <2>1. x - offset \in 1..Len(bits)
    BY <1>1
  <2>. QED  BY <2>1
<1>3. \A x \in 1..size : memory[x] \in {0, 1}
  BY DEF Memory
<1>. QED  BY <1>1, <1>2, <1>3 DEF Overwritten, Memory

\* copy() writes the columns one after the other.
LEMMA CopyFold ==
  ASSUME NEW types, NEW results, IsRow(types, results),
         ~ComputeSizeThrows(types, results), ~CopyThrows(types, results),
         NEW size \in Nat, NEW memory \in Memory(size), NEW start \in Nat
  PROVE  \E f \in [0..Len(types) -> Memory(size)] :
           /\ f[0] = memory /\ f[Len(types)] = Copy(types, results, memory, start)
           /\ \A m \in 0..(Len(types) - 1) :
                f[m + 1] = Overwritten(f[m], start + Place(types, results, m + 1),
                                       Written(types[m + 1], results[m + 1]))
<1>. DEFINE n     == Len(types)
            A     == Memory(size)
            W(m, i) == Overwritten(m, start + Place(types, results, i), Written(types[i], results[i]))
            ids   == [i \in DOMAIN types |-> i]
            step == [x \in A \X (1..n) |-> W(x[1], x[2])]
            fold == CHOOSE iter : iter = [s \in SUBSET DOMAIN ids |->
                                            IF s = {} THEN memory ELSE W(iter[s \ {Max(s)}], ids[Max(s)])]
<1>1. n \in Nat /\ DOMAIN types = 1..n /\ DOMAIN ids = 1..n
  BY DEF IsRow
<1>2. ASSUME NEW m \in A, NEW i \in 1..n PROVE W(m, i) \in A
  <2>1. types[i] \in DOMAIN Width \cup {"string"} /\ IsResult(results[i]) /\ ~WriteThrows(types[i], results[i])
    BY <1>1 DEF IsRow, CopyThrows
  <2>2. Written(types[i], results[i]) \in Seq({0, 1})
    BY <2>1, WrittenBits
  <2>3. start + Place(types, results, i) \in Nat
    <3>1. i \in 1..(Len(types) + 1)
      BY <1>1
    <3>2. Place(types, results, i) \in Nat
      BY <3>1, Places
    <3>. QED  BY <3>2
  <2>. QED  BY <2>2, <2>3, Overwriting
<1>. HIDE DEF n, A, W
<1>3. step \in [A \X (1..n) -> A]
  BY <1>2
<1>4. memory \in A
  BY DEF A
<1>5. PICK iter : Folds(step, memory, iter, SUBSET (1..n)) /\ \A s \in SUBSET (1..n) : iter[s] \in A
  <2>. HIDE DEF step
  <2>. QED  BY <1>1, <1>3, <1>4, FoldExists
<1>6. \A s \in SUBSET (1..n) : s # {} => Max(s) \in 1..n /\ s \ {Max(s)} \in SUBSET (1..n)
  BY <1>1, LargestIndex
<1>7. iter = [s \in SUBSET (1..n) |-> IF s = {} THEN memory ELSE W(iter[s \ {Max(s)}], Max(s))]
  BY <1>1, <1>5, <1>6 DEF Folds
<1>8. \A s \in SUBSET (1..n) : s # {} => ids[Max(s)] = Max(s)
  BY <1>1, <1>6
<1>9. Copy(types, results, memory, start) = fold[1..n]
  BY <1>1 DEF Copy, FoldLeft, MapThenFoldSet, W, Place
<1>10. iter = [s \in SUBSET DOMAIN ids |-> IF s = {} THEN memory ELSE W(iter[s \ {Max(s)}], ids[Max(s)])]
  <2>. HIDE DEF ids
  <2>. QED  BY <1>1, <1>7, <1>8
<1>11. fold = [s \in SUBSET DOMAIN ids |-> IF s = {} THEN memory ELSE W(fold[s \ {Max(s)}], ids[Max(s)])]
  BY <1>10
<1>. HIDE DEF fold, step, ids
<1>. DEFINE f == [m \in 0..n |-> fold[1..m]]
<1>12. f[0] = memory
  <2>1. 1..0 = {} /\ 0 \in 0..n /\ {} \in SUBSET (1..n)
    BY <1>1
  <2>2. fold[{}] = memory
    BY <1>1, <1>11, <2>1
  <2>. QED  BY <2>1, <2>2
<1>13. ASSUME NEW m \in 0..(n - 1)
       PROVE  f[m + 1] = W(f[m], m + 1)
  <2>1. 1..(m + 1) \in SUBSET (1..n) /\ m \in Nat /\ m \in 0..n /\ m + 1 \in 0..n
    BY <1>1
  <2>2. Max(1..(m + 1)) = m + 1 /\ (1..(m + 1)) \ {m + 1} = 1..m /\ 1..(m + 1) # {}
    BY <2>1, LastIndex
  <2>3. fold[1..(m + 1)] = W(fold[(1..(m + 1)) \ {Max(1..(m + 1))}], Max(1..(m + 1)))
    BY <1>1, <1>8, <1>11, <2>1, <2>2
  <2>. QED  BY <2>1, <2>2, <2>3
<1>14. f = [m \in 0..n |-> f[m]] /\ f[n] = fold[1..n]
  BY <1>1
<1>. HIDE DEF f
<1>15. \A m \in 0..n : f[m] \in A
  <2>1. f[0] \in A
    BY <1>4, <1>12
  <2>2. \A m \in 0..(n - 1) : f[m] \in A => f[m + 1] \in A
    <3>1. \A m \in 0..(n - 1) : m + 1 \in 1..n
      BY <1>1
    <3>. QED  BY <1>2, <1>13, <3>1
  <2>. QED  BY <1>1, <2>1, <2>2, StaysIn
<1>16. f \in [0..n -> A]
  BY <1>14, <1>15
<1>. QED  BY <1>9, <1>12, <1>13, <1>14, <1>16 DEF n, A, W

\* What copy() leaves in a memory in which the row has room: the row, and around it
\* what was there before.
LEMMA CopyStores ==
  ASSUME NEW types, NEW results, IsRow(types, results),
         ~ComputeSizeThrows(types, results), ~CopyThrows(types, results),
         NEW size \in Nat, NEW memory \in Memory(size), NEW start \in Nat,
         start + ComputeSize(types, results) <= size
  PROVE  /\ Copy(types, results, memory, start) \in Memory(size)
         /\ Stored(types, results, Copy(types, results, memory, start), start)
         /\ \A x \in 1..size : x <= start \/ x > start + ComputeSize(types, results) =>
              Copy(types, results, memory, start)[x] = memory[x]
<1>. DEFINE n     == Len(types)
            at(i) == Place(types, results, i)
            sz(i) == ResultSize(types[i], results[i])
            W(i)  == Written(types[i], results[i])
            Done(m, mem) == /\ \A i \in 1..m : \A k \in 1..sz(i) : mem[start + at(i) + k] = W(i)[k]
                            /\ \A x \in 1..size : x <= start \/ x > start + at(m + 1) => mem[x] = memory[x]
<1>1. PICK f \in [0..n -> Memory(size)] :
        /\ f[0] = memory /\ f[n] = Copy(types, results, memory, start)
        /\ \A m \in 0..(n - 1) : f[m + 1] = Overwritten(f[m], start + at(m + 1), W(m + 1))
  BY CopyFold
<1>2. n \in Nat /\ \A i \in 1..n : W(i) \in Seq({0, 1}) /\ Len(W(i)) = sz(i)
  <2>1. n \in Nat /\ DOMAIN types = 1..n
    BY DEF IsRow
  <2>2. ASSUME NEW i \in 1..n PROVE W(i) \in Seq({0, 1}) /\ Len(W(i)) = sz(i)
    <3>1. types[i] \in DOMAIN Width \cup {"string"} /\ IsResult(results[i]) /\ ~WriteThrows(types[i], results[i])
      BY <2>1 DEF IsRow, CopyThrows
    <3>. QED  BY <3>1, WrittenBits
  <2>. QED  BY <2>1, <2>2
<1>3. /\ at(1) = 0 /\ at(n + 1) = ComputeSize(types, results)
      /\ \A i \in 1..n : sz(i) \in Nat /\ at(i + 1) = at(i) + sz(i)
      /\ \A i \in 1..(n + 1) : at(i) \in Nat
  BY Places
<1>4. \A i \in 1..n : \A j \in (i + 1)..(n + 1) : at(i) + sz(i) <= at(j)
  BY PlacesGrow
<1>5. \A i \in 1..n : start + at(i) + sz(i) <= size
  <2>. SUFFICES ASSUME NEW i \in 1..n PROVE start + at(i) + sz(i) <= size
    OBVIOUS
  <2>. HIDE DEF n, at, sz
  <2>1. n + 1 \in (i + 1)..(n + 1) /\ i \in 1..(n + 1) /\ n + 1 \in 1..(n + 1)
    BY <1>2
  <2>2. at(i) + sz(i) <= at(n + 1) /\ at(i) \in Nat /\ sz(i) \in Nat /\ at(n + 1) \in Nat
    BY <1>3, <1>4, <2>1
  <2>. QED  BY <1>3, <2>2
<1>. HIDE DEF n, at, sz, W
<1>. DEFINE T == {m \in Nat : m <= n => Done(m, f[m])}
<1>6. 0 \in T
  BY <1>1, <1>3
<1>7. ASSUME NEW m \in Nat, m \in T PROVE m + 1 \in T
  <2>. SUFFICES ASSUME m + 1 <= n PROVE Done(m + 1, f[m + 1])
    OBVIOUS
  <2>. DEFINE offset == start + at(m + 1)
              new    == f[m + 1]
              old    == f[m]
  <2>1. m \in 0..(n - 1) /\ m + 1 \in 1..n /\ m \in 0..n /\ m + 1 \in 1..(n + 1) /\ (m + 1) + 1 \in 1..(n + 1)
    BY <1>2
  <2>2. offset \in Nat /\ sz(m + 1) \in Nat /\ at(m + 1) \in Nat /\ at((m + 1) + 1) = at(m + 1) + sz(m + 1)
    BY <1>3, <2>1
  <2>3. Done(m, old) /\ old \in Memory(size)
    BY <1>1, <1>7, <2>1
  <2>4. new = Overwritten(old, offset, W(m + 1))
    BY <1>1, <2>1
  <2>. HIDE DEF new, old
  <2>5. \A x \in 1..size : new[x] = IF offset < x /\ x <= offset + sz(m + 1) THEN W(m + 1)[x - offset] ELSE old[x]
    <3>1. W(m + 1) \in Seq({0, 1}) /\ Len(W(m + 1)) = sz(m + 1)
      BY <1>2, <2>1
    <3>2. offset \in Nat
      BY <2>2
    <3>. HIDE DEF offset
    <3>3. \A x \in 1..size : Overwritten(old, offset, W(m + 1))[x] =
            IF offset < x /\ x <= offset + Len(W(m + 1)) THEN W(m + 1)[x - offset] ELSE old[x]
      BY <2>3, <3>1, <3>2, Overwriting
    <3>. QED  BY <2>4, <3>1, <3>3
  <2>6. ASSUME NEW i \in 1..(m + 1), NEW k \in 1..sz(i) PROVE new[start + at(i) + k] = W(i)[k]
    <3>. DEFINE x == start + at(i) + k
    <3>1. i \in 1..n /\ i \in 1..(n + 1)
      BY <1>2, <2>1
    <3>2. at(i) \in Nat /\ sz(i) \in Nat /\ start + at(i) + sz(i) <= size
      BY <1>3, <1>5, <3>1
    <3>3. k \in Nat /\ 1 <= k /\ k <= sz(i) /\ x \in 1..size
      BY <3>2
    <3>4. CASE i = m + 1
      <4>0. at(i) = at(m + 1) /\ sz(i) = sz(m + 1) /\ W(i) = W(m + 1)
        BY <3>4
      <4>1. offset < x /\ x <= offset + sz(m + 1) /\ x - offset = k
        <5>1. offset = start + at(i) /\ x = start + at(i) + k
          BY <4>0
        <5>2. at(i) \in Nat /\ sz(i) \in Nat /\ k \in Nat /\ 1 <= k /\ k <= sz(i)
          BY <3>2, <3>3
        <5>. DEFINE a == at(i)
                    z == sz(i)
        <5>3. a \in Nat /\ z \in Nat /\ offset = start + a /\ x = start + a + k
          BY <5>1, <5>2
        <5>. HIDE DEF x, offset, a, z
        <5>4. offset \in Nat /\ x \in Nat /\ x = offset + k
          BY <5>2, <5>3
        <5>5. k <= z
          BY <5>2 DEF z
        <5>6. offset < x /\ x <= offset + z /\ x - offset = k
          BY <5>2, <5>3, <5>4, <5>5
        <5>. QED  BY <5>6, <4>0 DEF z
      <4>2. x \in 1..size
        BY <3>3
      <4>. HIDE DEF x, offset
      <4>3. new[x] = W(m + 1)[x - offset]
        BY <2>5, <4>1, <4>2
      <4>4. new[x] = W(i)[k]
        BY <4>0, <4>1, <4>3
      <4>. QED  BY <4>4 DEF x
    <3>5. CASE i \in 1..m
      <4>1. m + 1 \in (i + 1)..(n + 1)
        BY <2>1, <3>5
      <4>2. at(i) + sz(i) <= at(m + 1)
        BY <1>4, <3>1, <4>1
      <4>. DEFINE a == at(i)
                  b == at(m + 1)
                  z == sz(i)
      <4>3. x <= offset
        <5>1. /\ a \in Nat /\ b \in Nat /\ z \in Nat /\ a + z <= b /\ k \in Nat /\ k <= z
              /\ x = start + a + k /\ offset = start + b
          BY <2>2, <3>2, <3>3, <4>2
        <5>. HIDE DEF x, offset, a, b, z
        <5>. QED  BY <5>1
      <4>4. old[x] = W(i)[k]
        BY <2>3, <3>5
      <4>. HIDE DEF x, offset
      <4>5. ~(offset < x)
        BY <2>2, <3>3, <4>3
      <4>6. new[x] = old[x]
        BY <2>5, <3>3, <4>5
      <4>. QED  BY <4>4, <4>6 DEF x
    <3>. QED  BY <3>4, <3>5
  <2>7. ASSUME NEW x \in 1..size, x <= start \/ x > start + at((m + 1) + 1) PROVE new[x] = memory[x]
    <3>1. x <= start \/ x > start + at(m + 1)
      BY <2>2, <2>7
    <3>2. ~(offset < x /\ x <= offset + sz(m + 1))
      BY <2>2, <2>7
    <3>. QED  BY <2>3, <2>5, <3>1, <3>2
  <2>. QED  BY <2>6, <2>7 DEF new
<1>. HIDE DEF T
<1>8. n \in T
  BY <1>2, <1>6, <1>7, Induction
<1>9. Done(n, f[n]) /\ f[n] \in Memory(size)
  BY <1>1, <1>2, <1>8 DEF T
<1>10. Copy(types, results, memory, start) = f[n] /\ at(n + 1) = ComputeSize(types, results)
  BY <1>1, <1>3
<1>. QED  BY <1>9, <1>10 DEF Stored, n, at, sz, W

\* The bits at an offset
LEMMA BitsInside ==
  ASSUME NEW size \in Nat, NEW memory \in Memory(size), NEW offset \in Nat, NEW w \in Nat, offset + w <= size
  PROVE  /\ BitsAt(memory, offset, w) \in Seq({0, 1})
         /\ Len(BitsAt(memory, offset, w)) = w
         /\ \A k \in 1..w : BitsAt(memory, offset, w)[k] = memory[offset + k]
         /\ Inside(memory, offset, w)
<1>1. memory \in Seq({0, 1}) /\ Len(memory) = size
  BY DEF Memory
<1>2. offset + 1 \in Nat /\ offset + w \in Nat /\ 1 <= offset + 1
  OBVIOUS
<1>3. /\ Len(SubSeq(memory, offset + 1, offset + w)) = w
      /\ \A k \in 1..w : SubSeq(memory, offset + 1, offset + w)[k] = memory[offset + k]
      /\ SubSeq(memory, offset + 1, offset + w) = [k \in 1..w |-> SubSeq(memory, offset + 1, offset + w)[k]]
  BY <1>1
<1>4. \A k \in 1..w : memory[offset + k] \in {0, 1}
  BY <1>1
<1>. QED  BY <1>1, <1>3, <1>4 DEF BitsAt, Inside

\* The bits of a column of a row that is stored
LEMMA ColumnBits ==
  ASSUME NEW types, NEW results, IsRow(types, results),
         ~ComputeSizeThrows(types, results), ~CopyThrows(types, results),
         NEW size \in Nat, NEW memory \in Memory(size), NEW start \in Nat,
         start + ComputeSize(types, results) <= size,
         Stored(types, results, memory, start), NEW i \in 1..Len(types),
         NEW d \in Nat, NEW w \in Nat, d + w <= ResultSize(types[i], results[i])
  PROVE  /\ start + Place(types, results, i) + d \in Nat
         /\ start + Place(types, results, i) + d + w <= size
         /\ BitsAt(memory, start + Place(types, results, i) + d, w) = SubSeq(Written(types[i], results[i]), d + 1, d + w)
<1>. DEFINE n  == Len(types)
            at == Place(types, results, i)
            sz == ResultSize(types[i], results[i])
            W  == Written(types[i], results[i])
            o  == start + at + d
<1>1. n \in Nat /\ i \in 1..n /\ i \in 1..(n + 1) /\ n + 1 \in (i + 1)..(n + 1) /\ DOMAIN types = 1..n
  BY DEF IsRow
<1>2. at \in Nat /\ sz \in Nat /\ at + sz <= ComputeSize(types, results) /\ ComputeSize(types, results) \in Nat
  <2>1. at \in Nat /\ sz \in Nat /\ Place(types, results, n + 1) = ComputeSize(types, results)
    BY <1>1, Places
  <2>2. n + 1 \in 1..(n + 1)
    BY <1>1
  <2>3. Place(types, results, n + 1) \in Nat
    BY <2>2, Places
  <2>4. at + sz <= Place(types, results, n + 1)
    BY <1>1, PlacesGrow
  <2>. QED  BY <2>1, <2>3, <2>4
<1>3. W \in Seq({0, 1}) /\ Len(W) = sz
  <2>1. types[i] \in DOMAIN Width \cup {"string"} /\ IsResult(results[i]) /\ ~WriteThrows(types[i], results[i])
    BY <1>1 DEF IsRow, CopyThrows
  <2>. QED  BY <2>1, WrittenBits
<1>4. \A k \in 1..sz : memory[start + at + k] = W[k]
  BY DEF Stored
<1>. HIDE DEF at, sz, W
<1>5. o \in Nat /\ o + w <= size
  BY <1>2 DEF sz
<1>6. \A k \in 1..w : memory[o + k] = W[d + k]
  <2>. SUFFICES ASSUME NEW k \in 1..w PROVE memory[o + k] = W[d + k]
    OBVIOUS
  <2>1. d + k \in 1..sz /\ start + at + (d + k) = o + k
    BY <1>2 DEF sz
  <2>. QED  BY <1>4, <2>1
<1>7. SubSeq(W, d + 1, d + w) = [k \in 1..w |-> W[d + k]]
  <2>1. d + 1 \in Nat /\ d + w \in Nat /\ d + w <= Len(W)
    BY <1>2, <1>3 DEF sz
  <2>. QED  BY <1>3, <2>1
<1>. HIDE DEF o
<1>8. /\ BitsAt(memory, o, w) \in Seq({0, 1}) /\ Len(BitsAt(memory, o, w)) = w
      /\ \A k \in 1..w : BitsAt(memory, o, w)[k] = memory[o + k]
  BY <1>5, BitsInside
<1>9. BitsAt(memory, o, w) = [k \in 1..w |-> memory[o + k]]
  BY <1>8
<1>10. BitsAt(memory, o, w) = SubSeq(W, d + 1, d + w)
  BY <1>6, <1>7, <1>9
<1>. QED  BY <1>5, <1>10 DEF o, at, W

\* A column can be told from the next one: getSize finds in the bytes the size with
\* which it was written.  It does not find that of MaxString, nor that of a string
\* that has, with its header, the length that marks MaxString.
SizesTold(types, results) ==
  \A i \in 1..(Len(types) - 1) : types[i] = "string" =>
    /\ results[i].kind # "maxString"
    /\ results[i].kind = "string" => Header + Len(results[i].chars) # MaxLength

\* A row as it is in a memory that has room for it
InMemory(types, results, size, memory, start) ==
  /\ IsRow(types, results)
  /\ ~ComputeSizeThrows(types, results) /\ ~CopyThrows(types, results)
  /\ size \in Nat /\ memory \in Memory(size) /\ start \in Nat
  /\ start + ComputeSize(types, results) <= size
  /\ Stored(types, results, memory, start)

\* What was not refused: a string is shorter than the mark, and a number fits.
LEMMA Accepted ==
  ASSUME NEW types, NEW results, IsRow(types, results), ~CopyThrows(types, results), NEW i \in 1..Len(types)
  PROVE  /\ types[i] \in DOMAIN Width \cup {"string"} /\ IsResult(results[i])
         /\ types[i] = "string" =>
              \/ results[i].kind = "maxString"
              \/ results[i].kind = "string" /\ Len(results[i].chars) < MaxLength /\ Len(results[i].chars) \in Nat
         /\ types[i] # "string" => /\ results[i].kind = "int" /\ results[i].value \in Int
                                   /\ FitsType(types[i], results[i].value)
                                   /\ Width[types[i]] \in Nat \ {0}
<1>1. types[i] \in DOMAIN Width \cup {"string"} /\ IsResult(results[i]) /\ ~WriteThrows(types[i], results[i])
  BY DEF IsRow, CopyThrows
<1>2. results[i].kind = "string" => Len(results[i].chars) \in Nat
  BY <1>1, ResultKinds
<1>3. MaxLength \in Nat
  BY LengthMark
<1>. QED  BY <1>1, <1>2, <1>3, ResultKinds, RowAssumption DEF WriteThrows, RightKind

\* The header of a string, and its characters
LEMMA StringBits ==
  ASSUME NEW types, NEW results, NEW size, NEW memory, NEW start,
         InMemory(types, results, size, memory, start),
         NEW i \in 1..Len(types), types[i] = "string"
  PROVE  LET o == start + Place(types, results, i)
         IN  /\ o \in Nat /\ Inside(memory, o, Header)
             /\ results[i].kind = "maxString" => Unsigned(BitsAt(memory, o, Header)) = MaxLength
             /\ results[i].kind = "string" =>
                  /\ Unsigned(BitsAt(memory, o, Header)) = Len(results[i].chars)
                  /\ Inside(memory, o + Header, Len(results[i].chars))
                  /\ BitsAt(memory, o + Header, Len(results[i].chars)) = results[i].chars
<1>. DEFINE o == start + Place(types, results, i)
            r == results[i]
            W == Written(types[i], r)
<1>1. Header \in Nat /\ size \in Nat /\ memory \in Memory(size) /\ MaxLength \in Nat /\ MaxLength < TwoTo[Header]
  BY RowAssumption, LengthMark DEF InMemory
<1>2. /\ IsResult(r)
      /\ \/ r.kind = "maxString"
         \/ r.kind = "string" /\ Len(r.chars) < MaxLength /\ Len(r.chars) \in Nat /\ r.chars \in Seq({0, 1})
  BY Accepted, ResultKinds DEF InMemory
<1>3. ASSUME NEW d \in Nat, NEW w \in Nat, d + w <= ResultSize(types[i], r)
      PROVE  /\ o + d \in Nat /\ o + d + w <= size
             /\ BitsAt(memory, o + d, w) = SubSeq(W, d + 1, d + w)
  BY <1>3, ColumnBits DEF InMemory
<1>4. o \in Nat
  <2>1. i \in 1..(Len(types) + 1) /\ start \in Nat
    BY DEF InMemory, IsRow
  <2>2. Place(types, results, i) \in Nat
    BY <2>1, Places DEF InMemory
  <2>. QED  BY <2>1, <2>2
<1>5. ASSUME NEW d \in Nat, NEW w \in Nat, o + d + w <= size
      PROVE  Inside(memory, o + d, w)
  <2>. HIDE DEF o
  <2>1. o + d \in Nat
    BY <1>4
  <2>. QED  BY <1>1, <1>5, <2>1, BitsInside
<1>6. CASE r.kind = "maxString"
  <2>1. W = Encode(MaxLength, Header) /\ ResultSize(types[i], r) = Header
    BY <1>6 DEF Written, ResultSize
  <2>2. W \in Seq({0, 1}) /\ Len(W) = Header
    BY <1>1, <2>1, EncodeFold
  <2>. HIDE DEF o, r, W
  <2>3. o + 0 + Header <= size /\ BitsAt(memory, o + 0, Header) = SubSeq(W, 0 + 1, 0 + Header)
    BY <1>1, <1>3, <2>1
  <2>4. o + 0 = o /\ SubSeq(W, 0 + 1, 0 + Header) = W
    BY <1>1, <1>4, <2>2
  <2>5. Unsigned(W) = MaxLength
    BY <1>1, <2>1, UnsignedEncode
  <2>6. Inside(memory, o, Header)
    BY <1>1, <1>4, <1>5, <2>3, <2>4
  <2>. QED  BY <1>4, <1>6, <2>3, <2>4, <2>5, <2>6 DEF o, r
<1>7. CASE r.kind = "string"
  <2>. DEFINE h == Encode(Len(r.chars), Header)
              c == r.chars
  <2>1. W = h \o c /\ ResultSize(types[i], r) = Header + Len(c)
    BY <1>7 DEF Written, ResultSize
  <2>2. h \in Seq({0, 1}) /\ Len(h) = Header /\ c \in Seq({0, 1}) /\ Len(c) \in Nat /\ Len(c) < MaxLength
    <3>1. c \in Seq({0, 1}) /\ Len(c) \in Nat /\ Len(c) < MaxLength
      BY <1>2, <1>7
    <3>2. Len(c) \in Int
      BY <3>1
    <3>3. h \in Seq({0, 1}) /\ Len(h) = Header
      BY <1>1, <3>2, EncodeFold
    <3>. QED  BY <3>1, <3>3
  <2>3. Unsigned(h) = Len(c)
    <3>1. Len(c) < TwoTo[Header] /\ Header \in Nat /\ Len(c) \in Nat
      <4>1. TwoTo[Header] \in Nat
        BY <1>1, Powers
      <4>. QED  BY <1>1, <2>2, <4>1
    <3>. QED  BY <3>1, UnsignedEncode
  <2>. HIDE DEF o, r, W, h, c
  <2>4. SubSeq(W, 0 + 1, 0 + Header) = h /\ SubSeq(W, Header + 1, Header + Len(c)) = c
    BY <1>1, <2>1, <2>2
  <2>5. /\ o + 0 + Header <= size /\ BitsAt(memory, o + 0, Header) = SubSeq(W, 0 + 1, 0 + Header)
        /\ o + Header + Len(c) <= size /\ BitsAt(memory, o + Header, Len(c)) = SubSeq(W, Header + 1, Header + Len(c))
    <3>1. 0 + Header <= ResultSize(types[i], r) /\ Header + Len(c) <= ResultSize(types[i], r)
      BY <1>1, <2>1, <2>2
    <3>. QED  BY <1>1, <1>3, <2>2, <3>1
  <2>6. o + 0 = o
    BY <1>4
  <2>7. Inside(memory, o, Header) /\ Inside(memory, o + Header, Len(c))
    BY <1>1, <1>4, <1>5, <2>2, <2>5, <2>6
  <2>. QED  BY <1>4, <1>7, <2>3, <2>4, <2>5, <2>6, <2>7 DEF o, r, c
<1>. QED  BY <1>2, <1>6, <1>7

\* A number
LEMMA NumberBits ==
  ASSUME NEW types, NEW results, NEW size, NEW memory, NEW start,
         InMemory(types, results, size, memory, start),
         NEW i \in 1..Len(types), types[i] # "string"
  PROVE  LET o == start + Place(types, results, i)
         IN  /\ o \in Nat /\ Inside(memory, o, Width[types[i]])
             /\ Signed(BitsAt(memory, o, Width[types[i]])) = results[i].value
<1>. DEFINE o == start + Place(types, results, i)
            r == results[i]
            w == Width[types[i]]
            W == Written(types[i], r)
<1>1. size \in Nat /\ memory \in Memory(size)
  BY DEF InMemory
<1>2. w \in Nat \ {0} /\ r.kind = "int" /\ r.value \in Int /\ FitsType(types[i], r.value)
  BY Accepted DEF InMemory
<1>3. W = Encode(r.value, w) /\ ResultSize(types[i], r) = w
  BY <1>2 DEF Written, ResultSize
<1>4. o \in Nat
  <2>1. i \in 1..(Len(types) + 1) /\ start \in Nat
    BY DEF InMemory, IsRow
  <2>2. Place(types, results, i) \in Nat
    BY <2>1, Places DEF InMemory
  <2>. QED  BY <2>1, <2>2
<1>5. o + 0 + w <= size /\ BitsAt(memory, o + 0, w) = SubSeq(W, 0 + 1, 0 + w)
  <2>1. 0 \in Nat /\ 0 + w <= ResultSize(types[i], results[i]) /\ w \in Nat
    BY <1>2, <1>3
  <2>. QED  BY <2>1, ColumnBits DEF InMemory
<1>6. W \in Seq({0, 1}) /\ Len(W) = w
  BY <1>2, <1>3, EncodeFold
<1>7. Signed(W) = r.value
  <2>1. -TwoTo[w - 1] <= r.value /\ r.value <= TwoTo[w - 1] - 1
    BY <1>2 DEF FitsType
  <2>. QED  BY <1>2, <1>3, <2>1, SignedEncode
<1>. HIDE DEF o, r, W, w
<1>8. o + 0 = o /\ SubSeq(W, 0 + 1, 0 + w) = W
  BY <1>2, <1>4, <1>6
<1>9. Inside(memory, o, w)
  BY <1>1, <1>2, <1>4, <1>5, <1>8, BitsInside
<1>. QED  BY <1>4, <1>5, <1>7, <1>8, <1>9 DEF o, r, w

\* read() of a column, at its place, finds what was written.
LEMMA ColumnReadsBack ==
  ASSUME NEW types, NEW results, NEW size, NEW memory, NEW start,
         InMemory(types, results, size, memory, start), NEW i \in 1..Len(types)
  PROVE  Read(types[i], memory, start + Place(types, results, i)) = results[i]
<1>. DEFINE o == start + Place(types, results, i)
            r == results[i]
<1>1. CASE types[i] # "string"
  <2>1. Inside(memory, o, Width[types[i]]) /\ Signed(BitsAt(memory, o, Width[types[i]])) = r.value
    BY <1>1, NumberBits
  <2>2. r = IntResult(r.value)
    <3>1. r.kind = "int" /\ IsResult(r)
      BY <1>1, Accepted DEF InMemory
    <3>. QED  BY <3>1, ResultKinds
  <2>. HIDE DEF o, r
  <2>3. Read(types[i], memory, o) = IntResult(Signed(BitsAt(memory, o, Width[types[i]])))
    BY <1>1, <2>1 DEF Read
  <2>. QED  BY <2>1, <2>2, <2>3 DEF o, r
<1>2. CASE types[i] = "string"
  <2>. DEFINE len == Unsigned(BitsAt(memory, o, Header))
  <2>1. /\ o \in Nat /\ Inside(memory, o, Header)
        /\ r.kind = "maxString" => len = MaxLength
        /\ r.kind = "string" => /\ len = Len(r.chars) /\ Inside(memory, o + Header, Len(r.chars))
                                /\ BitsAt(memory, o + Header, Len(r.chars)) = r.chars
    BY <1>2, StringBits
  <2>2. /\ IsResult(r)
        /\ \/ r.kind = "maxString"
           \/ r.kind = "string" /\ Len(r.chars) < MaxLength /\ Len(r.chars) \in Nat
    <3>1. IsRow(types, results) /\ ~CopyThrows(types, results)
      BY DEF InMemory
    <3>2. IsResult(r)
      BY <3>1 DEF IsRow
    <3>3. \/ r.kind = "maxString"
          \/ r.kind = "string" /\ Len(r.chars) < MaxLength /\ Len(r.chars) \in Nat
      BY <1>2, <3>1, Accepted
    <3>. QED  BY <3>2, <3>3
  <2>3. (r.kind = "maxString" => r = MaxString) /\ (r.kind = "string" => r = StringResult(r.chars))
    BY <2>2, ResultKinds
  <2>4. MaxLength \in Nat
    BY LengthMark
  <2>. HIDE DEF o, r
  <2>5. CASE r.kind = "maxString"
    <3>1. len = MaxLength
      BY <2>1, <2>5
    <3>2. Read(types[i], memory, o) = MaxString
      BY <1>2, <2>1, <2>4, <3>1 DEF Read
    <3>. QED  BY <2>3, <2>5, <3>2 DEF o, r
  <2>6. CASE r.kind = "string"
    <3>1. len = Len(r.chars) /\ len < MaxLength /\ len # MaxLength
      BY <2>1, <2>2, <2>4, <2>6
    <3>2. Read(types[i], memory, o) = StringResult(BitsAt(memory, o + Header, len))
      BY <1>2, <2>1, <2>6, <3>1 DEF Read
    <3>. QED  BY <2>1, <2>3, <2>6, <3>1, <3>2 DEF o, r
  <2>. QED  BY <2>2, <2>5, <2>6
<1>. QED  BY <1>1, <1>2

\* getSize finds the size of every column but the last.
LEMMA ColumnSizeTold ==
  ASSUME NEW types, NEW results, NEW size, NEW memory, NEW start,
         InMemory(types, results, size, memory, start), SizesTold(types, results),
         NEW i \in 1..(Len(types) - 1)
  PROVE  LET o == start + Place(types, results, i)
         IN  /\ Inside(memory, o, IF types[i] = "string" THEN Header ELSE Width[types[i]])
             /\ SizeAt(types[i], memory, o) = ResultSize(types[i], results[i])
<1>. DEFINE o == start + Place(types, results, i)
            r == results[i]
<1>1. i \in 1..Len(types)
  BY DEF InMemory, IsRow
<1>2. CASE types[i] # "string"
  <2>1. Inside(memory, o, Width[types[i]])
    BY <1>1, <1>2, NumberBits
  <2>. QED  BY <1>2, <2>1 DEF SizeAt, ResultSize
<1>3. CASE types[i] = "string"
  <2>1. r.kind = "string" /\ Len(r.chars) \in Nat /\ Header + Len(r.chars) # MaxLength
    BY <1>1, <1>3, Accepted DEF InMemory, SizesTold
  <2>2. Inside(memory, o, Header) /\ Unsigned(BitsAt(memory, o, Header)) = Len(r.chars)
    BY <1>1, <1>3, <2>1, StringBits
  <2>3. Header \in Nat
    BY RowAssumption
  <2>4. ResultSize(types[i], r) = Header + Len(r.chars)
    BY <1>3, <2>1 DEF ResultSize
  <2>. HIDE DEF o, r
  <2>5. Len(r.chars) + Header = Header + Len(r.chars)
    BY <2>1, <2>3
  <2>6. SizeAt(types[i], memory, o) = Header + Len(r.chars)
    BY <1>3, <2>1, <2>2, <2>5 DEF SizeAt
  <2>. QED  BY <1>3, <2>2, <2>4, <2>6 DEF o, r
<1>. QED  BY <1>2, <1>3

\* getResult skips the columns in front of the one it looks for.
LEMMA OffsetFold ==
  ASSUME NEW types, NEW results, NEW size, NEW memory, NEW start,
         InMemory(types, results, size, memory, start), SizesTold(types, results),
         NEW index \in 1..Len(types)
  PROVE  OffsetOf(types, memory, start, index) = start + Place(types, results, index)
<1>. DEFINE n     == index - 1
            seq   == SubSeq(types, 1, index - 1)
            skip(offset, t) == IF Inside(memory, offset, IF t = "string" THEN Header ELSE Width[t])
                               THEN offset + SizeAt(t, memory, offset) ELSE -1
            step == [x \in Int \X (1..n) |-> skip(x[1], seq[x[2]])]
            fold == CHOOSE iter : iter = [s \in SUBSET (1..n) |->
                                            IF s = {} THEN start ELSE skip(iter[s \ {Max(s)}], seq[Max(s)])]
<1>1. /\ n \in Nat /\ DOMAIN seq = 1..n /\ Len(types) \in Nat
      /\ \A i \in 1..n : seq[i] = types[i] /\ seq[i] \in DOMAIN Width \cup {"string"} /\ i \in 1..(Len(types) - 1)
  <2>1. types \in Seq(DOMAIN Width \cup {"string"}) /\ Len(types) \in Nat /\ index - 1 \in Nat /\ index - 1 < Len(types)
    BY DEF InMemory, IsRow
  <2>2. DOMAIN seq = 1..n /\ \A i \in 1..n : seq[i] = types[i] /\ i \in 1..Len(types) /\ i \in 1..(Len(types) - 1)
    BY <2>1
  <2>. QED  BY <2>1, <2>2
<1>2. size \in Nat /\ memory \in Memory(size) /\ start \in Nat /\ Len(memory) = size /\ Header \in Nat
  BY RowAssumption DEF InMemory, Memory
<1>3. ASSUME NEW offset \in Int, NEW t \in DOMAIN Width \cup {"string"} PROVE skip(offset, t) \in Int
  <2>1. CASE t # "string"
    BY <2>1, RowAssumption DEF SizeAt
  <2>2. CASE t = "string" /\ Inside(memory, offset, Header)
    <3>1. offset \in Nat /\ offset + Header <= size
      BY <1>2, <2>2 DEF Inside
    <3>2. BitsAt(memory, offset, Header) \in Seq({0, 1})
      BY <1>2, <3>1, BitsInside
    <3>3. Unsigned(BitsAt(memory, offset, Header)) \in Nat
      <4>. DEFINE b == BitsAt(memory, offset, Header)
      <4>1. PICK f \in [0..Len(b) -> Nat] : f[Len(b)] = Unsigned(b)
        BY <3>2, UnsignedFold
      <4>2. Len(b) \in 0..Len(b)
        BY <3>2
      <4>. HIDE DEF b
      <4>3. Unsigned(b) \in Nat
        BY <4>1, <4>2
      <4>. QED  BY <4>3 DEF b
    <3>. QED  BY <1>2, <2>2, <3>3 DEF SizeAt
  <2>3. CASE t = "string" /\ ~Inside(memory, offset, Header)
    BY <2>3
  <2>. QED  BY <2>1, <2>2, <2>3
<1>4. ASSUME NEW i \in 1..n
      PROVE  skip(start + Place(types, results, i), seq[i]) = start + Place(types, results, i + 1)
  <2>. DEFINE o == start + Place(types, results, i)
  <2>1. i \in 1..(Len(types) - 1) /\ i \in 1..Len(types) /\ seq[i] = types[i] /\ i \in 1..(Len(types) + 1)
    BY <1>1
  <2>2. /\ Inside(memory, o, IF types[i] = "string" THEN Header ELSE Width[types[i]])
        /\ SizeAt(types[i], memory, o) = ResultSize(types[i], results[i])
    BY <2>1, ColumnSizeTold
  <2>3. /\ Place(types, results, i + 1) = Place(types, results, i) + ResultSize(types[i], results[i])
        /\ ResultSize(types[i], results[i]) \in Nat /\ Place(types, results, i) \in Nat
    BY <2>1, Places DEF InMemory
  <2>4. o + ResultSize(types[i], results[i]) = start + Place(types, results, i + 1)
    BY <1>2, <2>3
  <2>. HIDE DEF o
  <2>5. skip(o, seq[i]) = o + ResultSize(types[i], results[i])
    BY <2>1, <2>2
  <2>. QED  BY <2>4, <2>5 DEF o
<1>5. OffsetOf(types, memory, start, index) = fold[1..n]
  BY <1>1 DEF OffsetOf, FoldLeft, MapThenFoldSet
<1>. HIDE DEF n, seq, skip
<1>6. step \in [Int \X (1..n) -> Int]
  BY <1>1, <1>3
<1>7. PICK iter : Folds(step, start, iter, SUBSET (1..n)) /\ \A s \in SUBSET (1..n) : iter[s] \in Int
  <2>1. start \in Int
    BY <1>2
  <2>. HIDE DEF step
  <2>. QED  BY <1>1, <1>6, <2>1, FoldExists
<1>8. \A s \in SUBSET (1..n) : s # {} => Max(s) \in 1..n /\ s \ {Max(s)} \in SUBSET (1..n)
  BY <1>1, LargestIndex
<1>9. iter = [s \in SUBSET (1..n) |-> IF s = {} THEN start ELSE skip(iter[s \ {Max(s)}], seq[Max(s)])]
  BY <1>1, <1>7, <1>8 DEF Folds
<1>10. fold = [s \in SUBSET (1..n) |-> IF s = {} THEN start ELSE skip(fold[s \ {Max(s)}], seq[Max(s)])]
  BY <1>9
<1>. HIDE DEF fold, step
<1>. DEFINE T == {m \in Nat : m <= n => fold[1..m] = start + Place(types, results, m + 1)}
<1>11. 0 \in T
  <2>1. 1..0 = {} /\ {} \in SUBSET (1..n)
    BY <1>1
  <2>2. fold[{}] = start
    BY <1>10, <2>1
  <2>3. Place(types, results, 0 + 1) = 0
    BY Places DEF InMemory
  <2>. QED  BY <1>2, <2>1, <2>2, <2>3
<1>12. ASSUME NEW m \in Nat, m \in T PROVE m + 1 \in T
  <2>. SUFFICES ASSUME m + 1 <= n PROVE fold[1..(m + 1)] = start + Place(types, results, (m + 1) + 1)
    OBVIOUS
  <2>1. 1..(m + 1) \in SUBSET (1..n) /\ m + 1 \in 1..n
    BY <1>1
  <2>2. Max(1..(m + 1)) = m + 1 /\ (1..(m + 1)) \ {m + 1} = 1..m /\ 1..(m + 1) # {}
    BY <2>1, LastIndex
  <2>3. fold[1..(m + 1)] = skip(fold[1..m], seq[m + 1])
    BY <1>10, <2>1, <2>2
  <2>4. fold[1..m] = start + Place(types, results, m + 1)
    BY <1>1, <1>12
  <2>. QED  BY <1>4, <2>1, <2>3, <2>4
<1>. HIDE DEF T
<1>13. n \in T
  BY <1>1, <1>11, <1>12, Induction
<1>14. n + 1 = index
  BY <1>1 DEF n
<1>. QED  BY <1>1, <1>5, <1>13, <1>14 DEF T

\* A row that is stored in a memory reads back as it was written.
LEMMA RowBack ==
  ASSUME NEW types, NEW results, NEW size, NEW memory, NEW start,
         InMemory(types, results, size, memory, start), SizesTold(types, results)
  PROVE  GetResults(types, memory, start) = results
<1>1. DOMAIN types = 1..Len(types) /\ results = [i \in DOMAIN types |-> results[i]]
  BY DEF InMemory, IsRow
<1>2. ASSUME NEW i \in 1..Len(types) PROVE GetResult(types, memory, start, i) = results[i]
  BY OffsetFold, ColumnReadsBack DEF GetResult
<1>. QED  BY <1>1, <1>2 DEF GetResults

-----------------------------------------------------------------------------
(* The places of the rows                                                   *)

\* The blocks are a sequence, whatever they hold.
BlocksAreSequence == \E S : m_bufferBlocks \in Seq(S)

\* As long as nothing has failed, the current block is there, unless nothing
\* has been allocated at all.
CurrentBlockThere ==
  phase = "begun" =>
             \/ m_iCurrentBlock < Len(m_bufferBlocks)
             \/ m_iCurrentBlock = 0 /\ m_iBlockUsed = 0

\* The rows lie in front of what has been used of the current block.
RowsBehindUs ==
  \A i \in Copied :
    /\ m_rows[i].block <= m_iCurrentBlock + 1
    /\ m_rows[i].block = m_iCurrentBlock + 1 => m_rows[i].offset + m_rows[i].size <= m_iBlockUsed
    /\ m_rows[i].offset + m_rows[i].size <= BlockSize
    /\ m_rows[i].block \in 1..Len(m_bufferBlocks)

\* The rows follow one another in each block.
RowsFollow ==
  \A i, j \in Copied : i < j /\ m_rows[i].block = m_rows[j].block =>
    m_rows[i].offset + m_rows[i].size <= m_rows[j].offset

BufferInv == TypeOK /\ BlocksAreSequence /\ CurrentBlockThere /\ RowsBehindUs /\ RowsFollow

-----------------------------------------------------------------------------

\* The fields of the place of a row
LEMMA RowFields ==
  ASSUME NEW r \in RowType
  PROVE  r.block \in Nat /\ r.offset \in Nat /\ r.size \in Nat
BY DEF RowType

\* Appending a block, or changing one, leaves a sequence.
LEMMA AppendBlock ==
  ASSUME NEW s, \E S : s \in Seq(S), NEW b
  PROVE  /\ \E S : Append(s, b) \in Seq(S)
         /\ Len(Append(s, b)) = Len(s) + 1
         /\ Len(s) \in Nat
<1>1. PICK S : s \in Seq(S)
  OBVIOUS
<1>2. s \in Seq(S \cup {b})
  BY <1>1
<1>3. Append(s, b) \in Seq(S \cup {b})
  BY <1>2
<1>. QED  BY <1>1, <1>2, <1>3

\* Replacing a block leaves a sequence of the same length.
LEMMA ChangeBlock ==
  ASSUME NEW s, \E S : s \in Seq(S), NEW k \in 1..Len(s), NEW b
  PROVE  /\ \E S : [s EXCEPT ![k] = b] \in Seq(S)
         /\ Len([s EXCEPT ![k] = b]) = Len(s)
<1>1. PICK S : s \in Seq(S)
  OBVIOUS
<1>2. s \in Seq(S \cup {b})
  BY <1>1
<1>3. [s EXCEPT ![k] = b] \in Seq(S \cup {b}) /\ Len([s EXCEPT ![k] = b]) = Len(s)
  BY <1>2, ExceptSeq
<1>. QED  BY <1>1, <1>2, <1>3

\* The size of a row is a number.
LEMMA RowSize ==
  ASSUME NEW results \in RowValues, ~ComputeSizeThrows(RowTypes, results)
  PROVE  ComputeSize(RowTypes, results) \in Nat
<1>1. IsRow(RowTypes, results)
  BY BufferAssumption
<1>2. Len(RowTypes) + 1 \in 1..(Len(RowTypes) + 1)
  BY <1>1 DEF IsRow
<1>. QED  BY <1>1, <1>2, Places

\* The bookkeeping of doAlloc: the new row lies in one block, behind all rows
\* that are in it, and its block is there or the next one to be taken.
LEMMA AllocPlace ==
  ASSUME BufferInv, phase = "begun", NEW size \in Nat, DoAlloc(size)
  PROVE  /\ m_iUsed' \in Nat
         /\ m_iBlockUsed' \in size..BlockSize
         /\ m_iCurrentBlock' \in m_iCurrentBlock..Len(m_bufferBlocks)
         /\ m_iCurrentBlock' = m_iCurrentBlock => m_iBlockUsed' = m_iBlockUsed + size
         /\ m_iCurrentBlock' = CurrentBlock(size)
         /\ m_iBlockUsed' = BlockUsed(size)
         /\ Len(m_bufferBlocks) \in Nat
<1>1. Len(m_bufferBlocks) \in Nat
  BY AppendBlock DEF BufferInv, BlocksAreSequence
<1>2. /\ m_iBlockUsed \in 0..BlockSize /\ m_iCurrentBlock \in 0..Len(m_bufferBlocks) /\ m_iUsed \in Nat
      /\ \/ m_iCurrentBlock < Len(m_bufferBlocks)
         \/ m_iCurrentBlock = 0 /\ m_iBlockUsed = 0
  BY DEF BufferInv, TypeOK, CurrentBlockThere
<1>3. BlockSize \in Nat
  BY BufferAssumption
<1>. QED  BY <1>1, <1>2, <1>3 DEF DoAlloc, BlockUsed, CurrentBlock, NextBlock, TooLarge

\* A row that is copied to the place doAlloc has found keeps the rows apart.
LEMMA CopyKeepsRows ==
  ASSUME BufferInv, NEW results \in RowValues, CopyRow(results)
  PROVE  BufferInv'
<1>. DEFINE size  == ComputeSize(RowTypes, results)
            block == CurrentBlock(size) + 1
            row   == [block |-> block, offset |-> BlockUsed(size) - size, size |-> size, results |-> results]
<1>1. size \in Nat /\ phase = "begun" /\ DoAlloc(size)
  BY RowSize DEF CopyRow
<1>. HIDE DEF size
<1>2. /\ m_iUsed' \in Nat
      /\ m_iBlockUsed' \in size..BlockSize
      /\ m_iCurrentBlock' \in m_iCurrentBlock..Len(m_bufferBlocks)
      /\ m_iCurrentBlock' = m_iCurrentBlock => m_iBlockUsed' = m_iBlockUsed + size
      /\ m_iCurrentBlock' = CurrentBlock(size)
      /\ m_iBlockUsed' = BlockUsed(size)
      /\ Len(m_bufferBlocks) \in Nat
  BY <1>1, AllocPlace
<1>3. BlockSize \in Nat /\ m_iCurrentBlock \in Nat /\ m_iBlockUsed \in Nat
  BY <1>2, BufferAssumption DEF BufferInv, TypeOK
<1>4. /\ BlocksAreSequence'
      /\ Len(m_bufferBlocks') \in Nat
      /\ Len(m_bufferBlocks') >= Len(m_bufferBlocks)
      /\ m_iCurrentBlock' < Len(m_bufferBlocks')
  <2>. DEFINE blocks == IF NeedsBlock(size) THEN Append(m_bufferBlocks, NewBlock) ELSE m_bufferBlocks
              new    == Copy(RowTypes, results, blocks[block], BlockUsed(size) - size)
  <2>1. m_bufferBlocks' = [blocks EXCEPT ![block] = new]
    BY DEF CopyRow, size
  <2>2. /\ \E S : blocks \in Seq(S)
        /\ Len(blocks) \in Nat
        /\ Len(blocks) >= Len(m_bufferBlocks)
        /\ CurrentBlock(size) < Len(blocks)
    <3>1. \E S : m_bufferBlocks \in Seq(S)
      BY DEF BufferInv, BlocksAreSequence
    <3>2. /\ \E S : Append(m_bufferBlocks, NewBlock) \in Seq(S)
          /\ Len(Append(m_bufferBlocks, NewBlock)) = Len(m_bufferBlocks) + 1
      BY <3>1, AppendBlock, Zenon
    <3>3. CurrentBlock(size) \in m_iCurrentBlock..Len(m_bufferBlocks)
      BY <1>2, Zenon
    <3>4. CASE NeedsBlock(size)
      <4>1. blocks = Append(m_bufferBlocks, NewBlock) /\ CurrentBlock(size) = Len(m_bufferBlocks)
        BY <3>4, Zenon DEF NeedsBlock
      <4>. HIDE DEF blocks
      <4>2. Len(blocks) = Len(m_bufferBlocks) + 1
        BY <4>1, <3>2, Zenon
      <4>. QED  BY <1>2, <3>2, <4>1, <4>2
    <3>5. CASE ~NeedsBlock(size)
      <4>1. blocks = m_bufferBlocks /\ CurrentBlock(size) # Len(m_bufferBlocks)
        BY <3>5, Zenon DEF NeedsBlock
      <4>. HIDE DEF blocks
      <4>2. Len(m_bufferBlocks) \in Nat /\ m_iCurrentBlock \in Nat
        BY <1>2, <1>3
      <4>. QED  BY <3>1, <3>3, <4>1, <4>2
    <3>. QED  BY <3>4, <3>5
  <2>3. block \in 1..Len(blocks)
    BY <1>2, <1>3, <2>2
  <2>. HIDE DEF blocks, new, block
  <2>4. /\ \E S : m_bufferBlocks' \in Seq(S)
        /\ Len(m_bufferBlocks') = Len(blocks)
    BY <2>1, <2>2, <2>3, ChangeBlock
  <2>. QED  BY <1>2, <2>2, <2>4 DEF BlocksAreSequence
<1>5. /\ m_rows' = Append(m_rows, row)
      /\ kept' = kept /\ m_types' = m_types /\ phase' = phase
  BY <1>1 DEF CopyRow, size
<1>6. /\ row \in RowType
      /\ row.block = m_iCurrentBlock' + 1
      /\ row.offset = m_iBlockUsed' - size
      /\ row.size = size
  BY <1>1, <1>2, <1>3 DEF RowType
<1>. HIDE DEF row, block
<1>7. /\ m_rows' \in Seq(RowType)
      /\ DOMAIN m_rows' = 1..(Len(m_rows) + 1)
      /\ DOMAIN m_rows = 1..Len(m_rows) /\ Len(m_rows) \in Nat
      /\ \A i \in DOMAIN m_rows : /\ m_rows'[i] = m_rows[i]
                                 /\ m_rows[i] \in RowType
      /\ m_rows'[Len(m_rows) + 1] = row
      /\ Len(m_rows') = Len(m_rows) + 1
  <2>1. m_rows \in Seq(RowType) /\ row \in RowType
    BY <1>6 DEF BufferInv, TypeOK
  <2>. QED  BY <2>1, <1>5, AppendProperties
<1>7a. /\ kept \in 0..Len(m_rows) /\ kept' = kept
       /\ Copied' = Copied \cup {Len(m_rows) + 1}
       /\ Copied \subseteq DOMAIN m_rows
  <2>1. kept \in 0..Len(m_rows) /\ kept' = kept
    BY <1>5 DEF BufferInv, TypeOK
  <2>. QED  BY <2>1, <1>7 DEF Copied
<1>8. TypeOK'
  <2>1. /\ kept' \in 0..Len(m_rows') /\ m_types' \in Nat
        /\ phase' \in {"idle", "begun", "failed", "aborted"}
    <3>1. m_types \in Nat /\ phase \in {"idle", "begun", "failed", "aborted"}
      BY DEF BufferInv, TypeOK
    <3>. QED  BY <3>1, <1>5, <1>7, <1>7a
  <2>2. /\ m_iBlockUsed' \in 0..BlockSize
        /\ m_iCurrentBlock' \in 0..Len(m_bufferBlocks')
    BY <1>1, <1>2, <1>3, <1>4
  <2>. QED  BY <2>1, <2>2, <1>2, <1>7 DEF TypeOK
<1>9. CurrentBlockThere'
  BY <1>4 DEF CurrentBlockThere
<1>10. RowsBehindUs'
  <2>. SUFFICES ASSUME NEW i \in Copied'
                PROVE  /\ m_rows'[i].block <= m_iCurrentBlock' + 1
                       /\ m_rows'[i].block = m_iCurrentBlock' + 1 =>
                            m_rows'[i].offset + m_rows'[i].size <= m_iBlockUsed'
                       /\ m_rows'[i].offset + m_rows'[i].size <= BlockSize
                       /\ m_rows'[i].block \in 1..Len(m_bufferBlocks')
    BY DEF RowsBehindUs
  <2>1. CASE i \in Copied
    <3>1. m_rows'[i] = m_rows[i] /\ m_rows[i].block \in Nat /\ m_rows[i].offset \in Nat /\ m_rows[i].size \in Nat
      BY <2>1, <1>7, <1>7a, RowFields
    <3>2. /\ m_rows[i].block <= m_iCurrentBlock + 1
          /\ m_rows[i].block = m_iCurrentBlock + 1 => m_rows[i].offset + m_rows[i].size <= m_iBlockUsed
          /\ m_rows[i].offset + m_rows[i].size <= BlockSize
          /\ m_rows[i].block \in 1..Len(m_bufferBlocks)
      BY <2>1 DEF BufferInv, RowsBehindUs
    <3>. HIDE DEF BufferInv
    <3>3. m_rows[i].block = m_iCurrentBlock' + 1 => m_rows[i].offset + m_rows[i].size <= m_iBlockUsed'
      BY <3>1, <3>2, <1>1, <1>2, <1>3
    <3>4. m_rows[i].block <= m_iCurrentBlock' + 1 /\ m_rows[i].block \in 1..Len(m_bufferBlocks')
      <4>1. /\ m_iCurrentBlock \in Nat /\ Len(m_bufferBlocks) \in Nat /\ Len(m_bufferBlocks') \in Nat
            /\ m_iCurrentBlock' \in Nat /\ m_iCurrentBlock' >= m_iCurrentBlock
            /\ Len(m_bufferBlocks') >= Len(m_bufferBlocks)
        BY <1>2, <1>3, <1>4
      <4>. QED  BY <3>1, <3>2, <4>1
    <3>. QED  BY <3>1, <3>2, <3>3, <3>4
  <2>2. CASE i = Len(m_rows) + 1
    BY <2>2, <1>1, <1>2, <1>3, <1>4, <1>6, <1>7
  <2>. QED  BY <2>1, <2>2, <1>7a
<1>11. RowsFollow'
  <2>. SUFFICES ASSUME NEW i \in Copied', NEW j \in Copied', i < j,
                       m_rows'[i].block = m_rows'[j].block
                PROVE  m_rows'[i].offset + m_rows'[i].size <= m_rows'[j].offset
    BY DEF RowsFollow
  <2>1. i \in Copied
    <3>1. /\ \A k \in Copied : k \in 1..Len(m_rows)
          /\ Len(m_rows) \in Nat
      BY <1>7, <1>7a
    <3>. QED  BY <3>1, <1>7a
  <2>2. CASE j \in Copied
    <3>1. m_rows'[i] = m_rows[i] /\ m_rows'[j] = m_rows[j]
      BY <2>1, <2>2, <1>7, <1>7a
    <3>2. RowsFollow
      BY DEF BufferInv
    <3>. QED  BY <2>1, <2>2, <3>1, <3>2 DEF RowsFollow
  <2>3. CASE j = Len(m_rows) + 1
    <3>1. m_rows'[i] = m_rows[i] /\ m_rows[i].block \in Nat /\ m_rows[i].offset \in Nat /\ m_rows[i].size \in Nat
      BY <2>1, <1>7, <1>7a, RowFields
    <3>2. m_rows'[j] = row
      BY <2>3, <1>7
    <3>3. /\ m_rows[i].block <= m_iCurrentBlock + 1
          /\ m_rows[i].block = m_iCurrentBlock + 1 => m_rows[i].offset + m_rows[i].size <= m_iBlockUsed
      BY <2>1 DEF BufferInv, RowsBehindUs
    <3>4. m_rows[i].block = m_iCurrentBlock' + 1
      BY <3>1, <3>2, <1>6
    <3>5. m_iCurrentBlock' = m_iCurrentBlock
      BY <3>1, <3>3, <3>4, <1>2, <1>3
    <3>6. row.offset = m_iBlockUsed
      BY <3>5, <1>1, <1>2, <1>3, <1>6
    <3>. QED  BY <3>1, <3>2, <3>3, <3>4, <3>5, <3>6
  <2>. QED  BY <2>2, <2>3, <1>7a
<1>. QED  BY <1>4, <1>8, <1>9, <1>10, <1>11 DEF BufferInv

\* So does a failure, before or after the bookkeeping of doAlloc.
LEMMA FailureKeepsRows ==
  ASSUME BufferInv, NEW results \in RowValues,
         AllocFails(results) \/ NoBlock(results) \/ CopyFails(results)
  PROVE  BufferInv'
<1>. DEFINE size == ComputeSize(RowTypes, results)
<1>1. /\ size \in Nat /\ phase = "begun" /\ phase' = "failed" /\ m_rows' = m_rows
      /\ kept' = kept /\ m_types' = m_types
  BY RowSize DEF AllocFails, NoBlock, CopyFails
<1>2. /\ m_iCurrentBlock \in Nat /\ m_iBlockUsed \in 0..BlockSize /\ BlockSize \in Nat /\ m_iUsed \in Nat
      /\ m_rows \in Seq(RowType)
      /\ Len(m_bufferBlocks) \in Nat
      /\ kept \in 0..Len(m_rows) /\ m_types \in Nat
  BY BufferAssumption, AppendBlock DEF BufferInv, TypeOK, BlocksAreSequence
<1>3. /\ BlocksAreSequence'
      /\ Len(m_bufferBlocks') \in Nat /\ Len(m_bufferBlocks') >= Len(m_bufferBlocks)
  <2>1. m_bufferBlocks' = m_bufferBlocks \/ m_bufferBlocks' = Append(m_bufferBlocks, NewBlock)
    BY DEF AllocFails, NoBlock, CopyFails
  <2>2. BlocksAreSequence
    BY DEF BufferInv
  <2>3. CASE m_bufferBlocks' = m_bufferBlocks
    BY <2>2, <2>3, <1>2 DEF BlocksAreSequence
  <2>4. CASE m_bufferBlocks' = Append(m_bufferBlocks, NewBlock)
    <3>1. /\ \E S : Append(m_bufferBlocks, NewBlock) \in Seq(S)
          /\ Len(Append(m_bufferBlocks, NewBlock)) = Len(m_bufferBlocks) + 1
      BY <2>2, AppendBlock, Zenon DEF BlocksAreSequence
    <3>2. /\ \E S : m_bufferBlocks' \in Seq(S)
          /\ Len(m_bufferBlocks') = Len(m_bufferBlocks) + 1
      BY <2>4, <3>1, Zenon
    <3>. QED  BY <1>2, <3>2 DEF BlocksAreSequence
  <2>. QED  BY <2>1, <2>3, <2>4
<1>. HIDE DEF size
<1>4. CASE AllocFails(results)
  <2>1. m_iUsed' \in Nat /\ UNCHANGED <<m_bufferBlocks, m_iBlockUsed, m_iCurrentBlock, m_rows>>
    BY <1>1, <1>2, <1>4 DEF AllocFails, size
  <2>. QED  BY <2>1, <1>1, <1>2, <1>3 DEF BufferInv, TypeOK, CurrentBlockThere, RowsBehindUs, RowsFollow, Copied
<1>5. CASE NoBlock(results) \/ CopyFails(results)
  <2>1. DoAlloc(size)
    BY <1>5 DEF NoBlock, CopyFails, size
  <2>2. /\ m_iUsed' \in Nat
        /\ m_iBlockUsed' \in 0..BlockSize
        /\ m_iCurrentBlock' \in m_iCurrentBlock..Len(m_bufferBlocks)
        /\ m_iCurrentBlock' = m_iCurrentBlock => m_iBlockUsed' >= m_iBlockUsed
    BY <2>1, <1>1, <1>2, AllocPlace
  <2>3. TypeOK'
    BY <2>2, <1>1, <1>2, <1>3 DEF TypeOK
  <2>4. RowsBehindUs'
    <3>. SUFFICES ASSUME NEW i \in Copied
                  PROVE  /\ m_rows[i].block <= m_iCurrentBlock' + 1
                         /\ m_rows[i].block = m_iCurrentBlock' + 1 =>
                              m_rows[i].offset + m_rows[i].size <= m_iBlockUsed'
                         /\ m_rows[i].offset + m_rows[i].size <= BlockSize
                         /\ m_rows[i].block \in 1..Len(m_bufferBlocks')
      BY <1>1 DEF RowsBehindUs, Copied
    <3>. DEFINE r == m_rows[i]
    <3>1. r \in RowType
      BY <1>2 DEF Copied
    <3>2. r.block \in Nat /\ r.offset \in Nat /\ r.size \in Nat
      BY <3>1, RowFields
    <3>3. /\ r.block <= m_iCurrentBlock + 1
          /\ r.block = m_iCurrentBlock + 1 => r.offset + r.size <= m_iBlockUsed
          /\ r.offset + r.size <= BlockSize
          /\ r.block \in 1..Len(m_bufferBlocks)
      BY DEF BufferInv, RowsBehindUs
    <3>. HIDE DEF r
    <3>. HIDE DEF BufferInv
    <3>4. m_iCurrentBlock \in Nat /\ m_iCurrentBlock' \in Nat /\ m_iCurrentBlock' >= m_iCurrentBlock
      BY <2>2, <1>2
    <3>5. r.block <= m_iCurrentBlock' + 1
      BY <3>2, <3>3, <3>4
    <3>6. r.block \in 1..Len(m_bufferBlocks')
      BY <3>2, <3>3, <1>2, <1>3
    <3>7. r.block = m_iCurrentBlock' + 1 => r.offset + r.size <= m_iBlockUsed'
      <4>1. CASE m_iCurrentBlock' = m_iCurrentBlock
        <5>1. m_iBlockUsed' >= m_iBlockUsed /\ m_iBlockUsed' \in Nat /\ m_iBlockUsed \in Nat
          BY <4>1, <2>2, <1>2
        <5>. QED  BY <4>1, <5>1, <3>2, <3>3
      <4>2. CASE m_iCurrentBlock' # m_iCurrentBlock
        <5>1. r.block # m_iCurrentBlock' + 1
          BY <4>2, <3>2, <3>3, <3>4
        <5>. QED  BY <5>1
      <4>. QED  BY <4>1, <4>2
    <3>. QED  BY <3>3, <3>5, <3>6, <3>7 DEF r
  <2>. QED  BY <2>3, <2>4, <1>1, <1>3 DEF BufferInv, CurrentBlockThere, RowsFollow, Copied
<1>. QED  BY <1>4, <1>5

\* A new buffer has no row.
LEMMA NewBufferKeeps ==
  ASSUME NewBuffer, m_rows' \in Seq(RowType), kept' = Len(m_rows'), m_types' \in Nat,
         phase' \in {"idle", "begun", "failed", "aborted"}
  PROVE  BufferInv'
<1>1. <<>> \in Seq({}) /\ Len(<<>>) = 0
  OBVIOUS
<1>2. BlocksAreSequence'
  <2>1. m_bufferBlocks' \in Seq({})
    BY <1>1 DEF NewBuffer
  <2>. QED  BY <2>1 DEF BlocksAreSequence
<1>3. Copied' = {}
  <2>1. DOMAIN m_rows' = 1..Len(m_rows') /\ Len(m_rows') \in Nat
    OBVIOUS
  <2>. QED  BY <2>1 DEF Copied
<1>4. TypeOK'
  BY <1>1, BufferAssumption DEF NewBuffer, TypeOK
<1>. QED  BY <1>1, <1>2, <1>3, <1>4 DEF NewBuffer, BufferInv, CurrentBlockThere, RowsBehindUs, RowsFollow

\* What SortPlan does beside copying rows
LEMMA SortKeepsBuffer ==
  ASSUME BufferInv, Begin \/ AssertionFails \/ Fails \/ End \/ Destroyed
  PROVE  BufferInv'
<1>1. m_rows \in Seq(RowType) /\ m_types \in Nat /\ <<>> \in Seq(RowType) /\ Len(<<>>) = 0
  BY DEF BufferInv, TypeOK
<1>2. CASE Begin
  BY <1>1, <1>2, NewBufferKeeps DEF Begin
<1>3. CASE End \/ Destroyed
  <2>1. NewBuffer /\ m_rows' = <<>> /\ kept' = 0 /\ phase' = "idle"
    BY <1>3 DEF End, Destroyed
  <2>2. m_types' \in Nat
    BY <1>1, <1>3 DEF End, Destroyed
  <2>3. m_rows' \in Seq(RowType) /\ kept' = Len(m_rows')
    BY <1>1, <2>1
  <2>. QED  BY <2>1, <2>2, <2>3, NewBufferKeeps
<1>4. CASE AssertionFails \/ Fails
  <2>1. /\ UNCHANGED <<m_bufferBlocks, m_iUsed, m_iBlockUsed, m_iCurrentBlock, m_rows, kept, m_types>>
        /\ phase = "begun" /\ phase' \in {"failed", "aborted"}
    BY <1>4 DEF AssertionFails, Fails, buffer
  <2>. QED  BY <2>1 DEF BufferInv, TypeOK, BlocksAreSequence, CurrentBlockThere, RowsBehindUs, RowsFollow, Copied
<1>. QED  BY <1>2, <1>3, <1>4

\* BufferInv holds in every state.
THEOREM BufferInvariant == Spec => []BufferInv
<1>1. Init => BufferInv
  <2>. SUFFICES ASSUME Init PROVE BufferInv
    OBVIOUS
  <2>1. /\ <<>> \in Seq({}) /\ Len(<<>>) = 0 /\ DOMAIN <<>> = {}
        /\ <<>> \in Seq(RowType)
    OBVIOUS
  <2>2. BlocksAreSequence
    <3>1. m_bufferBlocks \in Seq({})
      BY <2>1 DEF Init
    <3>. QED  BY <3>1 DEF BlocksAreSequence
  <2>3. TypeOK
    BY <2>1, BufferAssumption DEF Init, TypeOK
  <2>4. Copied = {}
    BY <2>1 DEF Init, Copied
  <2>. QED  BY <2>1, <2>2, <2>3, <2>4 DEF Init, BufferInv, CurrentBlockThere, RowsBehindUs, RowsFollow
<1>2. BufferInv /\ [Next]_vars => BufferInv'
  <2>. SUFFICES ASSUME BufferInv, [Next]_vars PROVE BufferInv'
    OBVIOUS
  <2>1. CASE \E results \in RowValues : CopyRow(results)
    BY <2>1, CopyKeepsRows
  <2>2. CASE \E results \in RowValues : AllocFails(results) \/ NoBlock(results) \/ CopyFails(results)
    BY <2>2, FailureKeepsRows
  <2>3. CASE Begin \/ AssertionFails \/ Fails \/ End \/ Destroyed
    BY <2>3, SortKeepsBuffer
  <2>4. CASE UNCHANGED vars
    BY <2>4 DEF vars, buffer, BufferInv, TypeOK, BlocksAreSequence, CurrentBlockThere, RowsBehindUs, RowsFollow, Copied
  <2>. QED  BY <2>1, <2>2, <2>3, <2>4 DEF Next
<1>. QED  BY <1>1, <1>2, PTL DEF Spec

\* No byte of the buffer of a sort belongs to two of the rows that were copied to
\* it, and each lies in one block of it, for any sizes of rows, blocks and buffer,
\* also in a buffer made by another execution after any failures
\* (ExecutionBuffer::doAlloc).  The rows that SortPlan::begin has kept from the
\* execution before are not in the buffer.
THEOREM RowsDisjointTheorem == Spec => []RowsDisjoint
<1>1. BufferInv => RowsDisjoint
  <2>. SUFFICES ASSUME BufferInv, NEW i \in Copied
                PROVE  /\ m_rows[i].block \in DOMAIN m_bufferBlocks
                       /\ m_rows[i].offset >= 0 /\ m_rows[i].offset + m_rows[i].size <= BlockSize
                       /\ \A j \in Copied : i < j /\ m_rows[i].block = m_rows[j].block =>
                            m_rows[i].offset + m_rows[i].size <= m_rows[j].offset
    BY DEF RowsDisjoint
  <2>1. DOMAIN m_bufferBlocks = 1..Len(m_bufferBlocks)
    <3>1. PICK S : m_bufferBlocks \in Seq(S)
      BY DEF BufferInv, BlocksAreSequence
    <3>. QED  BY <3>1
  <2>2. m_rows[i].block \in Nat /\ m_rows[i].offset \in Nat /\ m_rows[i].size \in Nat
    BY RowFields DEF BufferInv, TypeOK, Copied
  <2>. QED  BY <2>1, <2>2 DEF BufferInv, RowsBehindUs, RowsFollow
<1>. QED  BY <1>1, BufferInvariant, PTL

\* The indices that ExecutionBuffer.cpp asserts are never passed: the current block
\* is one of those that were taken, or the next one, and no more is used of it than
\* it has.
THEOREM TypeTheorem == Spec => []TypeOK
<1>1. BufferInv => TypeOK
  BY DEF BufferInv
<1>. QED  BY <1>1, BufferInvariant, PTL

-----------------------------------------------------------------------------
(* The bytes of the rows                                                    *)

\* The blocks are memory, and each row is in its block.
RowsStored ==
  /\ m_bufferBlocks \in Seq(Memory(BlockSize))
  /\ \A i \in Copied :
       /\ m_rows[i].size = ComputeSize(RowTypes, m_rows[i].results)
       /\ InMemory(RowTypes, m_rows[i].results, BlockSize, m_bufferBlocks[m_rows[i].block], m_rows[i].offset)

\* A row stays in a memory that changes only behind it.
LEMMA StaysInMemory ==
  ASSUME NEW types, NEW results, NEW size, NEW memory, NEW start,
         InMemory(types, results, size, memory, start), NEW other \in Memory(size),
         \A x \in 1..size : x <= start + ComputeSize(types, results) => other[x] = memory[x]
  PROVE  InMemory(types, results, size, other, start)
<1>1. /\ IsRow(types, results) /\ ~ComputeSizeThrows(types, results)
      /\ size \in Nat /\ start \in Nat /\ start + ComputeSize(types, results) <= size
      /\ Stored(types, results, memory, start)
  BY DEF InMemory
<1>2. ASSUME NEW i \in 1..Len(types), NEW k \in 1..ResultSize(types[i], results[i])
      PROVE  other[start + Place(types, results, i) + k] = Written(types[i], results[i])[k]
  <2>. DEFINE at  == Place(types, results, i)
              sz  == ResultSize(types[i], results[i])
              all == ComputeSize(types, results)
              x   == start + at + k
  <2>1. /\ Len(types) + 1 \in (i + 1)..(Len(types) + 1) /\ i \in 1..(Len(types) + 1)
        /\ Len(types) + 1 \in 1..(Len(types) + 1)
    BY <1>1 DEF IsRow
  <2>2. at \in Nat /\ sz \in Nat
    BY <1>1, <2>1, Places
  <2>3. all \in Nat /\ all = Place(types, results, Len(types) + 1)
    BY <1>1, <2>1, Places
  <2>4. at + sz <= all
    BY <1>1, <2>1, <2>3, PlacesGrow
  <2>5. memory[x] = Written(types[i], results[i])[k]
    BY <1>1 DEF Stored
  <2>6. k \in Nat /\ 1 <= k /\ k <= sz
    BY <2>2
  <2>. HIDE DEF at, sz, all
  <2>7. x \in 1..size /\ x <= start + all
    BY <1>1, <2>2, <2>3, <2>4, <2>6 DEF all
  <2>. HIDE DEF x
  <2>8. other[x] = memory[x]
    BY <2>7 DEF all
  <2>. QED  BY <2>5, <2>8 DEF x, at
<1>. QED  BY <1>1, <1>2 DEF InMemory, Stored

\* A row is copied to bytes that no row has: the others stay, and it is there.
LEMMA CopyStoresRow ==
  ASSUME BufferInv, RowsStored, NEW results \in RowValues, CopyRow(results)
  PROVE  RowsStored'
<1>. DEFINE size   == ComputeSize(RowTypes, results)
            block  == CurrentBlock(size) + 1
            offset == BlockUsed(size) - size
            row    == [block |-> block, offset |-> offset, size |-> size, results |-> results]
            blocks == IF NeedsBlock(size) THEN Append(m_bufferBlocks, NewBlock) ELSE m_bufferBlocks
            old    == blocks[block]
            new    == Copy(RowTypes, results, old, offset)
<1>1. /\ IsRow(RowTypes, results) /\ ~ComputeSizeThrows(RowTypes, results) /\ ~CopyThrows(RowTypes, results)
      /\ size \in Nat /\ phase = "begun" /\ DoAlloc(size) /\ BlockSize \in Nat
  BY RowSize, BufferAssumption DEF CopyRow
<1>2. /\ m_bufferBlocks' = [blocks EXCEPT ![block] = new]
      /\ m_rows' = Append(m_rows, row)
      /\ kept' = kept
  BY DEF CopyRow
<1>3. BufferInv'
  BY CopyKeepsRows
<1>. HIDE DEF size
<1>4. /\ m_iBlockUsed' \in size..BlockSize
      /\ m_iCurrentBlock' \in m_iCurrentBlock..Len(m_bufferBlocks)
      /\ m_iCurrentBlock' = CurrentBlock(size)
      /\ m_iBlockUsed' = BlockUsed(size)
      /\ Len(m_bufferBlocks) \in Nat
  BY <1>1, AllocPlace
<1>5. offset \in Nat /\ offset + size <= BlockSize /\ block \in Nat /\ CurrentBlock(size) \in 0..Len(m_bufferBlocks)
  <2>1. m_iCurrentBlock \in Nat
    BY <1>4 DEF BufferInv, TypeOK
  <2>. QED  BY <1>1, <1>4, <2>1
<1>6. /\ blocks \in Seq(Memory(BlockSize))
      /\ block \in 1..Len(blocks)
      /\ Len(blocks) \in Nat
      /\ \A k \in 1..Len(m_bufferBlocks) : k \in 1..Len(blocks) /\ blocks[k] = m_bufferBlocks[k]
  <2>1. m_bufferBlocks \in Seq(Memory(BlockSize)) /\ NewBlock \in Memory(BlockSize)
    BY DEF RowsStored, NewBlock, Memory
  <2>2. CASE NeedsBlock(size)
    <3>1. blocks = Append(m_bufferBlocks, NewBlock)
      BY <2>2
    <3>2. /\ Append(m_bufferBlocks, NewBlock) \in Seq(Memory(BlockSize))
          /\ Len(Append(m_bufferBlocks, NewBlock)) = Len(m_bufferBlocks) + 1
          /\ \A k \in 1..Len(m_bufferBlocks) : Append(m_bufferBlocks, NewBlock)[k] = m_bufferBlocks[k]
      BY <2>1, AppendProperties
    <3>3. block = Len(m_bufferBlocks) + 1
      BY <2>2 DEF NeedsBlock
    <3>. HIDE DEF blocks, block
    <3>. QED  BY <1>4, <3>1, <3>2, <3>3
  <2>3. CASE ~NeedsBlock(size)
    <3>1. blocks = m_bufferBlocks
      BY <2>3
    <3>2. CurrentBlock(size) # Len(m_bufferBlocks)
      BY <2>3 DEF NeedsBlock
    <3>3. block \in 1..Len(m_bufferBlocks)
      BY <1>4, <1>5, <3>2
    <3>. HIDE DEF blocks, block
    <3>. QED  BY <1>4, <2>1, <3>1, <3>3
  <2>. QED  BY <2>2, <2>3
<1>. HIDE DEF blocks, block, offset
<1>7. old \in Memory(BlockSize)
  BY <1>6
<1>8. /\ new \in Memory(BlockSize)
      /\ Stored(RowTypes, results, new, offset)
      /\ \A x \in 1..BlockSize : x <= offset \/ x > offset + size => new[x] = old[x]
  <2>. HIDE DEF old
  <2>1. offset + ComputeSize(RowTypes, results) <= BlockSize
    BY <1>5 DEF size
  <2>. QED  BY <1>1, <1>5, <1>7, <2>1, CopyStores DEF size
<1>. HIDE DEF new, old
<1>9. /\ m_bufferBlocks' \in Seq(Memory(BlockSize))
      /\ m_bufferBlocks'[block] = new
      /\ \A k \in 1..Len(m_bufferBlocks) : k # block => m_bufferBlocks'[k] = m_bufferBlocks[k]
  <2>1. /\ m_bufferBlocks' \in Seq(Memory(BlockSize))
        /\ \A k \in 1..Len(blocks) : m_bufferBlocks'[k] = IF k = block THEN new ELSE blocks[k]
    BY <1>2, <1>6, <1>8, ExceptSeq
  <2>. QED  BY <1>6, <2>1
<1>10. /\ DOMAIN m_rows' = 1..(Len(m_rows) + 1)
       /\ DOMAIN m_rows = 1..Len(m_rows) /\ Len(m_rows) \in Nat
       /\ \A i \in DOMAIN m_rows : m_rows'[i] = m_rows[i] /\ m_rows[i] \in RowType
       /\ m_rows'[Len(m_rows) + 1] = row
  <2>1. m_rows \in Seq(RowType) /\ m_rows' \in Seq(RowType)
    BY <1>3 DEF BufferInv, TypeOK
  <2>2. Len(m_rows') = Len(m_rows) + 1
    BY <1>2, <2>1
  <2>3. DOMAIN m_rows' = 1..(Len(m_rows) + 1)
    BY <2>1, <2>2
  <2>. QED  BY <1>2, <2>1, <2>3
<1>10a. /\ Copied' = Copied \cup {Len(m_rows) + 1}
        /\ Copied \subseteq DOMAIN m_rows
  <2>1. kept \in 0..Len(m_rows)
    BY DEF BufferInv, TypeOK
  <2>. QED  BY <2>1, <1>2, <1>10 DEF Copied
<1>11. /\ row.size = ComputeSize(RowTypes, row.results)
       /\ InMemory(RowTypes, row.results, BlockSize, m_bufferBlocks'[row.block], row.offset)
  BY <1>1, <1>5, <1>8, <1>9 DEF InMemory, size
<1>12. row.block = block /\ row.offset = offset
  OBVIOUS
<1>. HIDE DEF row
<1>13. ASSUME NEW i \in Copied
       PROVE  /\ m_rows[i].size = ComputeSize(RowTypes, m_rows[i].results)
              /\ InMemory(RowTypes, m_rows[i].results, BlockSize, m_bufferBlocks'[m_rows[i].block], m_rows[i].offset)
  <2>. DEFINE r == m_rows[i]
  <2>1. /\ r.size = ComputeSize(RowTypes, r.results)
        /\ InMemory(RowTypes, r.results, BlockSize, m_bufferBlocks[r.block], r.offset)
    BY DEF RowsStored
  <2>2. r.block \in 1..Len(m_bufferBlocks)
    BY DEF BufferInv, RowsBehindUs
  <2>3. CASE r.block # block
    BY <1>9, <2>1, <2>2, <2>3
  <2>4. CASE r.block = block
    <3>1. r.offset + r.size <= offset
      <4>1. i \in Copied' /\ Len(m_rows) + 1 \in Copied' /\ i < Len(m_rows) + 1
            /\ m_rows'[i] = r /\ m_rows'[Len(m_rows) + 1] = row
        BY <1>10, <1>10a
      <4>2. RowsFollow'
        BY <1>3 DEF BufferInv
      <4>. QED  BY <1>12, <2>4, <4>1, <4>2 DEF RowsFollow
    <3>2. \A x \in 1..BlockSize : x <= r.offset + ComputeSize(RowTypes, r.results) => new[x] = old[x]
      <4>1. r.offset \in Nat /\ r.size \in Nat
        BY <1>10, <1>10a, RowFields
      <4>. HIDE DEF r
      <4>2. \A x \in 1..BlockSize : x <= r.offset + r.size => x <= offset
        BY <1>5, <3>1, <4>1
      <4>. QED  BY <1>8, <2>1, <4>2
    <3>3. m_bufferBlocks[r.block] = old
      BY <1>6, <2>2, <2>4 DEF old
    <3>. HIDE DEF r
    <3>4. InMemory(RowTypes, r.results, BlockSize, new, r.offset)
      BY <1>8, <2>1, <3>2, <3>3, StaysInMemory
    <3>. QED  BY <1>9, <2>1, <2>4, <3>4 DEF r
  <2>. QED  BY <2>3, <2>4
<1>14. ASSUME NEW i \in Copied'
       PROVE  /\ m_rows'[i].size = ComputeSize(RowTypes, m_rows'[i].results)
              /\ InMemory(RowTypes, m_rows'[i].results, BlockSize, m_bufferBlocks'[m_rows'[i].block], m_rows'[i].offset)
  <2>1. CASE i \in Copied
    BY <1>10, <1>10a, <1>13, <2>1
  <2>2. CASE i = Len(m_rows) + 1
    BY <1>10, <1>11, <2>2
  <2>. QED  BY <1>10a, <2>1, <2>2
<1>. QED  BY <1>9, <1>14 DEF RowsStored

\* A failure appends at most an empty block.
LEMMA FailureKeepsBytes ==
  ASSUME BufferInv, RowsStored, NEW results \in RowValues,
         AllocFails(results) \/ NoBlock(results) \/ CopyFails(results)
  PROVE  RowsStored'
<1>1. /\ m_bufferBlocks \in Seq(Memory(BlockSize)) /\ NewBlock \in Memory(BlockSize)
      /\ m_rows' = m_rows /\ kept' = kept
  BY DEF RowsStored, NewBlock, Memory, AllocFails, NoBlock, CopyFails
<1>2. m_bufferBlocks' = m_bufferBlocks \/ m_bufferBlocks' = Append(m_bufferBlocks, NewBlock)
  BY DEF AllocFails, NoBlock, CopyFails
<1>3. /\ m_bufferBlocks' \in Seq(Memory(BlockSize))
      /\ \A k \in 1..Len(m_bufferBlocks) : m_bufferBlocks'[k] = m_bufferBlocks[k]
  BY <1>1, <1>2, AppendProperties
<1>4. \A i \in Copied : m_rows[i].block \in 1..Len(m_bufferBlocks)
  BY DEF BufferInv, RowsBehindUs
<1>5. \A i \in Copied : m_bufferBlocks'[m_rows[i].block] = m_bufferBlocks[m_rows[i].block]
  BY <1>3, <1>4
<1>6. Copied' = Copied
  BY <1>1 DEF Copied
<1>. QED  BY <1>1, <1>3, <1>5, <1>6 DEF RowsStored

\* RowsStored holds in every state.
THEOREM StoredInvariant == Spec => []RowsStored
<1>1. Init => RowsStored
  <2>. SUFFICES ASSUME Init PROVE RowsStored
    OBVIOUS
  <2>1. m_bufferBlocks = <<>> /\ m_rows = <<>>
    BY DEF Init
  <2>. QED  BY <2>1 DEF RowsStored, Copied
<1>2. BufferInv /\ RowsStored /\ [Next]_vars => RowsStored'
  <2>. SUFFICES ASSUME BufferInv, RowsStored, [Next]_vars PROVE RowsStored'
    OBVIOUS
  <2>1. CASE \E results \in RowValues : CopyRow(results)
    BY <2>1, CopyStoresRow
  <2>2. CASE \E results \in RowValues : AllocFails(results) \/ NoBlock(results) \/ CopyFails(results)
    BY <2>2, FailureKeepsBytes
  <2>3. CASE Begin \/ End \/ Destroyed
    <3>1. m_rows \in Seq(RowType) /\ <<>> \in Seq(RowType) /\ Len(<<>>) = 0
      BY DEF BufferInv, TypeOK
    <3>2. m_rows' \in Seq(RowType) /\ kept' = Len(m_rows') /\ m_bufferBlocks' = <<>>
      BY <2>3, <3>1 DEF Begin, End, Destroyed, NewBuffer
    <3>3. DOMAIN m_rows' = 1..Len(m_rows') /\ Len(m_rows') \in Nat
      BY <3>2
    <3>4. Copied' = {}
      BY <3>2, <3>3 DEF Copied
    <3>. QED  BY <3>2, <3>4 DEF RowsStored
  <2>4. CASE AssertionFails \/ Fails \/ UNCHANGED vars
    BY <2>4 DEF AssertionFails, Fails, vars, buffer, RowsStored, Copied
  <2>. QED  BY <2>1, <2>2, <2>3, <2>4 DEF Next
<1>. QED  BY <1>1, <1>2, BufferInvariant, PTL DEF Spec

\* Every row of the buffer reads back from its block as it was copied, whatever was
\* copied, or failed to be copied, after it: ExecutionBuffer::copyRow against
\* DataRow::getResult, for numbers of any width, headers of any size and any
\* number of columns.  The hypothesis leaves out the sizes that getSize does not
\* find; the rows that SortPlan::begin has kept from a buffer before are not meant.
THEOREM RowsReadBackTheorem ==
  ASSUME \A v \in RowValues : SizesTold(RowTypes, v)
  PROVE  Spec => []RowsReadBack
<1>1. BufferInv /\ RowsStored => RowsReadBack
  <2>. SUFFICES ASSUME BufferInv, RowsStored, NEW i \in Copied
                PROVE  GetResults(RowTypes, m_bufferBlocks[m_rows[i].block], m_rows[i].offset) = m_rows[i].results
    BY DEF RowsReadBack
  <2>1. m_rows[i].results \in RowValues
    <3>1. m_rows[i] \in RowType
      BY DEF BufferInv, TypeOK, Copied
    <3>. QED  BY <3>1 DEF RowType
  <2>2. SizesTold(RowTypes, m_rows[i].results)
    BY <2>1
  <2>3. InMemory(RowTypes, m_rows[i].results, BlockSize, m_bufferBlocks[m_rows[i].block], m_rows[i].offset)
    BY DEF RowsStored
  <2>. QED  BY <2>2, <2>3, RowBack
<1>. QED  BY <1>1, BufferInvariant, StoredInvariant, PTL

-----------------------------------------------------------------------------
(* Columns in the order of the table                                        *)

\* Any set of indexes can be listed in ascending order.
LEMMA AscendingExists ==
  ASSUME NEW n \in Nat
  PROVE  \A S \in SUBSET (1..n) : \E s \in [1..Cardinality(S) -> S] :
           \A j, k \in DOMAIN s : j < k => s[j] < s[k]
<1>. DEFINE Ascending(S) == \E s \in [1..Cardinality(S) -> S] : \A j, k \in DOMAIN s : j < k => s[j] < s[k]
            T == {m \in Nat : \A S \in SUBSET (1..m) : Ascending(S)}
<1>1. 0 \in T
  <2>1. \A S \in SUBSET (1..0) : S = {}
    OBVIOUS
  <2>2. <<>> \in [1..0 -> {}] /\ DOMAIN <<>> = {}
    OBVIOUS
  <2>3. Cardinality({}) = 0
    BY FS_EmptySet
  <2>4. Ascending({})
    BY <2>2, <2>3
  <2>. QED  BY <2>1, <2>4
<1>2. ASSUME NEW m \in Nat, m \in T PROVE m + 1 \in T
  <2>. SUFFICES ASSUME NEW S \in SUBSET (1..(m + 1)) PROVE Ascending(S)
    OBVIOUS
  <2>. DEFINE R == S \ {m + 1}
              c == Cardinality(R)
  <2>1. R \in SUBSET (1..m)
    OBVIOUS
  <2>2. PICK r \in [1..c -> R] : \A j, k \in DOMAIN r : j < k => r[j] < r[k]
    BY <1>2, <2>1
  <2>3. IsFiniteSet(R) /\ c \in Nat
    <3>1. IsFiniteSet(1..m)
      BY FS_Interval
    <3>2. IsFiniteSet(R)
      BY <2>1, <3>1, FS_Subset
    <3>. QED  BY <3>2, FS_CardinalityType
  <2>4. CASE m + 1 \notin S
    <3>1. R = S
      BY <2>4
    <3>. QED  BY <2>2, <3>1
  <2>5. CASE m + 1 \in S
    <3>. DEFINE s == [k \in 1..(c + 1) |-> IF k = c + 1 THEN m + 1 ELSE r[k]]
    <3>1. Cardinality(S) = c + 1
      <4>1. S = R \cup {m + 1} /\ m + 1 \notin R
        BY <2>5
      <4>. HIDE DEF R
      <4>2. Cardinality(R \cup {m + 1}) = Cardinality(R) + 1
        BY <2>3, <4>1, FS_AddElement
      <4>. QED  BY <4>1, <4>2
    <3>. HIDE DEF c
    <3>2. \A k \in 1..c : r[k] \in S /\ r[k] \in Nat /\ r[k] < m + 1
      <4>1. \A k \in 1..c : r[k] \in R
        OBVIOUS
      <4>2. \A x \in R : x \in S /\ x \in Nat /\ x < m + 1
        BY <2>1
      <4>. HIDE DEF R
      <4>. QED  BY <4>1, <4>2
    <3>3. s \in [1..Cardinality(S) -> S]
      BY <2>3, <2>5, <3>1, <3>2
    <3>4. ASSUME NEW j \in 1..(c + 1), NEW k \in 1..(c + 1), j < k PROVE s[j] < s[k]
      <4>1. j \in 1..c /\ s[j] = r[j]
        BY <2>3, <3>4
      <4>2. CASE k = c + 1
        BY <3>2, <4>1, <4>2
      <4>3. CASE k # c + 1
        <5>1. k \in 1..c /\ s[k] = r[k]
          BY <2>3, <4>3
        <5>. QED  BY <2>2, <3>4, <4>1, <5>1
      <4>. QED  BY <4>2, <4>3
    <3>. HIDE DEF s
    <3>. QED  BY <3>1, <3>3, <3>4
  <2>. QED  BY <2>4, <2>5
<1>. HIDE DEF T
<1>3. n \in T
  BY <1>1, <1>2, Induction
<1>. QED  BY <1>3 DEF T

\* InTableOrder lists each of the columns once.
LEMMA InOrder ==
  ASSUME NEW n \in Nat, NEW S \in SUBSET (1..n)
  PROVE  /\ InTableOrder(S) \in Seq(S)
         /\ \A j, k \in DOMAIN InTableOrder(S) : InTableOrder(S)[j] = InTableOrder(S)[k] => j = k
         /\ \A i \in S : \E k \in DOMAIN InTableOrder(S) : InTableOrder(S)[k] = i
<1>. DEFINE s == InTableOrder(S)
            c == Cardinality(S)
<1>1. s \in [1..c -> S] /\ \A j, k \in DOMAIN s : j < k => s[j] < s[k]
  <2>1. \E x \in [1..c -> S] : \A j, k \in DOMAIN x : j < k => x[j] < x[k]
    BY AscendingExists
  <2>. QED  BY <2>1 DEF InTableOrder
<1>2. IsFiniteSet(S) /\ c \in Nat
  <2>1. IsFiniteSet(1..n)
    BY FS_Interval
  <2>2. IsFiniteSet(S)
    BY <2>1, FS_Subset
  <2>. QED  BY <2>2, FS_CardinalityType
<1>. HIDE DEF s, c
<1>3. s \in Seq(S)
  BY <1>1, <1>2
<1>4. ASSUME NEW j \in DOMAIN s, NEW k \in DOMAIN s, s[j] = s[k] PROVE j = k
  <2>1. j \in Nat /\ k \in Nat /\ s[j] \in Nat /\ s[k] \in Nat
    <3>1. j \in 1..c /\ k \in 1..c /\ s[j] \in S /\ s[k] \in S
      BY <1>1
    <3>2. \A x \in S : x \in Nat
      OBVIOUS
    <3>3. \A x \in 1..c : x \in Nat
      BY <1>2
    <3>. QED  BY <3>1, <3>2, <3>3
  <2>2. (j < k => s[j] < s[k]) /\ (k < j => s[k] < s[j])
    BY <1>1
  <2>. QED  BY <1>4, <2>1, <2>2
<1>5. \A i \in S : \E k \in DOMAIN s : s[k] = i
  <2>1. s \in Injection(1..c, S)
    BY <1>1, <1>4 DEF Injection, IsInjective
  <2>2. Cardinality(1..c) = c
    BY <1>2, FS_Interval
  <2>3. s \in Surjection(1..c, S)
    BY <1>2, <2>1, <2>2, FS_Injection DEF c
  <2>. QED  BY <1>1, <2>3 DEF Surjection
<1>. QED  BY <1>3, <1>4, <1>5 DEF s

-----------------------------------------------------------------------------
(* The order of the keys                                                    *)

\* Less for the characters of two strings
Before(x, y) ==
  \E n \in 0..Len(x) :
    /\ n < Len(y)
    /\ SubSeq(x, 1, n) = SubSeq(y, 1, n)
    /\ n < Len(x) => x[n + 1] < y[n + 1]

\* Two strings begin alike if they have the same characters.
LEMMA SamePrefix ==
  ASSUME NEW x \in Seq({0, 1}), NEW y \in Seq({0, 1}), NEW n \in Nat, n <= Len(x), n <= Len(y)
  PROVE  SubSeq(x, 1, n) = SubSeq(y, 1, n) <=> \A i \in 1..n : x[i] = y[i]
<1>1. /\ SubSeq(x, 1, n) \in Seq({0, 1}) /\ Len(SubSeq(x, 1, n)) = n
      /\ \A i \in 1..n : SubSeq(x, 1, n)[i] = x[i]
  OBVIOUS
<1>2. /\ SubSeq(y, 1, n) \in Seq({0, 1}) /\ Len(SubSeq(y, 1, n)) = n
      /\ \A i \in 1..n : SubSeq(y, 1, n)[i] = y[i]
  OBVIOUS
<1>. DEFINE p == SubSeq(x, 1, n)
            q == SubSeq(y, 1, n)
<1>3. p = [i \in 1..n |-> p[i]] /\ q = [i \in 1..n |-> q[i]]
  BY <1>1, <1>2
<1>4. (\A i \in 1..n : p[i] = q[i]) => p = q
  <2>. HIDE DEF p, q
  <2>. QED  BY <1>3
<1>. QED  BY <1>1, <1>2, <1>4

\* What Before says of the single characters
LEMMA BeforeAt ==
  ASSUME NEW x \in Seq({0, 1}), NEW y \in Seq({0, 1})
  PROVE  Before(x, y) <=> \E n \in Nat : /\ n <= Len(x) /\ n < Len(y)
                                         /\ \A i \in 1..n : x[i] = y[i]
                                         /\ n < Len(x) => x[n + 1] < y[n + 1]
<1>1. \A n \in 0..Len(x) : n \in Nat /\ n <= Len(x) /\ (n < Len(y) => n <= Len(y))
  OBVIOUS
<1>2. \A n \in Nat : n <= Len(x) => n \in 0..Len(x)
  OBVIOUS
<1>3. ASSUME NEW n \in Nat, n <= Len(x), n < Len(y)
      PROVE  SubSeq(x, 1, n) = SubSeq(y, 1, n) <=> \A i \in 1..n : x[i] = y[i]
  BY <1>3, SamePrefix
<1>. QED  BY <1>1, <1>2, <1>3, Zenon DEF Before

\* Strings are ordered: the first character in which they differ decides.
LEMMA StringOrder ==
  ASSUME NEW x \in Seq({0, 1}), NEW y \in Seq({0, 1}), NEW z \in Seq({0, 1})
  PROVE  /\ ~Before(x, x)
         /\ Before(x, y) /\ Before(y, z) => Before(x, z)
         /\ x # y => Before(x, y) \/ Before(y, x)
<1>. DEFINE At(a, b, n) == /\ n <= Len(a) /\ n < Len(b)
                           /\ \A i \in 1..n : a[i] = b[i]
                           /\ n < Len(a) => a[n + 1] < b[n + 1]
<1>1. \A a, b \in {x, y, z} : Before(a, b) <=> \E n \in Nat : At(a, b, n)
  <2>1. ASSUME NEW a \in Seq({0, 1}), NEW b \in Seq({0, 1})
        PROVE  Before(a, b) <=> \E n \in Nat : At(a, b, n)
    BY BeforeAt, Zenon
  <2>. HIDE DEF At
  <2>2. \A a \in {x, y, z} : a \in Seq({0, 1})
    OBVIOUS
  <2>. QED  BY <2>1, <2>2, Zenon
<1>2. \A a \in {x, y, z} : /\ a \in Seq({0, 1}) /\ Len(a) \in Nat
                           /\ \A i \in 1..Len(a) : a[i] \in {0, 1}
  <2>1. ASSUME NEW D, NEW s \in Seq(D) PROVE Len(s) \in Nat /\ \A i \in 1..Len(s) : s[i] \in D
    OBVIOUS
  <2>2. \A a \in {x, y, z} : a \in Seq({0, 1})
    OBVIOUS
  <2>3. \A s \in Seq({0, 1}) : Len(s) \in Nat /\ \A i \in 1..Len(s) : s[i] \in {0, 1}
    BY <2>1, Zenon
  <2>. QED  BY <2>2, <2>3, Zenon
<1>3. ~Before(x, x)
  <2>. SUFFICES ASSUME NEW n \in Nat, At(x, x, n) PROVE FALSE
    BY <1>1
  <2>1. Len(x) \in Nat /\ n < Len(x) /\ x[n + 1] < x[n + 1]
    BY <1>2
  <2>2. n + 1 \in 1..Len(x)
    BY <2>1
  <2>3. x[n + 1] \in {0, 1}
    BY <1>2, <2>2
  <2>4. ~(0 < 0) /\ ~(1 < 1)
    OBVIOUS
  <2>. QED  BY <2>1, <2>3, <2>4, Zenon
<1>4. ASSUME Before(x, y), Before(y, z) PROVE Before(x, z)
  <2>1. PICK m \in Nat : At(x, y, m)
    BY <1>1, <1>4
  <2>2. PICK n \in Nat : At(y, z, n)
    BY <1>1, <1>4
  <2>. DEFINE k == IF m < n THEN m ELSE n
  <2>3. /\ m <= Len(x) /\ m < Len(y) /\ (\A i \in 1..m : x[i] = y[i]) /\ (m < Len(x) => x[m + 1] < y[m + 1])
        /\ n <= Len(y) /\ n < Len(z) /\ (\A i \in 1..n : y[i] = z[i]) /\ (n < Len(y) => y[n + 1] < z[n + 1])
    BY <2>1, <2>2
  <2>4. k \in Nat /\ k <= m /\ k <= n /\ k <= Len(x) /\ k < Len(y) /\ k < Len(z)
    BY <1>2, <2>3
  <2>5. \A i \in 1..k : x[i] = z[i]
    <3>1. \A i \in 1..k : i \in 1..m /\ i \in 1..n
      BY <2>4
    <3>. QED  BY <2>3, <3>1
  <2>6. ASSUME k < Len(x) PROVE x[k + 1] < z[k + 1]
    <3>. DEFINE a == x[k + 1]
                b == y[k + 1]
                c == z[k + 1]
    <3>1. a \in {0, 1} /\ b \in {0, 1} /\ c \in {0, 1}
      <4>1. k + 1 \in 1..Len(x) /\ k + 1 \in 1..Len(y) /\ k + 1 \in 1..Len(z)
        BY <1>2, <2>4, <2>6
      <4>. QED  BY <1>2, <4>1
    <3>2. CASE m < n
      <4>1. k = m /\ m + 1 \in 1..n
        BY <3>2
      <4>2. a < b /\ b = c
        BY <2>3, <2>6, <4>1
      <4>. QED  BY <4>2
    <3>3. CASE m = n
      <4>1. k = m /\ k = n /\ n < Len(y)
        BY <2>3, <3>3
      <4>2. a < b /\ b < c
        BY <2>3, <2>6, <4>1
      <4>. HIDE DEF a, b, c
      <4>3. a < c
        BY <3>1, <4>2
      <4>. QED  BY <4>3 DEF a, c
    <3>4. CASE n < m
      <4>1. k = n /\ n + 1 \in 1..m /\ n < Len(y)
        BY <2>3, <3>4, <1>2
      <4>2. a = b /\ b < c
        BY <2>3, <4>1
      <4>. QED  BY <4>2
    <3>. QED  BY <3>2, <3>3, <3>4
  <2>. HIDE DEF k
  <2>7. At(x, z, k)
    BY <2>4, <2>5, <2>6
  <2>. HIDE DEF At
  <2>. QED  BY <1>1, <2>4, <2>7
<1>5. ASSUME x # y PROVE Before(x, y) \/ Before(y, x)
  <2>. DEFINE D == {n \in Nat : n < Len(x) /\ n < Len(y) /\ x[n + 1] # y[n + 1]}
  <2>1. CASE D = {}
    <3>1. \A i \in Nat : i >= 1 /\ i <= Len(x) /\ i <= Len(y) => x[i] = y[i]
      <4>. SUFFICES ASSUME NEW i \in Nat, i >= 1, i <= Len(x), i <= Len(y) PROVE x[i] = y[i]
        OBVIOUS
      <4>1. i - 1 \in Nat /\ i - 1 < Len(x) /\ i - 1 < Len(y) /\ (i - 1) + 1 = i
        BY <1>2
      <4>2. i - 1 \notin D
        BY <2>1
      <4>. QED  BY <4>1, <4>2
    <3>. HIDE DEF D
    <3>2. Len(x) # Len(y)
      <4>. SUFFICES ASSUME Len(x) = Len(y) PROVE FALSE
        OBVIOUS
      <4>1. \A i \in 1..Len(x) : x[i] = y[i]
        BY <1>2, <3>1
      <4>2. x = [i \in 1..Len(x) |-> x[i]] /\ y = [i \in 1..Len(y) |-> y[i]]
        OBVIOUS
      <4>. QED  BY <1>5, <4>1, <4>2
    <3>3. CASE Len(x) < Len(y)
      <4>1. At(x, y, Len(x)) /\ Len(x) \in Nat
        BY <1>2, <3>1, <3>3
      <4>. HIDE DEF At
      <4>. QED  BY <1>1, <4>1
    <3>4. CASE Len(y) < Len(x)
      <4>1. At(y, x, Len(y)) /\ Len(y) \in Nat
        BY <1>2, <3>1, <3>4
      <4>. HIDE DEF At
      <4>. QED  BY <1>1, <4>1
    <3>. QED  BY <1>2, <3>2, <3>3, <3>4
  <2>2. CASE D # {}
    <3>1. PICK n \in D : \A k \in D : n <= k
      BY <2>2, LeastNatural
    <3>2. n \in Nat /\ n < Len(x) /\ n < Len(y) /\ x[n + 1] # y[n + 1]
      BY <3>1
    <3>3. \A i \in 1..n : x[i] = y[i]
      <4>. SUFFICES ASSUME NEW i \in 1..n, x[i] # y[i] PROVE FALSE
        OBVIOUS
      <4>1. i - 1 \in Nat /\ i - 1 < n /\ i - 1 < Len(x) /\ i - 1 < Len(y) /\ (i - 1) + 1 = i
        BY <1>2, <3>2
      <4>2. i - 1 \in D
        BY <4>1
      <4>. HIDE DEF D
      <4>. QED  BY <3>1, <3>2, <4>1, <4>2
    <3>. HIDE DEF D
    <3>4. x[n + 1] < y[n + 1] \/ y[n + 1] < x[n + 1]
      <4>1. n + 1 \in 1..Len(x) /\ n + 1 \in 1..Len(y)
        BY <1>2, <3>2
      <4>2. x[n + 1] \in {0, 1} /\ y[n + 1] \in {0, 1}
        BY <1>2, <4>1
      <4>. QED  BY <3>2, <4>2
    <3>5. n <= Len(x) /\ n <= Len(y)
      BY <1>2, <3>2
    <3>6. At(x, y, n) \/ At(y, x, n)
      BY <3>2, <3>3, <3>4, <3>5
    <3>. HIDE DEF At
    <3>. QED  BY <1>1, <3>2, <3>6
  <2>. QED  BY <2>1, <2>2
<1>. QED  BY <1>3, <1>4, <1>5

\* A result that a column can hold
Fits(t, r) == IsResult(r) /\ RightKind(t, r)

\* A result that a column of strings can hold
IsString(r) ==
  \/ r.kind = "maxString" /\ r = MaxString
  \/ r.kind = "string" /\ r = StringResult(r.chars) /\ r.chars \in Seq({0, 1})

\* What Less means for the kinds of results there are
LEMMA LessKinds ==
  ASSUME NEW t, NEW a, NEW b, Fits(t, a), Fits(t, b)
  PROVE  /\ t # "string" => /\ a = IntResult(a.value) /\ a.value \in Int
                            /\ b = IntResult(b.value) /\ b.value \in Int
                            /\ Less(a, b) <=> a.value < b.value
         /\ t = "string" =>
              /\ IsString(a) /\ IsString(b)
              /\ a.kind = "string" /\ b.kind = "string" => (Less(a, b) <=> Before(a.chars, b.chars))
              /\ a.kind = "string" /\ b.kind = "maxString" => Less(a, b)
              /\ a.kind = "maxString" => ~Less(a, b)
<1>1. /\ a.kind = "maxString" => a = MaxString
      /\ a.kind = "string" => a = StringResult(a.chars) /\ a.chars \in Seq({0, 1})
      /\ a.kind = "int" => a = IntResult(a.value) /\ a.value \in Int
  BY ResultKinds DEF Fits
<1>2. /\ b.kind = "maxString" => b = MaxString
      /\ b.kind = "string" => b = StringResult(b.chars) /\ b.chars \in Seq({0, 1})
      /\ b.kind = "int" => b = IntResult(b.value) /\ b.value \in Int
  BY ResultKinds DEF Fits
<1>3. CASE t # "string"
  <2>1. a.kind = "int" /\ b.kind = "int"
    BY <1>3 DEF Fits, RightKind
  <2>2. Less(a, b) <=> a.value < b.value
    BY <2>1 DEF Less
  <2>. QED  BY <1>1, <1>2, <1>3, <2>1, <2>2
<1>4. CASE t = "string"
  <2>1. (a.kind = "string" \/ a.kind = "maxString") /\ (b.kind = "string" \/ b.kind = "maxString")
    BY <1>4 DEF Fits, RightKind
  <2>2. a.kind = "string" /\ b.kind = "string" => (Less(a, b) <=> Before(a.chars, b.chars))
    BY DEF Less, Before
  <2>3. ~(a.kind = "string" /\ b.kind = "string") => (Less(a, b) <=> a.kind # "maxString" /\ b.kind = "maxString")
    BY <2>1 DEF Less
  <2>. QED  BY <1>1, <1>2, <1>4, <2>1, <2>2, <2>3 DEF IsString
<1>. QED  BY <1>3, <1>4

\* The results that a column can hold are ordered.
LEMMA ResultOrder ==
  ASSUME NEW t, NEW a, NEW b, NEW c, Fits(t, a), Fits(t, b), Fits(t, c)
  PROVE  /\ ~Less(a, a)
         /\ Less(a, b) /\ Less(b, c) => Less(a, c)
         /\ a # b => Less(a, b) \/ Less(b, a)
<1>1. CASE t # "string"
  <2>1. \A x, y \in {a, b, c} : x = IntResult(x.value) /\ x.value \in Int /\ (Less(x, y) <=> x.value < y.value)
    BY <1>1, LessKinds
  <2>2. a.value \in Int /\ b.value \in Int /\ c.value \in Int /\ (a # b => a.value # b.value)
    BY <2>1
  <2>. QED  BY <2>1, <2>2
<1>2. CASE t = "string"
  <2>. DEFINE Kinds(x, y) ==
         /\ IsString(x)
         /\ x.kind = "string" /\ y.kind = "string" => (Less(x, y) <=> Before(x.chars, y.chars))
         /\ x.kind = "string" /\ y.kind = "maxString" => Less(x, y)
         /\ x.kind = "maxString" => ~Less(x, y)
  <2>1. \A x, y \in {a, b, c} : Kinds(x, y)
    BY <1>2, LessKinds
  <2>2. ~Less(a, a)
    <3>1. CASE a.kind = "maxString"
      BY <2>1, <3>1 DEF IsString
    <3>2. CASE a.kind = "string"
      <4>1. a.chars \in Seq({0, 1}) /\ (Less(a, a) <=> Before(a.chars, a.chars))
        BY <2>1, <3>2 DEF IsString
      <4>. QED  BY <4>1, StringOrder
    <3>. QED  BY <2>1, <3>1, <3>2 DEF IsString
  <2>3. ASSUME Less(a, b), Less(b, c) PROVE Less(a, c)
    <3>1. a.kind = "string" /\ b.kind = "string"
      BY <2>1, <2>3 DEF IsString
    <3>2. CASE c.kind = "maxString"
      BY <2>1, <3>1, <3>2 DEF IsString
    <3>3. CASE c.kind = "string"
      <4>1. /\ a.chars \in Seq({0, 1}) /\ b.chars \in Seq({0, 1}) /\ c.chars \in Seq({0, 1})
            /\ Before(a.chars, b.chars) /\ Before(b.chars, c.chars)
        BY <2>1, <2>3, <3>1, <3>3 DEF IsString
      <4>2. Before(a.chars, c.chars)
        BY <4>1, StringOrder
      <4>. QED  BY <2>1, <3>1, <3>3, <4>2
    <3>. QED  BY <2>1, <3>2, <3>3 DEF IsString
  <2>4. ASSUME a # b PROVE Less(a, b) \/ Less(b, a)
    <3>1. CASE a.kind = "maxString" \/ b.kind = "maxString"
      <4>1. ~(a.kind = "maxString" /\ b.kind = "maxString")
        BY <2>1, <2>4 DEF IsString
      <4>. QED  BY <2>1, <3>1, <4>1 DEF IsString
    <3>2. CASE a.kind = "string" /\ b.kind = "string"
      <4>1. a.chars \in Seq({0, 1}) /\ b.chars \in Seq({0, 1}) /\ a.chars # b.chars
        BY <2>1, <2>4, <3>2 DEF IsString
      <4>2. Before(a.chars, b.chars) \/ Before(b.chars, a.chars)
        BY <4>1, StringOrder
      <4>. QED  BY <2>1, <3>2, <4>2
    <3>. QED  BY <2>1, <3>1, <3>2 DEF IsString
  <2>. QED  BY <2>2, <2>3, <2>4
<1>. QED  BY <1>1, <1>2

\* A row whose columns can hold its results
RowFitsTypes(types, results) ==
  /\ types \in Seq(DOMAIN Width \cup {"string"})
  /\ results = [i \in DOMAIN types |-> results[i]]
  /\ \A i \in DOMAIN types : Fits(types[i], results[i])

\* Rows are ordered: the first column in which they differ decides.
LEMMA RowOrder ==
  ASSUME NEW types, NEW a, NEW b, NEW c,
         RowFitsTypes(types, a), RowFitsTypes(types, b), RowFitsTypes(types, c)
  PROVE  /\ ~RowLess(types, a, a)
         /\ RowLess(types, a, b) /\ RowLess(types, b, c) => RowLess(types, a, c)
         /\ a # b => RowLess(types, a, b) \/ RowLess(types, b, a)
<1>. DEFINE n == Len(types)
<1>1. n \in Nat /\ DOMAIN types = 1..n
  BY DEF RowFitsTypes
<1>2. \A x, y, z \in {a, b, c} : \A i \in 1..n :
        /\ ~Less(x[i], x[i])
        /\ Less(x[i], y[i]) /\ Less(y[i], z[i]) => Less(x[i], z[i])
        /\ x[i] # y[i] => Less(x[i], y[i]) \/ Less(y[i], x[i])
  <2>. SUFFICES ASSUME NEW x \in {a, b, c}, NEW y \in {a, b, c}, NEW z \in {a, b, c}, NEW i \in 1..n
                PROVE  /\ ~Less(x[i], x[i])
                       /\ Less(x[i], y[i]) /\ Less(y[i], z[i]) => Less(x[i], z[i])
                       /\ x[i] # y[i] => Less(x[i], y[i]) \/ Less(y[i], x[i])
    OBVIOUS
  <2>1. Fits(types[i], x[i]) /\ Fits(types[i], y[i]) /\ Fits(types[i], z[i])
    BY <1>1 DEF RowFitsTypes
  <2>. QED  BY <2>1, ResultOrder
<1>3. \A x, y \in {a, b, c} :
        RowLess(types, x, y) <=> \E i \in 1..n : (\A j \in 1..(i - 1) : x[j] = y[j]) /\ Less(x[i], y[i])
  BY <1>1 DEF RowLess
<1>4. a = [i \in 1..n |-> a[i]] /\ b = [i \in 1..n |-> b[i]]
  BY <1>1 DEF RowFitsTypes
<1>. HIDE DEF n
<1>5. ~RowLess(types, a, a)
  BY <1>2, <1>3
<1>6. ASSUME RowLess(types, a, b), RowLess(types, b, c) PROVE RowLess(types, a, c)
  <2>1. PICK i \in 1..n : (\A j \in 1..(i - 1) : a[j] = b[j]) /\ Less(a[i], b[i])
    BY <1>3, <1>6
  <2>2. PICK k \in 1..n : (\A j \in 1..(k - 1) : b[j] = c[j]) /\ Less(b[k], c[k])
    BY <1>3, <1>6
  <2>3. CASE i < k
    <3>1. i \in 1..(k - 1) /\ \A j \in 1..(i - 1) : j \in 1..(k - 1)
      BY <1>1, <2>3
    <3>2. Less(a[i], c[i]) /\ \A j \in 1..(i - 1) : a[j] = c[j]
      BY <2>1, <2>2, <3>1
    <3>. QED  BY <1>3, <3>2
  <2>4. CASE i = k
    <3>1. Less(a[i], c[i])
      BY <1>2, <2>1, <2>2, <2>4
    <3>2. \A j \in 1..(i - 1) : a[j] = c[j]
      BY <2>1, <2>2, <2>4
    <3>. QED  BY <1>3, <3>1, <3>2
  <2>5. CASE k < i
    <3>1. k \in 1..(i - 1) /\ \A j \in 1..(k - 1) : j \in 1..(i - 1)
      BY <1>1, <2>5
    <3>2. Less(a[k], c[k]) /\ \A j \in 1..(k - 1) : a[j] = c[j]
      BY <2>1, <2>2, <3>1
    <3>. QED  BY <1>3, <3>2
  <2>. QED  BY <1>1, <2>3, <2>4, <2>5
<1>7. ASSUME a # b PROVE RowLess(types, a, b) \/ RowLess(types, b, a)
  <2>. DEFINE D == {i \in 1..n : a[i] # b[i]}
  <2>1. D # {}
    BY <1>4, <1>7
  <2>2. D \in SUBSET Nat
    BY <1>1
  <2>3. PICK i \in D : \A j \in D : i <= j
    BY <2>1, <2>2, LeastNatural
  <2>4. i \in 1..n /\ a[i] # b[i]
    BY <2>3
  <2>5. \A j \in 1..(i - 1) : a[j] = b[j]
    <3>1. \A j \in 1..(i - 1) : j \in 1..n /\ ~(i <= j)
      BY <1>1, <2>4
    <3>. QED  BY <2>3, <3>1
  <2>6. Less(a[i], b[i]) \/ Less(b[i], a[i])
    BY <1>2, <2>4
  <2>. QED  BY <1>3, <2>4, <2>5, <2>6
<1>. QED  BY <1>5, <1>6, <1>7

\* Listing a finite ordered set by rank gives each member once, in order.
LEMMA ListedByRank ==
  ASSUME NEW E, IsFiniteSet(E), NEW R,
         \A x \in E : <<x, x>> \notin R,
         \A x, y, z \in E : <<x, y>> \in R /\ <<y, z>> \in R => <<x, z>> \in R,
         \A x, y \in E : x # y => <<x, y>> \in R \/ <<y, x>> \in R,
         NEW s, \A n \in 1..Cardinality(E) : s[n] \in E /\ RankIn(E, R, s[n]) = n - 1
  PROVE  /\ \A e \in E : \E n \in 1..Cardinality(E) : s[n] = e
         /\ \A j, k \in 1..Cardinality(E) : j < k => <<s[j], s[k]>> \in R
<1>. DEFINE c == Cardinality(E)
<1>1. /\ c \in Nat
      /\ \A e \in E : RankIn(E, R, e) \in 0..(c - 1)
      /\ \A d, e \in E : <<d, e>> \in R => RankIn(E, R, d) < RankIn(E, R, e)
      /\ \A n \in 1..c : \E e \in E : RankIn(E, R, e) = n - 1
  BY RanksIn
<1>. HIDE DEF c
<1>2. \A n \in 1..c : s[n] \in E /\ RankIn(E, R, s[n]) = n - 1
  BY DEF c
<1>3. ASSUME NEW j \in 1..c, NEW k \in 1..c, j < k PROVE <<s[j], s[k]>> \in R
  <2>1. s[j] \in E /\ s[k] \in E /\ RankIn(E, R, s[j]) < RankIn(E, R, s[k]) /\ RankIn(E, R, s[j]) \in Int /\ RankIn(E, R, s[k]) \in Int
    BY <1>1, <1>2, <1>3
  <2>2. s[j] # s[k] /\ ~(RankIn(E, R, s[k]) < RankIn(E, R, s[j]))
    BY <2>1
  <2>. QED  BY <1>1, <2>1, <2>2
<1>4. ASSUME NEW e \in E PROVE \E n \in 1..c : s[n] = e
  <2>. DEFINE n == RankIn(E, R, e) + 1
  <2>1. n \in 1..c /\ n - 1 = RankIn(E, R, e) /\ RankIn(E, R, e) \in Int
    BY <1>1
  <2>. HIDE DEF n
  <2>2. s[n] \in E /\ RankIn(E, R, s[n]) = RankIn(E, R, e)
    BY <1>2, <2>1
  <2>3. s[n] = e
    <3>1. s[n] # e => RankIn(E, R, s[n]) < RankIn(E, R, e) \/ RankIn(E, R, e) < RankIn(E, R, s[n])
      BY <1>1, <2>2
    <3>. QED  BY <2>1, <2>2, <3>1
  <2>. QED  BY <2>1, <2>3
<1>. QED  BY <1>3, <1>4 DEF c

-----------------------------------------------------------------------------
(* What is written is read                                                  *)

\* The key of the table names its columns in the order of the table, or at least
\* with the types that they have in that order.
KeyTypesAgree == InsertKeyTypes = ScanKeyTypes

\* The rows that an INSERT does not refuse
Good == {v \in RowValues : ~NextThrows(v)}

\* The columns of their keys and of their values can be told apart.
EntriesTold ==
  \A v \in Good : SizesTold(ScanKeyTypes, KeyResults(v)) /\ SizesTold(TypesOf(ValueColumns), ValueResults(v))

\* Every column is in the key or among the values, once.
LEMMA ColumnsOnce ==
  /\ Len(RowTypes) \in Nat /\ Columns = 1..Len(RowTypes)
  /\ KeyColumns \in Seq(Columns) /\ ValueColumns \in Seq(Columns)
  /\ \A j, k \in DOMAIN KeyColumns : KeyColumns[j] = KeyColumns[k] => j = k
  /\ \A j, k \in DOMAIN ValueColumns : ValueColumns[j] = ValueColumns[k] => j = k
  /\ \A i \in Columns : IsKey(i) => \E k \in DOMAIN KeyColumns : KeyColumns[k] = i
  /\ \A i \in Columns : ~IsKey(i) => \E k \in DOMAIN ValueColumns : ValueColumns[k] = i
<1>1. Len(RowTypes) \in Nat /\ Columns = 1..Len(RowTypes)
  BY TableAssumption DEF Columns
<1>2. /\ KeyColumns \in Seq(Columns)
      /\ \A j, k \in DOMAIN KeyColumns : KeyColumns[j] = KeyColumns[k] => j = k
  BY TableAssumption DEF Columns, IsInjective
<1>3. \A i \in Columns : IsKey(i) => \E k \in DOMAIN KeyColumns : KeyColumns[k] = i
  BY DEF IsKey, Range
<1>. DEFINE S == {i \in Columns : ~IsKey(i)}
<1>4. S \in SUBSET (1..Len(RowTypes))
  BY <1>1
<1>5. ValueColumns = InTableOrder(S)
  BY DEF ValueColumns
<1>. HIDE DEF S
<1>6. /\ ValueColumns \in Seq(S)
      /\ \A j, k \in DOMAIN ValueColumns : ValueColumns[j] = ValueColumns[k] => j = k
      /\ \A i \in S : \E k \in DOMAIN ValueColumns : ValueColumns[k] = i
  BY <1>1, <1>4, <1>5, InOrder
<1>7. \A i \in Columns : ~IsKey(i) => \E k \in DOMAIN ValueColumns : ValueColumns[k] = i
  BY <1>6 DEF S
<1>8. ValueColumns \in Seq(Columns)
  <2>1. S \subseteq Columns
    BY DEF S
  <2>. QED  BY <1>6, <2>1
<1>. QED  BY <1>1, <1>2, <1>3, <1>6, <1>7, <1>8

\* Some columns of a row are a row.
LEMMA PartIsRow ==
  ASSUME NEW columns \in Seq(Columns), NEW row \in RowValues
  PROVE  IsRow(TypesOf(columns), [k \in DOMAIN columns |-> row[columns[k]]])
<1>. DEFINE n       == Len(columns)
            types   == TypesOf(columns)
            results == [k \in DOMAIN columns |-> row[columns[k]]]
<1>1. n \in Nat /\ DOMAIN columns = 1..n /\ \A k \in 1..n : columns[k] \in Columns
  OBVIOUS
<1>2. IsRow(RowTypes, row)
  BY BufferAssumption
<1>3. \A i \in Columns : RowTypes[i] \in DOMAIN Width \cup {"string"} /\ IsResult(row[i])
  BY <1>2 DEF IsRow, Columns
<1>. HIDE DEF n
<1>4. types = [k \in 1..n |-> RowTypes[columns[k]]] /\ results = [k \in 1..n |-> row[columns[k]]]
  BY <1>1 DEF TypesOf
<1>. HIDE DEF types, results
<1>5. types \in Seq(DOMAIN Width \cup {"string"}) /\ DOMAIN types = 1..n
  BY <1>1, <1>3, <1>4
<1>6. \A k \in 1..n : IsResult(results[k])
  BY <1>1, <1>3, <1>4
<1>7. results = [k \in 1..n |-> results[k]]
  BY <1>4
<1>8. IsRow(types, results)
  BY <1>5, <1>6, <1>7 DEF IsRow
<1>. QED  BY <1>8 DEF types, results

\* A row written to memory of its size is read as it was.
LEMMA BytesReadBack ==
  ASSUME NEW types, NEW results, IsRow(types, results), ~RowThrows(types, results), SizesTold(types, results)
  PROVE  GetResults(types, Bytes(types, results), 0) = results
<1>. DEFINE size   == ComputeSize(types, results)
            memory == Copy(types, results, Fresh(size), 0)
<1>1. ~ComputeSizeThrows(types, results) /\ ~CopyThrows(types, results)
  BY DEF RowThrows
<1>2. size \in Nat
  <2>1. Len(types) \in Nat
    BY DEF IsRow
  <2>2. Len(types) + 1 \in 1..(Len(types) + 1)
    BY <2>1
  <2>3. Place(types, results, Len(types) + 1) = size /\ Place(types, results, Len(types) + 1) \in Nat
    BY <1>1, <2>2, Places
  <2>. QED  BY <2>3
<1>3. Fresh(size) \in Memory(size)
  BY DEF Fresh, Memory
<1>. HIDE DEF size
<1>4. 0 \in Nat /\ 0 + size <= size
  BY <1>2
<1>5. memory \in Memory(size) /\ Stored(types, results, memory, 0)
  BY <1>1, <1>2, <1>3, <1>4, CopyStores DEF size
<1>. HIDE DEF memory
<1>6. InMemory(types, results, size, memory, 0)
  BY <1>1, <1>2, <1>4, <1>5 DEF InMemory, size
<1>7. GetResults(types, memory, 0) = results
  BY <1>6, RowBack
<1>. QED  BY <1>7 DEF Bytes, memory, size

\* What is written of a row has no results that its columns cannot hold.
LEMMA WrittenFits ==
  ASSUME NEW types, NEW results, IsRow(types, results), ~RowThrows(types, results)
  PROVE  RowFitsTypes(types, results)
BY DEF IsRow, RowThrows, CopyThrows, WriteThrows, RowFitsTypes, Fits

\* The key of an entry is read as it was written.
LEMMA KeyBack ==
  ASSUME KeyTypesAgree, EntriesTold, NEW row \in Good
  PROVE  /\ GetResults(ScanKeyTypes, Entry(row).key, 0) = KeyResults(row)
         /\ RowFitsTypes(ScanKeyTypes, KeyResults(row))
<1>1. row \in RowValues /\ ~RowThrows(ScanKeyTypes, KeyResults(row))
  BY DEF Good, NextThrows, KeyTypesAgree
<1>2. IsRow(ScanKeyTypes, KeyResults(row))
  BY <1>1, ColumnsOnce, PartIsRow DEF ScanKeyTypes, KeyResults
<1>3. SizesTold(ScanKeyTypes, KeyResults(row))
  BY DEF EntriesTold
<1>4. Entry(row).key = Bytes(ScanKeyTypes, KeyResults(row))
  BY DEF Entry, KeyTypesAgree
<1>. QED  BY <1>1, <1>2, <1>3, <1>4, BytesReadBack, WrittenFits

\* KeyComparator takes two keys for the same if the values are.
LEMMA SameKeys ==
  ASSUME KeyTypesAgree, EntriesTold, NEW a \in Good, NEW b \in Good
  PROVE  SameKey(Entry(a).key, Entry(b).key) <=> KeyResults(a) = KeyResults(b)
BY KeyBack DEF SameKey, SameRow

\* A scan finds the row from which an entry was made.
LEMMA EntryBack ==
  ASSUME KeyTypesAgree, EntriesTold, NEW row \in Good
  PROVE  ScanRow(Entry(row)) = row
<1>. DEFINE at(columns, i) == CHOOSE k \in DOMAIN columns : columns[k] = i
<1>1. GetResults(ScanKeyTypes, Entry(row).key, 0) = KeyResults(row)
  BY KeyBack
<1>2. GetResults(TypesOf(ValueColumns), Entry(row).value, 0) = ValueResults(row)
  <2>1. row \in RowValues /\ ~RowThrows(TypesOf(ValueColumns), ValueResults(row))
    BY DEF Good, NextThrows
  <2>2. IsRow(TypesOf(ValueColumns), ValueResults(row))
    BY <2>1, ColumnsOnce, PartIsRow DEF ValueResults
  <2>3. SizesTold(TypesOf(ValueColumns), ValueResults(row))
    BY DEF EntriesTold
  <2>4. Entry(row).value = Bytes(TypesOf(ValueColumns), ValueResults(row))
    BY DEF Entry
  <2>. QED  BY <2>1, <2>2, <2>3, <2>4, BytesReadBack
<1>3. ASSUME NEW i \in Columns, IsKey(i) PROVE KeyResults(row)[at(KeyColumns, i)] = row[i]
  <2>1. at(KeyColumns, i) \in DOMAIN KeyColumns /\ KeyColumns[at(KeyColumns, i)] = i
    BY <1>3, ColumnsOnce
  <2>. QED  BY <2>1 DEF KeyResults
<1>4. ASSUME NEW i \in Columns, ~IsKey(i) PROVE ValueResults(row)[at(ValueColumns, i)] = row[i]
  <2>1. at(ValueColumns, i) \in DOMAIN ValueColumns /\ ValueColumns[at(ValueColumns, i)] = i
    BY <1>4, ColumnsOnce
  <2>. QED  BY <2>1 DEF ValueResults
<1>5. ScanRow(Entry(row)) = [i \in Columns |-> IF IsKey(i) THEN KeyResults(row)[at(KeyColumns, i)]
                                               ELSE ValueResults(row)[at(ValueColumns, i)]]
  BY <1>1, <1>2 DEF ScanRow
<1>6. row = [i \in Columns |-> row[i]]
  <2>1. row \in RowValues
    BY DEF Good
  <2>2. IsRow(RowTypes, row)
    BY <2>1, BufferAssumption
  <2>. QED  BY <2>2 DEF IsRow, Columns
<1>. QED  BY <1>3, <1>4, <1>5, <1>6

-----------------------------------------------------------------------------
(* A batch                                                                  *)

\* The rows after several rows have been put into the table
Puts(table, seq) == FoldLeft(Put, table, seq)

\* f lists the rows after each of them.
IsPuts(S, table, seq, f) ==
  /\ f \in [0..Len(seq) -> SUBSET S]
  /\ f[0] = table /\ f[Len(seq)] = Puts(table, seq)
  /\ \A m \in 0..(Len(seq) - 1) : f[m + 1] = Put(f[m], seq[m + 1])

\* The entries after a batch has been written
Writes(entries, seq) == FoldLeft(Write, entries, seq)

\* f lists the entries after each of its writes.
IsWrites(S, entries, seq, f) ==
  /\ f \in [0..Len(seq) -> SUBSET S]
  /\ f[0] = entries /\ f[Len(seq)] = Writes(entries, seq)
  /\ \A m \in 0..(Len(seq) - 1) : f[m + 1] = Write(f[m], seq[m + 1])

\* The rows after a batch are computed one after the other.
LEMMA PutFold ==
  ASSUME NEW S, NEW table \in SUBSET S, NEW seq \in Seq(S)
  PROVE  \E f : IsPuts(S, table, seq, f)
<1>. DEFINE n    == Len(seq)
            A    == SUBSET S
            step == [x \in A \X (1..n) |-> Put(x[1], seq[x[2]])]
            fold == CHOOSE iter : iter = [s \in SUBSET (1..n) |->
                                            IF s = {} THEN table ELSE Put(iter[s \ {Max(s)}], seq[Max(s)])]
<1>1. n \in Nat /\ DOMAIN seq = 1..n /\ \A i \in 1..n : seq[i] \in S
  OBVIOUS
<1>. HIDE DEF n
<1>2. \A t \in A, i \in 1..n : Put(t, seq[i]) \in A
  BY <1>1 DEF Put
<1>3. step \in [A \X (1..n) -> A]
  BY <1>2
<1>4. PICK iter : Folds(step, table, iter, SUBSET (1..n)) /\ \A s \in SUBSET (1..n) : iter[s] \in A
  <2>1. table \in A
    OBVIOUS
  <2>. HIDE DEF step, A
  <2>. QED  BY <1>1, <1>3, <2>1, FoldExists
<1>5. \A s \in SUBSET (1..n) : s # {} => Max(s) \in 1..n /\ s \ {Max(s)} \in SUBSET (1..n)
  BY <1>1, LargestIndex
<1>6. iter = [s \in SUBSET (1..n) |-> IF s = {} THEN table ELSE Put(iter[s \ {Max(s)}], seq[Max(s)])]
  <2>1. \A s \in SUBSET (1..n) : s # {} =>
          step[<<iter[s \ {Max(s)}], Max(s)>>] = Put(iter[s \ {Max(s)}], seq[Max(s)])
    <3>. HIDE DEF A
    <3>. QED  BY <1>4, <1>5
  <2>. HIDE DEF step
  <2>. QED  BY <1>4, <2>1 DEF Folds
<1>7. fold = [s \in SUBSET (1..n) |-> IF s = {} THEN table ELSE Put(fold[s \ {Max(s)}], seq[Max(s)])]
  BY <1>6
<1>8. Puts(table, seq) = fold[1..n]
  BY <1>1 DEF Puts, FoldLeft, MapThenFoldSet
<1>. HIDE DEF fold, step, A
<1>. DEFINE f == [m \in 0..n |-> fold[1..m]]
<1>9. f[0] = table
  <2>1. 1..0 = {} /\ 0 \in 0..n
    BY <1>1
  <2>. QED  BY <1>7, <2>1
<1>10. ASSUME NEW m \in 0..(n - 1) PROVE f[m + 1] = Put(f[m], seq[m + 1])
  <2>1. 1..(m + 1) \in SUBSET (1..n) /\ m \in Nat /\ m \in 0..n /\ m + 1 \in 0..n
    BY <1>1
  <2>2. Max(1..(m + 1)) = m + 1 /\ (1..(m + 1)) \ {m + 1} = 1..m /\ 1..(m + 1) # {}
    BY <2>1, LastIndex
  <2>3. fold[1..(m + 1)] = Put(fold[(1..(m + 1)) \ {Max(1..(m + 1))}], seq[Max(1..(m + 1))])
    BY <1>7, <2>1, <2>2
  <2>. QED  BY <2>1, <2>2, <2>3
<1>11. f = [m \in 0..n |-> f[m]] /\ f[n] = fold[1..n]
  BY <1>1
<1>. HIDE DEF f
<1>12. \A m \in 0..n : f[m] \in A
  <2>1. f[0] \in A
    BY <1>9 DEF A
  <2>2. \A m \in 0..(n - 1) : f[m] \in A => f[m + 1] \in A
    <3>1. \A m \in 0..(n - 1) : m + 1 \in 1..n
      BY <1>1
    <3>. QED  BY <1>2, <1>10, <3>1
  <2>. QED  BY <1>1, <2>1, <2>2, StaysIn
<1>13. f \in [0..Len(seq) -> SUBSET S]
  BY <1>11, <1>12 DEF n, A
<1>14. IsPuts(S, table, seq, f)
  BY <1>8, <1>9, <1>10, <1>11, <1>13 DEF n, IsPuts
<1>. QED  BY <1>14

\* So are the entries.
LEMMA WriteFold ==
  ASSUME NEW S, NEW entries \in SUBSET S, NEW seq \in Seq(S)
  PROVE  \E f : IsWrites(S, entries, seq, f)
<1>. DEFINE n    == Len(seq)
            A    == SUBSET S
            step == [x \in A \X (1..n) |-> Write(x[1], seq[x[2]])]
            fold == CHOOSE iter : iter = [s \in SUBSET (1..n) |->
                                            IF s = {} THEN entries ELSE Write(iter[s \ {Max(s)}], seq[Max(s)])]
<1>1. n \in Nat /\ DOMAIN seq = 1..n /\ \A i \in 1..n : seq[i] \in S
  OBVIOUS
<1>. HIDE DEF n
<1>2. \A t \in A, i \in 1..n : Write(t, seq[i]) \in A
  BY <1>1 DEF Write
<1>3. step \in [A \X (1..n) -> A]
  BY <1>2
<1>4. PICK iter : Folds(step, entries, iter, SUBSET (1..n)) /\ \A s \in SUBSET (1..n) : iter[s] \in A
  <2>1. entries \in A
    OBVIOUS
  <2>. HIDE DEF step, A
  <2>. QED  BY <1>1, <1>3, <2>1, FoldExists
<1>5. \A s \in SUBSET (1..n) : s # {} => Max(s) \in 1..n /\ s \ {Max(s)} \in SUBSET (1..n)
  BY <1>1, LargestIndex
<1>6. iter = [s \in SUBSET (1..n) |-> IF s = {} THEN entries ELSE Write(iter[s \ {Max(s)}], seq[Max(s)])]
  <2>1. \A s \in SUBSET (1..n) : s # {} =>
          step[<<iter[s \ {Max(s)}], Max(s)>>] = Write(iter[s \ {Max(s)}], seq[Max(s)])
    <3>. HIDE DEF A
    <3>. QED  BY <1>4, <1>5
  <2>. HIDE DEF step
  <2>. QED  BY <1>4, <2>1 DEF Folds
<1>7. fold = [s \in SUBSET (1..n) |-> IF s = {} THEN entries ELSE Write(fold[s \ {Max(s)}], seq[Max(s)])]
  BY <1>6
<1>8. Writes(entries, seq) = fold[1..n]
  BY <1>1 DEF Writes, FoldLeft, MapThenFoldSet
<1>. HIDE DEF fold, step, A
<1>. DEFINE f == [m \in 0..n |-> fold[1..m]]
<1>9. f[0] = entries
  <2>1. 1..0 = {} /\ 0 \in 0..n
    BY <1>1
  <2>. QED  BY <1>7, <2>1
<1>10. ASSUME NEW m \in 0..(n - 1) PROVE f[m + 1] = Write(f[m], seq[m + 1])
  <2>1. 1..(m + 1) \in SUBSET (1..n) /\ m \in Nat /\ m \in 0..n /\ m + 1 \in 0..n
    BY <1>1
  <2>2. Max(1..(m + 1)) = m + 1 /\ (1..(m + 1)) \ {m + 1} = 1..m /\ 1..(m + 1) # {}
    BY <2>1, LastIndex
  <2>3. fold[1..(m + 1)] = Write(fold[(1..(m + 1)) \ {Max(1..(m + 1))}], seq[Max(1..(m + 1))])
    BY <1>7, <2>1, <2>2
  <2>. QED  BY <2>1, <2>2, <2>3
<1>11. f = [m \in 0..n |-> f[m]] /\ f[n] = fold[1..n]
  BY <1>1
<1>. HIDE DEF f
<1>12. \A m \in 0..n : f[m] \in A
  <2>1. f[0] \in A
    BY <1>9 DEF A
  <2>2. \A m \in 0..(n - 1) : f[m] \in A => f[m + 1] \in A
    <3>1. \A m \in 0..(n - 1) : m + 1 \in 1..n
      BY <1>1
    <3>. QED  BY <1>2, <1>10, <3>1
  <2>. QED  BY <1>1, <2>1, <2>2, StaysIn
<1>13. f \in [0..Len(seq) -> SUBSET S]
  BY <1>11, <1>12 DEF n, A
<1>14. IsWrites(S, entries, seq, f)
  BY <1>8, <1>9, <1>10, <1>11, <1>13 DEF n, IsWrites
<1>. QED  BY <1>14

\* The last row with its key among the first rows of a sequence
IsLast(seq, m, i) == \A j \in 1..m : j > i => KeyResults(seq[j]) # KeyResults(seq[i])

\* What is in the table after the first rows of a sequence have been put into it:
\* the last of them with each key, and the rows there were whose key none of them
\* has.
AfterPuts(table, seq, m) ==
  {r \in table : \A i \in 1..m : KeyResults(seq[i]) # KeyResults(r)}
    \cup {seq[i] : i \in {k \in 1..m : IsLast(seq, m, k)}}

\* One more row
LEMMA PutNext ==
  ASSUME NEW table, NEW seq, NEW m \in Nat
  PROVE  Put(AfterPuts(table, seq, m), seq[m + 1]) = AfterPuts(table, seq, m + 1)
<1>. DEFINE K(r)  == KeyResults(r)
            new   == seq[m + 1]
            put   == Put(AfterPuts(table, seq, m), new)
            after == AfterPuts(table, seq, m + 1)
<1>1. \A i \in 1..(m + 1) : i \in 1..m \/ i = m + 1
  OBVIOUS
<1>2. \A i \in 1..m : i \in 1..(m + 1) /\ i # m + 1 /\ m + 1 > i
  OBVIOUS
<1>3. m + 1 \in 1..(m + 1) /\ \A j \in 1..(m + 1) : ~(j > m + 1)
  OBVIOUS
<1>4. IsLast(seq, m + 1, m + 1)
  BY <1>3 DEF IsLast
<1>5. \A i \in 1..m : IsLast(seq, m + 1, i) <=> IsLast(seq, m, i) /\ K(new) # K(seq[i])
  BY <1>1, <1>2, <1>3 DEF IsLast
<1>. HIDE DEF K, new
<1>6. new = seq[m + 1] /\ \A r : K(r) = KeyResults(r)
  BY DEF new, K
<1>7. ASSUME NEW r, r \in put PROVE r \in after
  <2>1. r = new \/ (r \in AfterPuts(table, seq, m) /\ K(r) # K(new))
    BY <1>6, <1>7 DEF Put
  <2>2. CASE r = new
    <3>1. r \in {seq[i] : i \in {k \in 1..(m + 1) : IsLast(seq, m + 1, k)}}
      BY <1>3, <1>4, <1>6, <2>2
    <3>. QED  BY <3>1 DEF AfterPuts
  <2>3. CASE r \in table /\ (\A i \in 1..m : KeyResults(seq[i]) # KeyResults(r)) /\ K(r) # K(new)
    <3>1. \A i \in 1..(m + 1) : KeyResults(seq[i]) # KeyResults(r)
      BY <1>1, <1>6, <2>3
    <3>. QED  BY <2>3, <3>1 DEF AfterPuts
  <2>4. CASE r \in {seq[i] : i \in {k \in 1..m : IsLast(seq, m, k)}} /\ K(r) # K(new)
    <3>1. PICK i \in 1..m : r = seq[i] /\ IsLast(seq, m, i)
      BY <2>4
    <3>2. IsLast(seq, m + 1, i) /\ i \in 1..(m + 1)
      BY <1>2, <1>5, <1>6, <2>4, <3>1
    <3>. QED  BY <3>1, <3>2 DEF AfterPuts
  <2>. QED  BY <2>1, <2>2, <2>3, <2>4 DEF AfterPuts
<1>8. ASSUME NEW r, r \in after PROVE r \in put
  <2>1. CASE r \in table /\ \A i \in 1..(m + 1) : KeyResults(seq[i]) # KeyResults(r)
    <3>1. r \in AfterPuts(table, seq, m)
      BY <1>2, <2>1 DEF AfterPuts
    <3>2. KeyResults(r) # KeyResults(new)
      BY <1>3, <1>6, <2>1
    <3>. QED  BY <3>1, <3>2 DEF Put
  <2>2. CASE r \in {seq[i] : i \in {k \in 1..(m + 1) : IsLast(seq, m + 1, k)}}
    <3>1. PICK i \in 1..(m + 1) : r = seq[i] /\ IsLast(seq, m + 1, i)
      BY <2>2
    <3>2. CASE i = m + 1
      BY <1>6, <3>1, <3>2 DEF Put
    <3>3. CASE i \in 1..m
      <4>1. IsLast(seq, m, i) /\ KeyResults(new) # KeyResults(r)
        BY <1>5, <1>6, <3>1, <3>3
      <4>2. r \in AfterPuts(table, seq, m)
        BY <3>1, <3>3, <4>1 DEF AfterPuts
      <4>. QED  BY <4>1, <4>2 DEF Put
    <3>. QED  BY <1>1, <3>1, <3>2, <3>3
  <2>. QED  BY <1>8, <2>1, <2>2 DEF AfterPuts
<1>. HIDE DEF put, after
<1>9. put = after
  BY <1>7, <1>8
<1>. QED  BY <1>9 DEF put, after, new

\* The rows after a whole batch
LEMMA PutAll ==
  ASSUME NEW S, NEW table \in SUBSET S, NEW seq \in Seq(S)
  PROVE  Puts(table, seq) = AfterPuts(table, seq, Len(seq))
<1>. DEFINE n == Len(seq)
<1>1. n \in Nat
  OBVIOUS
<1>2. PICK f : IsPuts(S, table, seq, f)
  BY PutFold
<1>3. /\ f \in [0..n -> SUBSET S] /\ f[0] = table /\ f[n] = Puts(table, seq)
      /\ \A m \in 0..(n - 1) : f[m + 1] = Put(f[m], seq[m + 1])
  BY <1>2 DEF IsPuts
<1>. HIDE DEF n
<1>. DEFINE T == {m \in Nat : m <= n => f[m] = AfterPuts(table, seq, m)}
<1>4. 0 \in T
  <2>1. AfterPuts(table, seq, 0) = table
    <3>1. \A i : i \notin 1..0
      OBVIOUS
    <3>. QED  BY <3>1 DEF AfterPuts
  <2>. QED  BY <1>3, <2>1
<1>5. ASSUME NEW m \in Nat, m \in T PROVE m + 1 \in T
  <2>. SUFFICES ASSUME m + 1 <= n PROVE f[m + 1] = AfterPuts(table, seq, m + 1)
    OBVIOUS
  <2>1. m \in 0..(n - 1) /\ f[m] = AfterPuts(table, seq, m)
    BY <1>1, <1>5
  <2>. QED  BY <1>3, <2>1, PutNext
<1>. HIDE DEF T
<1>6. n \in T
  BY <1>1, <1>4, <1>5, Induction
<1>7. f[n] = AfterPuts(table, seq, n)
  BY <1>1, <1>6 DEF T
<1>. QED  BY <1>3, <1>7 DEF n

\* Rows written before, and then once more by the statement executed again, do not
\* matter.
Repeats(written, input) ==
  /\ Len(input) <= Len(written)
  /\ \A k \in 1..Len(input) : written[Len(written) - Len(input) + k] = input[k]
  /\ \A k \in 1..Len(written) : \E i \in 1..Len(input) : written[k] = input[i]

\* A batch that repeats a statement is worth the statement.
LEMMA PutAgain ==
  ASSUME NEW S, NEW table \in SUBSET S, NEW written \in Seq(S), NEW input \in Seq(S), Repeats(written, input)
  PROVE  Puts(table, written) = Puts(table, input)
<1>. DEFINE w == Len(written)
            n == Len(input)
            d == w - n
<1>1. w \in Nat /\ n \in Nat /\ d \in Nat /\ w = d + n
  BY DEF Repeats
<1>2. /\ \A k \in 1..n : d + k \in 1..w /\ written[d + k] = input[k]
      /\ \A k \in 1..w : \E i \in 1..n : written[k] = input[i]
  <2>1. \A k \in 1..n : d + k \in 1..w
    BY <1>1
  <2>. QED  BY <2>1 DEF Repeats
<1>. HIDE DEF w, n, d
<1>3. \A r : (\A k \in 1..w : KeyResults(written[k]) # KeyResults(r)) <=>
             (\A i \in 1..n : KeyResults(input[i]) # KeyResults(r))
  BY <1>2
<1>4. ASSUME NEW k \in 1..w, IsLast(written, w, k)
      PROVE  \E i \in 1..n : IsLast(input, n, i) /\ input[i] = written[k]
  <2>1. PICK i \in 1..n : written[k] = input[i]
    BY <1>2
  <2>2. d + i \in 1..w /\ written[d + i] = input[i]
    BY <1>2
  <2>3. ~(d + i > k)
    BY <1>4, <2>1, <2>2 DEF IsLast
  <2>4. d + i <= k /\ i \in Nat /\ i >= 1 /\ k \in Nat /\ k <= w
    BY <1>1, <2>2, <2>3
  <2>5. k - d \in 1..n /\ d + (k - d) = k
    <3>. HIDE DEF d
    <3>. QED  BY <1>1, <2>4
  <2>. DEFINE h == k - d
  <2>6. h \in 1..n /\ d + h = k /\ input[h] = written[k]
    BY <1>2, <2>5
  <2>. HIDE DEF h
  <2>7. IsLast(input, n, h)
    <3>. SUFFICES ASSUME NEW j \in 1..n, j > h PROVE KeyResults(input[j]) # KeyResults(input[h])
      BY DEF IsLast
    <3>1. d + j \in 1..w /\ written[d + j] = input[j]
      BY <1>2
    <3>2. d + j > k
      BY <1>1, <2>6
    <3>. QED  BY <1>4, <2>6, <3>1, <3>2 DEF IsLast
  <2>. QED  BY <2>6, <2>7
<1>5. ASSUME NEW i \in 1..n, IsLast(input, n, i)
      PROVE  d + i \in 1..w /\ IsLast(written, w, d + i) /\ written[d + i] = input[i]
  <2>1. d + i \in 1..w /\ written[d + i] = input[i]
    BY <1>2
  <2>2. ASSUME NEW j \in 1..w, j > d + i PROVE KeyResults(written[j]) # KeyResults(written[d + i])
    <3>1. j - d \in 1..n /\ j - d > i /\ d + (j - d) = j
      BY <1>1, <2>2
    <3>. HIDE DEF IsLast
    <3>2. written[j] = input[j - d]
      BY <1>2, <3>1
    <3>3. KeyResults(input[j - d]) # KeyResults(input[i])
      BY <1>5, <3>1 DEF IsLast
    <3>. QED  BY <2>1, <3>2, <3>3
  <2>. QED  BY <2>1, <2>2 DEF IsLast
<1>6. {written[k] : k \in {j \in 1..w : IsLast(written, w, j)}} = {input[i] : i \in {j \in 1..n : IsLast(input, n, j)}}
  BY <1>4, <1>5
<1>7. AfterPuts(table, written, w) = AfterPuts(table, input, n)
  BY <1>3, <1>6 DEF AfterPuts
<1>. QED  BY <1>7, PutAll DEF w, n

\* No two rows have the same key.
DistinctKeys(table) == \A a, b \in table : KeyResults(a) = KeyResults(b) => a = b

\* A batch adds finitely many rows, each with a key of its own.
LEMMA PutsKeep ==
  ASSUME NEW S, NEW table \in SUBSET S, NEW seq \in Seq(S), IsFiniteSet(table), DistinctKeys(table)
  PROVE  Puts(table, seq) \in SUBSET S /\ IsFiniteSet(Puts(table, seq)) /\ DistinctKeys(Puts(table, seq))
<1>. DEFINE n    == Len(seq)
            left == {r \in table : \A i \in 1..n : KeyResults(seq[i]) # KeyResults(r)}
            D    == {k \in 1..n : IsLast(seq, n, k)}
            new  == {seq[i] : i \in D}
<1>1. n \in Nat /\ \A i \in 1..n : seq[i] \in S
  OBVIOUS
<1>2. Puts(table, seq) = left \cup new
  <2>1. Puts(table, seq) = AfterPuts(table, seq, Len(seq))
    BY PutAll, Zenon
  <2>. QED  BY <2>1, Zenon DEF AfterPuts
<1>3. left \cup new \in SUBSET S
  BY <1>1
<1>4. IsFiniteSet(left \cup new)
  <2>1. IsFiniteSet(left)
    <3>1. left \in SUBSET table
      OBVIOUS
    <3>. HIDE DEF left
    <3>. QED  BY <3>1, FS_Subset
  <2>2. IsFiniteSet(D)
    <3>1. D \in SUBSET (1..n)
      OBVIOUS
    <3>2. IsFiniteSet(1..n)
      BY <1>1, FS_Interval
    <3>. HIDE DEF D
    <3>. QED  BY <3>1, <3>2, FS_Subset
  <2>3. IsFiniteSet(new)
    <3>. DEFINE g == [i \in D |-> seq[i]]
    <3>1. g \in Surjection(D, new)
      BY DEF Surjection
    <3>. HIDE DEF g, new, D
    <3>. QED  BY <2>2, <3>1, FS_Surjection
  <2>. HIDE DEF left, new
  <2>. QED  BY <2>1, <2>3, FS_Union
<1>5. ASSUME NEW a \in left \cup new, NEW b \in left \cup new, KeyResults(a) = KeyResults(b)
      PROVE  a = b
  <2>1. ASSUME NEW x \in left, NEW y \in new PROVE KeyResults(x) # KeyResults(y)
    OBVIOUS
  <2>2. CASE a \in left /\ b \in left
    BY <1>5, <2>2 DEF DistinctKeys
  <2>3. CASE a \in new /\ b \in new
    <3>1. PICK i \in 1..n : a = seq[i] /\ IsLast(seq, n, i)
      BY <2>3
    <3>2. PICK j \in 1..n : b = seq[j] /\ IsLast(seq, n, j)
      BY <2>3
    <3>3. ~(j > i) /\ ~(i > j)
      BY <1>5, <3>1, <3>2 DEF IsLast
    <3>4. i = j
      BY <1>1, <3>3
    <3>. QED  BY <3>1, <3>2, <3>4
  <2>. HIDE DEF left, new
  <2>. QED  BY <1>5, <2>1, <2>2, <2>3
<1>. HIDE DEF left, new
<1>. QED  BY <1>2, <1>3, <1>4, <1>5 DEF DistinctKeys

\* The entries of some rows
Entries(table) == {Entry(r) : r \in table}

\* Writing the entry of a row is putting the row.
LEMMA WriteEntry ==
  ASSUME KeyTypesAgree, EntriesTold, NEW table \in SUBSET Good, NEW row \in Good
  PROVE  Write(Entries(table), Entry(row)) = Entries(Put(table, row))
<1>1. ASSUME NEW r \in table PROVE SameKey(Entry(r).key, Entry(row).key) <=> KeyResults(r) = KeyResults(row)
  <2>1. r \in Good
    OBVIOUS
  <2>. QED  BY <2>1, SameKeys
<1>2. ASSUME NEW e, e \in Write(Entries(table), Entry(row)) PROVE e \in Entries(Put(table, row))
  <2>1. CASE e = Entry(row)
    BY <2>1 DEF Entries, Put
  <2>2. CASE e \in Entries(table) /\ ~SameKey(e.key, Entry(row).key)
    <3>1. PICK r \in table : e = Entry(r)
      BY <2>2 DEF Entries
    <3>2. r \in Put(table, row)
      BY <1>1, <2>2, <3>1 DEF Put
    <3>. QED  BY <3>1, <3>2 DEF Entries
  <2>. QED  BY <1>2, <2>1, <2>2 DEF Write
<1>3. ASSUME NEW e, e \in Entries(Put(table, row)) PROVE e \in Write(Entries(table), Entry(row))
  <2>1. PICK r \in Put(table, row) : e = Entry(r)
    BY <1>3 DEF Entries
  <2>2. CASE r = row
    BY <2>1, <2>2 DEF Write
  <2>3. CASE r \in table /\ KeyResults(r) # KeyResults(row)
    <3>1. Entry(r) \in Entries(table) /\ ~SameKey(Entry(r).key, Entry(row).key)
      BY <1>1, <2>3 DEF Entries
    <3>. QED  BY <2>1, <3>1 DEF Write
  <2>. QED  BY <2>1, <2>2, <2>3 DEF Put
<1>. QED  BY <1>2, <1>3

\* The entries after a batch are those of the rows after it.
LEMMA WritesArePuts ==
  ASSUME KeyTypesAgree, EntriesTold, NEW table \in SUBSET Good, NEW written \in Seq(Good)
  PROVE  Writes(Entries(table), [k \in DOMAIN written |-> Entry(written[k])]) = Entries(Puts(table, written))
<1>. DEFINE n     == Len(written)
            batch == [k \in DOMAIN written |-> Entry(written[k])]
            D     == Entries(Good)
<1>1. n \in Nat /\ DOMAIN written = 1..n /\ \A k \in 1..n : written[k] \in Good
  OBVIOUS
<1>2. batch \in Seq(D) /\ Len(batch) = n /\ \A k \in 1..n : batch[k] = Entry(written[k])
  <2>1. \A k \in 1..n : Entry(written[k]) \in D
    BY <1>1 DEF Entries
  <2>. HIDE DEF D, n
  <2>. QED  BY <1>1, <2>1
<1>3. Entries(table) \in SUBSET D
  BY DEF Entries
<1>. HIDE DEF batch, D
<1>4. PICK f : IsWrites(D, Entries(table), batch, f)
  BY <1>2, <1>3, WriteFold
<1>5. PICK g : IsPuts(Good, table, written, g)
  BY PutFold
<1>6. /\ f[0] = Entries(table) /\ f[n] = Writes(Entries(table), batch)
      /\ \A m \in 0..(n - 1) : f[m + 1] = Write(f[m], batch[m + 1])
  BY <1>2, <1>4 DEF IsWrites
<1>7. /\ g[0] = table /\ g[n] = Puts(table, written)
      /\ \A m \in 0..n : g[m] \in SUBSET Good
      /\ \A m \in 0..(n - 1) : g[m + 1] = Put(g[m], written[m + 1])
  BY <1>5 DEF IsPuts
<1>. HIDE DEF n
<1>. DEFINE T == {m \in Nat : m <= n => f[m] = Entries(g[m])}
<1>8. 0 \in T
  BY <1>6, <1>7
<1>9. ASSUME NEW m \in Nat, m \in T PROVE m + 1 \in T
  <2>. SUFFICES ASSUME m + 1 <= n PROVE f[m + 1] = Entries(g[m + 1])
    OBVIOUS
  <2>1. m \in 0..(n - 1) /\ m \in 0..n /\ m + 1 \in 1..n /\ f[m] = Entries(g[m])
    BY <1>1, <1>9
  <2>2. f[m + 1] = Write(Entries(g[m]), Entry(written[m + 1]))
    BY <1>2, <1>6, <2>1
  <2>3. g[m + 1] = Put(g[m], written[m + 1]) /\ g[m] \in SUBSET Good /\ written[m + 1] \in Good
    BY <1>1, <1>7, <2>1
  <2>. QED  BY <2>2, <2>3, WriteEntry
<1>. HIDE DEF T
<1>10. n \in T
  BY <1>1, <1>8, <1>9, Induction
<1>11. f[n] = Entries(g[n])
  BY <1>1, <1>10 DEF T
<1>. QED  BY <1>6, <1>7, <1>11 DEF batch

-----------------------------------------------------------------------------
(* A scan                                                                   *)

\* A scan returns the rows whose entries are stored, in the order of their keys.
LEMMA ScanRight ==
  ASSUME KeyTypesAgree, EntriesTold, rows \in SUBSET Good, IsFiniteSet(rows), DistinctKeys(rows),
         store = Entries(rows)
  PROVE  /\ Range(Scan) = rows /\ Len(Scan) = Cardinality(rows)
         /\ \A j, k \in DOMAIN Scan : j < k => RowLess(ScanKeyTypes, KeyResults(Scan[j]), KeyResults(Scan[k]))
         /\ Scan \in Seq(RowValues)
<1>. DEFINE pair(r)   == [key |-> KeyResults(r), row |-> r]
            E         == {[key |-> GetResults(ScanKeyTypes, e.key, 0), row |-> ScanRow(e)] : e \in store}
            before(e) == {x \in E : RowLess(ScanKeyTypes, x.key, e.key)}
            R         == {p \in E \X E : RowLess(ScanKeyTypes, p[1].key, p[2].key)}
            c         == Cardinality(E)
            s         == [n \in 1..c |-> CHOOSE e \in E : Cardinality(before(e)) = n - 1]
<1>1. E = {pair(r) : r \in rows}
  <2>1. ASSUME NEW r \in rows
        PROVE  [key |-> GetResults(ScanKeyTypes, Entry(r).key, 0), row |-> ScanRow(Entry(r))] = pair(r)
    <3>1. r \in Good
      OBVIOUS
    <3>. QED  BY <3>1, KeyBack, EntryBack
  <2>2. E = {[key |-> GetResults(ScanKeyTypes, Entry(r).key, 0), row |-> ScanRow(Entry(r))] : r \in rows}
    BY DEF Entries
  <2>. HIDE DEF E, pair
  <2>. QED  BY <2>1, <2>2
<1>2. Scan = [n \in 1..c |-> s[n].row]
  BY DEF Scan
<1>. HIDE DEF E
<1>3. ASSUME NEW e \in E
      PROVE  e.row \in rows /\ e = pair(e.row) /\ RowFitsTypes(ScanKeyTypes, e.key)
  <2>1. PICK r \in rows : e = pair(r)
    BY <1>1
  <2>2. r \in Good
    OBVIOUS
  <2>. QED  BY <2>1, <2>2, KeyBack
<1>4. IsFiniteSet(E) /\ c = Cardinality(rows)
  <2>. DEFINE g == [r \in rows |-> pair(r)]
  <2>1. g \in Surjection(rows, E)
    BY <1>1 DEF Surjection
  <2>2. \A a, b \in rows : g[a] = g[b] => a = b
    OBVIOUS
  <2>. HIDE DEF g, c
  <2>3. g \in Injection(rows, E)
    BY <2>1, <2>2 DEF Injection, Surjection, IsInjective
  <2>. QED  BY <2>1, <2>3, FS_Surjection DEF c
<1>5. \A x, y \in E : <<x, y>> \in R <=> RowLess(ScanKeyTypes, x.key, y.key)
  OBVIOUS
<1>6. \A e \in E : RankIn(E, R, e) = Cardinality(before(e))
  BY <1>5 DEF RankIn
<1>. HIDE DEF R, before, pair
<1>7. \A x \in E : <<x, x>> \notin R
  BY <1>3, <1>5, RowOrder
<1>8. \A x, y, z \in E : <<x, y>> \in R /\ <<y, z>> \in R => <<x, z>> \in R
  <2>. SUFFICES ASSUME NEW x \in E, NEW y \in E, NEW z \in E, <<x, y>> \in R, <<y, z>> \in R
                PROVE  <<x, z>> \in R
    OBVIOUS
  <2>1. RowFitsTypes(ScanKeyTypes, x.key) /\ RowFitsTypes(ScanKeyTypes, y.key) /\ RowFitsTypes(ScanKeyTypes, z.key)
    BY <1>3
  <2>2. RowLess(ScanKeyTypes, x.key, y.key) /\ RowLess(ScanKeyTypes, y.key, z.key)
    BY <1>5
  <2>3. RowLess(ScanKeyTypes, x.key, z.key)
    BY <2>1, <2>2, RowOrder
  <2>. QED  BY <1>5, <2>3
<1>9. \A x, y \in E : x # y => <<x, y>> \in R \/ <<y, x>> \in R
  <2>. SUFFICES ASSUME NEW x \in E, NEW y \in E, x # y
                PROVE  <<x, y>> \in R \/ <<y, x>> \in R
    OBVIOUS
  <2>1. RowFitsTypes(ScanKeyTypes, x.key) /\ RowFitsTypes(ScanKeyTypes, y.key)
    BY <1>3
  <2>2. x.key # y.key
    <3>1. /\ x.row \in rows /\ x = pair(x.row)
          /\ y.row \in rows /\ y = pair(y.row)
      BY <1>3
    <3>2. x.row # y.row
      BY <3>1
    <3>3. KeyResults(x.row) # KeyResults(y.row)
      BY <3>1, <3>2 DEF DistinctKeys
    <3>4. x.key = KeyResults(x.row) /\ y.key = KeyResults(y.row)
      BY <3>1 DEF pair
    <3>. QED  BY <3>3, <3>4
  <2>3. RowLess(ScanKeyTypes, x.key, y.key) \/ RowLess(ScanKeyTypes, y.key, x.key)
    BY <2>1, <2>2, RowOrder
  <2>. QED  BY <1>5, <2>3
<1>10. \A n \in 1..c : s[n] \in E /\ RankIn(E, R, s[n]) = n - 1
  <2>1. \A n \in 1..c : \E e \in E : RankIn(E, R, e) = n - 1
    BY <1>4, <1>7, <1>8, <1>9, RanksIn
  <2>2. \A n \in 1..c : \E e \in E : Cardinality(before(e)) = n - 1
    BY <1>6, <2>1
  <2>3. \A n \in 1..c : s[n] \in E /\ Cardinality(before(s[n])) = n - 1
    BY <2>2
  <2>. HIDE DEF s, c
  <2>. QED  BY <1>6, <2>3
<1>. HIDE DEF s
<1>11. /\ \A e \in E : \E n \in 1..c : s[n] = e
       /\ \A j, k \in 1..c : j < k => <<s[j], s[k]>> \in R
  <2>. HIDE DEF c
  <2>1. \A n \in 1..Cardinality(E) : s[n] \in E /\ RankIn(E, R, s[n]) = n - 1
    BY <1>10 DEF c
  <2>2. /\ \A e \in E : \E n \in 1..Cardinality(E) : s[n] = e
        /\ \A j, k \in 1..Cardinality(E) : j < k => <<s[j], s[k]>> \in R
    BY <1>4, <1>7, <1>8, <1>9, <2>1, ListedByRank
  <2>. QED  BY <2>2 DEF c
<1>12. c \in Nat
  BY <1>4, FS_CardinalityType
<1>. HIDE DEF c
<1>13. DOMAIN Scan = 1..c /\ Len(Scan) = c /\ \A n \in 1..c : Scan[n] = s[n].row
  BY <1>2, <1>12
<1>14. Range(Scan) = rows
  <2>1. ASSUME NEW r \in rows PROVE r \in Range(Scan)
    <3>1. pair(r) \in E /\ pair(r).row = r
      BY <1>1 DEF pair
    <3>2. PICK n \in 1..c : s[n] = pair(r)
      BY <1>11, <3>1
    <3>. QED  BY <1>13, <3>1, <3>2 DEF Range
  <2>2. \A n \in 1..c : Scan[n] \in rows
    BY <1>3, <1>10, <1>13
  <2>. QED  BY <1>13, <2>1, <2>2 DEF Range
<1>15. ASSUME NEW j \in 1..c, NEW k \in 1..c, j < k
       PROVE  RowLess(ScanKeyTypes, KeyResults(Scan[j]), KeyResults(Scan[k]))
  <2>1. s[j] \in E /\ s[k] \in E /\ <<s[j], s[k]>> \in R
    BY <1>10, <1>11, <1>15
  <2>2. RowLess(ScanKeyTypes, s[j].key, s[k].key)
    BY <1>5, <2>1
  <2>3. s[j].key = KeyResults(s[j].row) /\ s[k].key = KeyResults(s[k].row)
    BY <1>3, <2>1 DEF pair
  <2>. QED  BY <1>13, <2>2, <2>3
<1>16. Scan \in Seq(RowValues)
  <2>1. \A n \in 1..c : s[n].row \in RowValues
    BY <1>3, <1>10 DEF Good
  <2>. QED  BY <1>2, <1>12, <2>1
<1>. QED  BY <1>4, <1>13, <1>14, <1>15, <1>16

\* The columns of a row that fit are not refused.
LEMMA PartNotRefused ==
  ASSUME NEW columns \in Seq(Columns), NEW row, RowFits(row)
  PROVE  ~RowThrows(TypesOf(columns), [k \in DOMAIN columns |-> row[columns[k]]])
<1>. DEFINE types   == TypesOf(columns)
            results == [k \in DOMAIN columns |-> row[columns[k]]]
<1>1. \A k \in DOMAIN columns : columns[k] \in Columns
  OBVIOUS
<1>2. DOMAIN types = DOMAIN columns /\ \A k \in DOMAIN columns : types[k] = RowTypes[columns[k]]
  BY DEF TypesOf
<1>. HIDE DEF types
<1>3. \A k \in DOMAIN types : ~WriteThrows(types[k], results[k])
  BY <1>1, <1>2 DEF RowFits
<1>. HIDE DEF results
<1>4. ~ComputeSizeThrows(types, results)
  BY <1>3 DEF ComputeSizeThrows, WriteThrows
<1>. QED  BY <1>3, <1>4 DEF RowThrows, CopyThrows, types, results

\* A row whose values fit their columns is written.
LEMMA NeverRefused ==
  ASSUME KeyTypesAgree, NEW row, RowFits(row)
  PROVE  ~NextThrows(row)
<1>1. ~RowThrows(ScanKeyTypes, KeyResults(row))
  BY ColumnsOnce, PartNotRefused DEF ScanKeyTypes, KeyResults
<1>2. ~RowThrows(TypesOf(ValueColumns), ValueResults(row))
  BY ColumnsOnce, PartNotRefused DEF ValueResults
<1>. QED  BY <1>1, <1>2 DEF NextThrows, KeyTypesAgree

-----------------------------------------------------------------------------
(* The invariant                                                            *)

\* The batch of a statement that has read some of its rows: these rows, behind
\* whatever its failed executions have left.
Progress(written) ==
  /\ m_iCurrent \in 0..Len(child) /\ m_iCurrent <= Len(written)
  /\ \A k \in 1..m_iCurrent : written[Len(written) - m_iCurrent + k] = child[k]

\* The batch has entries of the statement's rows only, and none between
\* statements.
BatchRight ==
  /\ statement \in {"none", "sort"} => m_batch = <<>>
  /\ statement \in {"insert", "failed"} =>
       /\ child \in Seq(RowValues)
       /\ \E written \in Seq(Good) :
            /\ m_batch = [k \in DOMAIN written |-> Entry(written[k])]
            /\ \A k \in 1..Len(written) : \E i \in 1..Len(child) : written[k] = child[i]
            /\ statement = "insert" => Progress(written)

\* What is stored are the rows that should be in the table.
TableInv ==
  /\ statement \in {"none", "insert", "failed", "sort"}
  /\ rows \in SUBSET Good /\ IsFiniteSet(rows) /\ DistinctKeys(rows)
  /\ store = Entries(rows)
  /\ BatchRight

\* A row has been read and its entry is in the batch.
LEMMA NextKeepsTable ==
  ASSUME TableInv, InsertNext
  PROVE  TableInv'
<1>. DEFINE row == child[m_iCurrent + 1]
<1>1. /\ statement = "insert" /\ m_iCurrent < Len(child)
      /\ m_batch' = Append(m_batch, Entry(row)) /\ m_iCurrent' = m_iCurrent + 1
      /\ store' = store /\ rows' = rows /\ statement' = statement /\ child' = child
  BY DEF InsertNext
<1>2. PICK written \in Seq(Good) :
        /\ m_batch = [k \in DOMAIN written |-> Entry(written[k])]
        /\ \A k \in 1..Len(written) : \E i \in 1..Len(child) : written[k] = child[i]
        /\ Progress(written)
  BY <1>1 DEF TableInv, BatchRight
<1>3. child \in Seq(RowValues) /\ m_iCurrent \in Nat /\ m_iCurrent + 1 \in 1..Len(child)
  BY <1>1, <1>2 DEF TableInv, BatchRight, Progress
<1>4. row \in Good
  BY <1>3 DEF InsertNext, Good
<1>. HIDE DEF row
<1>. DEFINE w == Len(written)
<1>5. PICK more \in Seq(Good) : /\ w \in Nat /\ Len(more) = w + 1
                                /\ DOMAIN more = 1..(w + 1) /\ DOMAIN written = 1..w
                                /\ \A k \in 1..w : more[k] = written[k]
                                /\ more[w + 1] = row
  <2>. DEFINE m == Append(written, row)
  <2>1. /\ m \in Seq(Good) /\ w \in Nat /\ Len(m) = w + 1
        /\ DOMAIN m = 1..(w + 1) /\ DOMAIN written = 1..w
        /\ \A k \in 1..w : m[k] = written[k]
        /\ m[w + 1] = row
    BY <1>4
  <2>. HIDE DEF m, w
  <2>. QED  BY <2>1
<1>. HIDE DEF w
<1>6. m_batch' = [k \in DOMAIN more |-> Entry(more[k])]
  <2>1. DOMAIN m_batch = 1..w /\ \A k \in 1..w : m_batch[k] = Entry(written[k])
    BY <1>2, <1>5
  <2>2. m_batch \in Seq(Entries(Good)) /\ Len(m_batch) = w
    <3>1. \A k \in 1..w : written[k] \in Good
      BY <1>5
    <3>2. m_batch = [k \in 1..w |-> Entry(written[k])] /\ \A k \in 1..w : Entry(written[k]) \in Entries(Good)
      BY <1>2, <1>5, <3>1 DEF Entries
    <3>. QED  BY <1>5, <3>2
  <2>3. /\ DOMAIN Append(m_batch, Entry(row)) = 1..(w + 1)
        /\ Append(m_batch, Entry(row)) = [k \in 1..(w + 1) |-> Append(m_batch, Entry(row))[k]]
        /\ \A k \in 1..w : Append(m_batch, Entry(row))[k] = m_batch[k]
        /\ Append(m_batch, Entry(row))[w + 1] = Entry(row)
    <3>1. Entry(row) \in Entries(Good)
      BY <1>4 DEF Entries
    <3>. DEFINE e == Entry(row)
                D == Entries(Good)
    <3>. HIDE DEF e, D
    <3>2. e \in D /\ m_batch \in Seq(D) /\ Len(m_batch) = w
      BY <2>2, <3>1 DEF e, D
    <3>3. Append(m_batch, e) \in Seq(D) /\ Len(Append(m_batch, e)) = w + 1
      BY <3>2
    <3>4. (\A k \in 1..w : Append(m_batch, e)[k] = m_batch[k]) /\ Append(m_batch, e)[w + 1] = e
      BY <3>2
    <3>5. \A s \in Seq(D) : DOMAIN s = 1..Len(s) /\ s = [k \in 1..Len(s) |-> s[k]]
      OBVIOUS
    <3>6. DOMAIN Append(m_batch, e) = 1..(w + 1) /\ Append(m_batch, e) = [k \in 1..(w + 1) |-> Append(m_batch, e)[k]]
      BY <3>3, <3>5, Zenon
    <3>. QED  BY <3>4, <3>6 DEF e
  <2>4. \A k \in 1..(w + 1) : Append(m_batch, Entry(row))[k] = Entry(more[k])
    <3>1. \A k \in 1..(w + 1) : k \in 1..w \/ k = w + 1
      BY <1>5
    <3>. QED  BY <1>5, <2>1, <2>3, <3>1
  <2>5. Append(m_batch, Entry(row)) = [k \in 1..(w + 1) |-> Entry(more[k])]
    BY <2>3, <2>4
  <2>. QED  BY <1>1, <1>5, <2>5
<1>7. \A k \in 1..(w + 1) : \E i \in 1..Len(child) : more[k] = child[i]
  <2>1. \A k \in 1..(w + 1) : k \in 1..w \/ k = w + 1
    BY <1>5
  <2>2. \A k \in 1..w : \E i \in 1..Len(child) : written[k] = child[i]
    BY <1>2 DEF w
  <2>. QED  BY <1>3, <1>5, <2>1, <2>2 DEF row
<1>8. Progress(more)'
  <2>1. m_iCurrent <= w /\ \A k \in 1..m_iCurrent : written[w - m_iCurrent + k] = child[k]
    BY <1>2 DEF Progress, w
  <2>2. m_iCurrent' \in 0..Len(child) /\ m_iCurrent' <= w + 1
    BY <1>1, <1>3, <1>5, <2>1
  <2>3. ASSUME NEW k \in 1..(m_iCurrent + 1) PROVE more[(w + 1) - (m_iCurrent + 1) + k] = child[k]
    <3>1. CASE k = m_iCurrent + 1
      <4>1. (w + 1) - (m_iCurrent + 1) + k = w + 1
        BY <1>3, <1>5, <3>1
      <4>. QED  BY <1>5, <3>1, <4>1 DEF row
    <3>2. CASE k \in 1..m_iCurrent
      <4>1. (w + 1) - (m_iCurrent + 1) + k = w - m_iCurrent + k /\ w - m_iCurrent + k \in 1..w
        BY <1>3, <1>5, <2>1, <3>2
      <4>. QED  BY <1>5, <2>1, <3>2, <4>1
    <3>3. k = m_iCurrent + 1 \/ k \in 1..m_iCurrent
      BY <1>3
    <3>. QED  BY <3>1, <3>2, <3>3
  <2>4. Len(more) = w + 1 /\ child' = child /\ m_iCurrent' = m_iCurrent + 1
    BY <1>1, <1>5
  <2>. QED  BY <2>2, <2>3, <2>4 DEF Progress
<1>9. BatchRight'
  BY <1>1, <1>3, <1>5, <1>6, <1>7, <1>8 DEF BatchRight
<1>. QED  BY <1>1, <1>9 DEF TableInv

\* The batch is committed.
LEMMA EndKeepsTable ==
  ASSUME KeyTypesAgree, EntriesTold, TableInv, InsertEnds
  PROVE  TableInv'
<1>1. /\ statement = "insert" /\ m_iCurrent = Len(child)
      /\ m_batch' = <<>> /\ statement' = "none"
  BY DEF InsertEnds, StatementEnds, Begins
<1>2. store' = Writes(store, m_batch) /\ rows' = Puts(rows, child)
  BY DEF InsertEnds, Writes, Puts
<1>3. PICK written \in Seq(Good) :
        /\ m_batch = [k \in DOMAIN written |-> Entry(written[k])]
        /\ \A k \in 1..Len(written) : \E i \in 1..Len(child) : written[k] = child[i]
        /\ Progress(written)
  BY <1>1 DEF TableInv, BatchRight
<1>4. Repeats(written, child)
  BY <1>1, <1>3 DEF Repeats, Progress
<1>5. child \in Seq(Good)
  <2>1. child \in Seq(RowValues)
    BY <1>1 DEF TableInv, BatchRight
  <2>2. \A k \in 1..Len(child) : Len(written) - Len(child) + k \in 1..Len(written)
    <3>1. Len(written) \in Nat /\ Len(child) \in Nat /\ Len(child) <= Len(written)
      BY <1>4, <2>1 DEF Repeats
    <3>. QED  BY <3>1
  <2>3. \A k \in 1..Len(child) : child[k] \in Good
    <3>1. \A k \in 1..Len(written) : written[k] \in Good
      OBVIOUS
    <3>. QED  BY <1>4, <2>2, <3>1 DEF Repeats
  <2>4. Len(child) \in Nat /\ child = [k \in 1..Len(child) |-> child[k]]
    BY <2>1
  <2>. QED  BY <2>3, <2>4
<1>6. /\ rows \in SUBSET Good /\ IsFiniteSet(rows) /\ DistinctKeys(rows)
      /\ store = Entries(rows)
  BY DEF TableInv
<1>7. store' = Entries(rows')
  <2>1. Writes(Entries(rows), m_batch) = Entries(Puts(rows, written))
    BY <1>3, <1>6, WritesArePuts
  <2>2. Puts(rows, written) = Puts(rows, child)
    BY <1>4, <1>5, <1>6, PutAgain
  <2>. QED  BY <1>2, <1>6, <2>1, <2>2
<1>8. rows' \in SUBSET Good /\ IsFiniteSet(rows') /\ DistinctKeys(rows')
  BY <1>2, <1>5, <1>6, PutsKeep
<1>. QED  BY <1>1, <1>7, <1>8 DEF TableInv, BatchRight, DistinctKeys, Entries

\* A row is deleted by its key.
LEMMA DeleteKeepsTable ==
  ASSUME KeyTypesAgree, EntriesTold, TableInv, NEW entry \in store, Delete(entry)
  PROVE  TableInv'
<1>1. /\ rows \in SUBSET Good /\ IsFiniteSet(rows) /\ DistinctKeys(rows)
      /\ store = Entries(rows)
  BY DEF TableInv
<1>2. PICK row \in rows : entry = Entry(row)
  BY <1>1 DEF Entries
<1>3. row \in Good
  BY <1>1
<1>4. /\ store' = {e \in store : ~SameKey(e.key, Entry(row).key)}
      /\ rows' = {r \in rows : KeyResults(r) # KeyResults(row)}
  BY <1>2, <1>3, EntryBack DEF Delete
<1>5. \A r \in rows : SameKey(Entry(r).key, Entry(row).key) <=> KeyResults(r) = KeyResults(row)
  BY <1>1, <1>3, SameKeys
<1>6. store' = Entries(rows')
  BY <1>1, <1>4, <1>5 DEF Entries
<1>7. rows' \in SUBSET rows
  BY <1>4
<1>8. rows' \in SUBSET Good /\ IsFiniteSet(rows') /\ DistinctKeys(rows')
  BY <1>1, <1>7, FS_Subset DEF DistinctKeys
<1>9. statement' = statement /\ statement = "none" /\ m_batch' = m_batch
  BY DEF Delete
<1>. QED  BY <1>6, <1>8, <1>9 DEF TableInv, BatchRight, DistinctKeys, Entries

\* The other steps write nothing.
LEMMA RestKeepsTable ==
  ASSUME TableInv,
         \/ InsertBegins \/ InsertFails \/ CommitFails \/ InsertAgain \/ InsertDiscarded
         \/ SortBegins \/ SortNext \/ SortAgain \/ SortDiscarded \/ UNCHANGED tableVars
  PROVE  TableInv'
<1>1. store' = store /\ rows' = rows
  BY DEF InsertBegins, InsertFails, CommitFails, InsertAgain, InsertDiscarded, SortBegins, SortNext,
         SortAgain, SortDiscarded, tableVars
<1>2. ASSUME statement' \in {"none", "insert", "failed", "sort"}, BatchRight' PROVE TableInv'
  BY <1>1, <1>2 DEF TableInv, DistinctKeys, Entries
<1>3. CASE InsertBegins
  <2>1. PICK input \in Inserts : Begins("insert", input)
    BY <1>3 DEF InsertBegins
  <2>2. input \in Seq(RowValues) /\ Len(input) \in Nat
    BY TableAssumption
  <2>3. m_batch' = <<>>
    BY <1>3 DEF InsertBegins, TableInv, BatchRight
  <2>4. child' = input /\ m_iCurrent' = 0 /\ statement' = "insert"
    BY <2>1 DEF Begins
  <2>5. /\ <<>> \in Seq(Good) /\ Len(<<>>) = 0 /\ DOMAIN <<>> = {}
        /\ <<>> = [k \in DOMAIN <<>> |-> Entry(<<>>[k])]
    OBVIOUS
  <2>6. Progress(<<>>)'
    <3>1. 0 \in 0..Len(input) /\ 0 <= Len(<<>>) /\ \A k : k \notin 1..0
      BY <2>2, <2>5
    <3>. QED  BY <2>4, <3>1 DEF Progress
  <2>7. BatchRight'
    <3>1. \A k \in 1..Len(<<>>) : \E i \in 1..Len(input) : <<>>[k] = input[i]
      BY <2>5
    <3>2. \E written \in Seq(Good) :
            /\ m_batch' = [k \in DOMAIN written |-> Entry(written[k])]
            /\ \A k \in 1..Len(written) : \E i \in 1..Len(input) : written[k] = input[i]
            /\ Progress(written)'
      BY <2>3, <2>5, <2>6, <3>1
    <3>. QED  BY <2>2, <2>3, <2>4, <3>2 DEF BatchRight
  <2>. QED  BY <1>2, <2>4, <2>7
<1>4. CASE InsertFails \/ CommitFails
  <2>1. statement = "insert" /\ statement' = "failed" /\ child' = child /\ m_batch' = m_batch
    BY <1>4 DEF InsertFails, CommitFails
  <2>2. BatchRight'
    BY <2>1 DEF TableInv, BatchRight
  <2>. QED  BY <1>2, <2>1, <2>2
<1>5. CASE InsertAgain
  <2>1. /\ statement = "failed" /\ statement' = "insert" /\ child' = child /\ m_iCurrent' = 0
        /\ m_batch' = m_batch
    BY <1>5 DEF InsertAgain, Begins
  <2>2. child \in Seq(RowValues) /\ Len(child) \in Nat
    BY <2>1 DEF TableInv, BatchRight
  <2>3. PICK w \in Seq(Good) : /\ m_batch = [k \in DOMAIN w |-> Entry(w[k])]
                               /\ \A k \in 1..Len(w) : \E i \in 1..Len(child) : w[k] = child[i]
    BY <2>1 DEF TableInv, BatchRight
  <2>4. Progress(w)'
    BY <2>1, <2>2 DEF Progress
  <2>5. BatchRight'
    BY <2>1, <2>2, <2>3, <2>4 DEF BatchRight
  <2>. QED  BY <1>2, <2>1, <2>5
<1>6. CASE InsertDiscarded
  <2>1. statement' = "none" /\ m_batch' = <<>>
    BY <1>6 DEF InsertDiscarded, StatementEnds, Begins
  <2>. QED  BY <1>2, <2>1 DEF BatchRight
<1>7. CASE SortBegins \/ SortAgain \/ SortDiscarded
  <2>1. statement \in {"none", "sort"} /\ statement' \in {"none", "sort"} /\ m_batch' = m_batch
    BY <1>7 DEF SortBegins, SortAgain, SortDiscarded, StatementEnds, Begins
  <2>. QED  BY <1>2, <2>1 DEF TableInv, BatchRight
<1>8. CASE SortNext
  <2>1. statement = "sort" /\ statement' = statement /\ m_batch' = m_batch
    BY <1>8 DEF SortNext
  <2>. QED  BY <1>2, <2>1 DEF TableInv, BatchRight
<1>9. CASE UNCHANGED tableVars
  <2>1. statement' = statement /\ m_batch' = m_batch /\ child' = child /\ m_iCurrent' = m_iCurrent
    BY <1>9 DEF tableVars
  <2>2. BatchRight'
    BY <2>1 DEF TableInv, BatchRight, Progress
  <2>. QED  BY <1>2, <2>1, <2>2 DEF TableInv
<1>. QED  BY <1>3, <1>4, <1>5, <1>6, <1>7, <1>8, <1>9

\* TableInv holds in every state.
THEOREM TableInvariant ==
  ASSUME KeyTypesAgree, EntriesTold
  PROVE  TableSpec => []TableInv
<1>1. TableInit => TableInv
  <2>. SUFFICES ASSUME TableInit PROVE TableInv
    OBVIOUS
  <2>1. store = {} /\ rows = {} /\ statement = "none" /\ m_batch = <<>>
    BY DEF TableInit
  <2>. QED  BY <2>1, FS_EmptySet DEF TableInv, BatchRight, DistinctKeys, Entries
<1>2. TableInv /\ [TableNext]_<<vars, tableVars>> => TableInv'
  <2>. SUFFICES ASSUME TableInv, [TableNext]_<<vars, tableVars>> PROVE TableInv'
    OBVIOUS
  <2>1. CASE InsertNext
    BY <2>1, NextKeepsTable
  <2>2. CASE InsertEnds
    BY <2>2, EndKeepsTable
  <2>3. CASE \E entry \in store : Delete(entry)
    BY <2>3, DeleteKeepsTable
  <2>4. CASE \/ InsertBegins \/ InsertFails \/ CommitFails \/ InsertAgain \/ InsertDiscarded
             \/ SortBegins \/ SortNext \/ SortAgain \/ SortDiscarded \/ UNCHANGED tableVars
    BY <2>4, RestKeepsTable
  <2>5. CASE SortAborts \/ SortFails \/ SortEnds
    <3>1. UNCHANGED tableVars
      BY <2>5 DEF SortAborts, SortFails, SortEnds
    <3>. QED  BY <3>1, RestKeepsTable
  <2>. QED  BY <2>1, <2>2, <2>3, <2>4, <2>5 DEF TableNext
<1>. QED  BY <1>1, <1>2, PTL DEF TableSpec

\* StoreRight: a scan finds the rows that have been inserted and neither replaced
\* nor deleted, column by column and in the order of their keys, for any table
\* whose key names its columns in the order of the table and any rows whose
\* columns getSize can tell apart, whatever commits fail and are repeated; and a
\* row that fits its columns is never refused (LevelDBInsertPlan::next,
\* KeyComparator::Compare, LevelDBScanPlan::next).
THEOREM StoreTheorem ==
  ASSUME KeyTypesAgree, EntriesTold
  PROVE  TableSpec => []StoreRight
<1>1. TableInv => StoreRight
  <2>. SUFFICES ASSUME TableInv PROVE StoreRight
    OBVIOUS
  <2>1. /\ Range(Scan) = rows /\ Len(Scan) = Cardinality(rows)
        /\ \A j, k \in DOMAIN Scan : j < k => RowLess(ScanKeyTypes, KeyResults(Scan[j]), KeyResults(Scan[k]))
    BY ScanRight DEF TableInv
  <2>. QED  BY <2>1, NeverRefused DEF StoreRight
<1>. QED  BY <1>1, TableInvariant, PTL

-----------------------------------------------------------------------------
(* Sorts of a table                                                         *)

\* What a sort reads are rows.
SortReads == statement = "sort" => child \in Seq(RowValues) /\ m_iCurrent \in Nat

\* The statements of a table do to the sort buffer only what ExecutionBuffer says
\* of it: a sort copies the rows that the scan has found, or those of a VALUES
\* list, and the other statements do not touch it (SortPlan::begin).
THEOREM SortTheorem ==
  ASSUME KeyTypesAgree, EntriesTold
  PROVE  TableSpec => Spec
<1>1. TableInit => Init /\ SortReads
  BY DEF TableInit, SortReads
<1>2. TableInv /\ SortReads /\ [TableNext]_<<vars, tableVars>> => SortReads' /\ [Next]_vars
  <2>. SUFFICES ASSUME TableInv, SortReads, [TableNext]_<<vars, tableVars>>
                PROVE  SortReads' /\ [Next]_vars
    OBVIOUS
  <2>1. CASE SortBegins
    <3>1. PICK input \in {Scan} \cup Literals : Begins("sort", input)
      BY <2>1 DEF SortBegins
    <3>2. Scan \in Seq(RowValues)
      BY ScanRight DEF TableInv
    <3>3. input \in Seq(RowValues)
      BY <3>2, TableAssumption
    <3>4. SortReads'
      BY <3>1, <3>3 DEF Begins, SortReads
    <3>. QED  BY <2>1, <3>4 DEF SortBegins, Next
  <2>2. CASE SortNext
    <3>. DEFINE row == child[m_iCurrent + 1]
    <3>1. /\ child \in Seq(RowValues) /\ m_iCurrent \in Nat /\ m_iCurrent < Len(child)
          /\ child' = child /\ m_iCurrent' = m_iCurrent + 1
      BY <2>2 DEF SortNext, SortReads
    <3>2. SortReads'
      BY <3>1 DEF SortReads
    <3>3. row \in RowValues
      BY <3>1
    <3>4. CopyRow(row) \/ AllocFails(row) \/ NoBlock(row) \/ CopyFails(row)
      BY <2>2 DEF SortNext
    <3>. HIDE DEF row
    <3>. QED  BY <3>2, <3>3, <3>4 DEF Next
  <2>3. CASE SortDiscarded
    BY <2>3 DEF SortDiscarded, StatementEnds, Begins, SortReads, Next
  <2>4. CASE \/ InsertBegins \/ InsertNext \/ InsertFails \/ InsertEnds \/ CommitFails \/ InsertAgain \/ InsertDiscarded
             \/ \E entry \in store : Delete(entry)
    <3>1. statement' # "sort" /\ UNCHANGED vars
      BY <2>4 DEF InsertBegins, InsertNext, InsertFails, InsertEnds, CommitFails, InsertAgain, InsertDiscarded,
                  Delete, StatementEnds, Begins
    <3>. QED  BY <3>1 DEF SortReads
  <2>4a. CASE SortAgain
    BY <2>4a DEF SortAgain, Begins, SortReads, Next
  <2>4b. CASE SortAborts \/ SortFails \/ SortEnds
    BY <2>4b DEF SortAborts, SortFails, SortEnds, tableVars, SortReads, Next
  <2>5. CASE UNCHANGED <<vars, tableVars>>
    BY <2>5 DEF tableVars, SortReads
  <2>. QED  BY <2>1, <2>2, <2>3, <2>4, <2>4a, <2>4b, <2>5 DEF TableNext
<1>. QED  BY <1>1, <1>2, TableInvariant, PTL DEF TableSpec, Spec
=============================================================================
