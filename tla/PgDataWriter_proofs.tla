------------------------- MODULE PgDataWriter_proofs -------------------------
(***************************************************************************)
(* Proofs about PgDataWriter: what the client reads from the bytes that    *)
(* were written is the result, and every answer consists of whole messages *)
(* in the order of this server, for results, texts and buffers of any size.*)
(***************************************************************************)
EXTENDS PgDataWriter, FoldLemmas, SequenceTheorems

-----------------------------------------------------------------------------
(* Sequences                                                                *)

\* Two sequences of the same length and elements are the same.
LEMMA SameElements ==
  ASSUME NEW A, NEW B, NEW a \in Seq(A), NEW b \in Seq(B), Len(a) = Len(b), \A i \in 1..Len(a) : a[i] = b[i]
  PROVE  a = b
OBVIOUS

\* A concatenation, and a part of a sequence
LEMMA Joined ==
  ASSUME NEW A, NEW s \in Seq(A), NEW t \in Seq(A)
  PROVE  /\ s \o t \in Seq(A) /\ Len(s \o t) = Len(s) + Len(t)
         /\ \A i \in 1..Len(s) : (s \o t)[i] = s[i]
<1>1. /\ s \o t \in Seq(A) /\ Len(s \o t) = Len(s) + Len(t)
      /\ \A i \in 1..(Len(s) + Len(t)) : (s \o t)[i] = IF i <= Len(s) THEN s[i] ELSE t[i - Len(s)]
  BY ConcatProperties
<1>2. Len(s) \in Nat /\ Len(t) \in Nat
  OBVIOUS
<1>. DEFINE m == Len(s)
            n == Len(t)
            st == s \o t
<1>. HIDE DEF m, n, st
<1>3. m \in Nat /\ n \in Nat /\ \A i \in 1..(m + n) : st[i] = IF i <= m THEN s[i] ELSE t[i - m]
  BY <1>1, <1>2 DEF m, n, st
<1>4. \A i \in 1..m : st[i] = s[i]
  BY <1>3
<1>. QED  BY <1>1, <1>4 DEF m, n, st

\* The end of two joined sequences is the second.
LEMMA JoinedEnd ==
  ASSUME NEW A, NEW s \in Seq(A), NEW t \in Seq(A), NEW i \in 1..Len(t)
  PROVE  (s \o t)[Len(s) + i] = t[i]
<1>1. \A k \in 1..(Len(s) + Len(t)) : (s \o t)[k] = IF k <= Len(s) THEN s[k] ELSE t[k - Len(s)]
  BY ConcatProperties
<1>2. Len(s) \in Nat /\ Len(t) \in Nat
  OBVIOUS
<1>. DEFINE m == Len(s)
            st == s \o t
<1>. HIDE DEF m, st
<1>3. m \in Nat /\ m + i \in 1..(m + Len(t)) /\ ~(m + i <= m) /\ m + i - m = i
  BY <1>2 DEF m
<1>4. st[m + i] = t[i]
  BY <1>1, <1>3 DEF m, st
<1>. QED  BY <1>4 DEF m, st

\* A part in the middle of a sequence
LEMMA Part ==
  ASSUME NEW A, NEW s \in Seq(A), NEW k \in Nat, NEW n \in Nat, k + n <= Len(s)
  PROVE  /\ SubSeq(s, k + 1, k + n) \in Seq(A) /\ Len(SubSeq(s, k + 1, k + n)) = n
         /\ \A i \in 1..n : SubSeq(s, k + 1, k + n)[i] = s[k + i]
<1>. DEFINE b == SubSeq(s, k + 1, k + n)
<1>1. b = [i \in 1..((k + n) - (k + 1) + 1) |-> s[i + (k + 1) - 1]]
  OBVIOUS
<1>2. (k + n) - (k + 1) + 1 = n /\ \A i \in 1..n : i + (k + 1) - 1 = k + i
  OBVIOUS
<1>. HIDE DEF b
<1>3. b = [i \in 1..n |-> s[k + i]]
  BY <1>1, <1>2
<1>4. \A i \in 1..n : k + i \in 1..Len(s)
  OBVIOUS
<1>5. \A i \in 1..n : s[k + i] \in A
  BY <1>4
<1>6. b \in Seq(A) /\ Len(b) = n /\ \A i \in 1..n : b[i] = s[k + i]
  BY <1>3, <1>5
<1>. QED  BY <1>6 DEF b

\* The whole and the head of a sequence
LEMMA HeadPart ==
  ASSUME NEW A, NEW s \in Seq(A), NEW e \in Seq(A), Len(e) <= Len(s), \A i \in 1..Len(e) : s[i] = e[i]
  PROVE  SubSeq(s, 1, Len(e)) = e
<1>. DEFINE k == 0
            n == Len(e)
            b == SubSeq(s, k + 1, k + n)
<1>1. k = 0 /\ k \in Nat /\ n \in Nat /\ k + n <= Len(s) /\ k + 1 = 1 /\ k + n = n
  OBVIOUS
<1>. HIDE DEF k
<1>2. b \in Seq(A) /\ Len(b) = n /\ \A i \in 1..n : b[i] = s[k + i]
  BY <1>1, Part
<1>. HIDE DEF b
<1>3. \A i \in 1..n : k + i = i
  BY <1>1
<1>4. Len(b) = Len(e) /\ \A i \in 1..Len(b) : b[i] = e[i]
  BY <1>2, <1>3
<1>5. b = e
  BY <1>2, <1>4, SameElements
<1>. QED  BY <1>1, <1>5 DEF b

\* A sequence is the part from its first element to its last.
LEMMA WholePart ==
  ASSUME NEW A, NEW s \in Seq(A)
  PROVE  SubSeq(s, 1, Len(s)) = s /\ 1 \in 1..(Len(s) + 1)
<1>1. Len(s) \in Nat
  OBVIOUS
<1>. QED  BY <1>1, HeadPart

-----------------------------------------------------------------------------
(* Numbers                                                                  *)

\* The bytes of a number
LEMMA ByteNumbers ==
  ASSUME NEW b \in Byte
  PROVE  b \in Nat
BY SMT DEF Byte

\* The bytes of a number of two bytes
LEMMA ShortBytes ==
  ASSUME NEW v \in Int
  PROVE  /\ Int16(v) \in Seq(Byte) /\ Len(Int16(v)) = 2
         /\ Int16(v)[1] = (v \div 256) % 256 /\ Int16(v)[2] = v % 256
<1>. DEFINE c == (v \div 256) % 256
            d == v % 256
<1>1. c \in Byte /\ d \in Byte
  BY SMT DEF Byte
<1>2. Int16(v) = <<c, d>>
  BY DEF Int16
<1>. HIDE DEF c, d
<1>3. <<c, d>> \in Seq(Byte) /\ Len(<<c, d>>) = 2 /\ <<c, d>>[1] = c /\ <<c, d>>[2] = d
  BY <1>1
<1>4. Int16(v) \in Seq(Byte) /\ Len(Int16(v)) = 2 /\ Int16(v)[1] = c /\ Int16(v)[2] = d
  BY <1>2, <1>3
<1>. QED  BY <1>4 DEF c, d

\* The bytes of a number of four bytes
LEMMA LongBytes ==
  ASSUME NEW v \in Int
  PROVE  /\ Int32(v) \in Seq(Byte) /\ Len(Int32(v)) = 4
         /\ Int32(v)[1] = (v \div 16777216) % 256 /\ Int32(v)[2] = (v \div 65536) % 256
         /\ Int32(v)[3] = (v \div 256) % 256 /\ Int32(v)[4] = v % 256
<1>. DEFINE a == (v \div 16777216) % 256
            b == (v \div 65536) % 256
            c == (v \div 256) % 256
            d == v % 256
<1>1. a \in Byte /\ b \in Byte /\ c \in Byte /\ d \in Byte
  BY SMT DEF Byte
<1>2. Int32(v) = <<a, b, c, d>>
  BY SMT DEF Int32
<1>. HIDE DEF a, b, c, d
<1>3. /\ <<a, b, c, d>> \in Seq(Byte) /\ Len(<<a, b, c, d>>) = 4
      /\ <<a, b, c, d>>[1] = a /\ <<a, b, c, d>>[2] = b /\ <<a, b, c, d>>[3] = c /\ <<a, b, c, d>>[4] = d
  BY <1>1, SMT
<1>4. /\ Int32(v) \in Seq(Byte) /\ Len(Int32(v)) = 4
      /\ Int32(v)[1] = a /\ Int32(v)[2] = b /\ Int32(v)[3] = c /\ Int32(v)[4] = d
  BY <1>2, <1>3
<1>. QED  BY <1>4, SMT DEF a, b, c, d

\* A number is written as four bytes.
LEMMA LongType ==
  ASSUME NEW v \in Int
  PROVE  Int32(v) \in Seq(Byte) /\ Len(Int32(v)) = 4
BY LongBytes, SMT

\* The lengths that four bytes can tell from null
Readable == {v \in Nat : v < 4294967295}

\* What is written as a number is read as the same number, unless it is too large
\* for its bytes.
LEMMA ShortRead ==
  ASSUME NEW v \in Nat, v < 65536, NEW bytes, NEW p \in Nat,
         bytes[p] = Int16(v)[1], bytes[p + 1] = Int16(v)[2]
  PROVE  Short(bytes, p) = v
<1>. DEFINE a == v \div 256
            d == v % 256
<1>1. a \in Nat /\ a < 256 /\ d \in Nat /\ v = 256 * a + d
  BY SMT
<1>2. a % 256 = a
  BY <1>1, SMT
<1>3. Int16(v)[1] = a % 256 /\ Int16(v)[2] = d
  BY ShortBytes
<1>. HIDE DEF a, d
<1>4. bytes[p] = a /\ bytes[p + 1] = d
  BY <1>2, <1>3
<1>. QED  BY <1>1, <1>4 DEF Short

\* What Int32 writes is what Long reads (htonl and ntohl).
LEMMA LongRead ==
  ASSUME NEW v \in Readable, NEW bytes, NEW p \in Nat,
         bytes[p] = Int32(v)[1], bytes[p + 1] = Int32(v)[2],
         bytes[p + 2] = Int32(v)[3], bytes[p + 3] = Int32(v)[4]
  PROVE  Long(bytes, p) = v
<1>. DEFINE a == v \div 16777216
            b == v \div 65536
            c == v \div 256
            y == b % 256
            z == c % 256
            d == v % 256
<1>1. v \in Nat /\ v < 4294967295
  BY SMT DEF Readable
<1>2. a \in Nat /\ a < 256 /\ b \in Nat /\ c \in Nat
  BY <1>1, SMT
<1>3. c = 256 * b + z
  BY <1>1, SMT
<1>4. b = 256 * a + y
  BY <1>1, SMT
<1>5. v = 256 * c + d
  BY <1>1, SMT
<1>6. a % 256 = a /\ y \in Nat /\ z \in Nat /\ d \in Nat
  BY <1>1, <1>2, SMT
<1>7. Int32(v)[1] = a % 256 /\ Int32(v)[2] = y /\ Int32(v)[3] = z /\ Int32(v)[4] = d
  BY <1>1, LongBytes, SMT
<1>. HIDE DEF a, b, c, d, y, z
<1>8. bytes[p] = a /\ bytes[p + 1] = y /\ bytes[p + 2] = z /\ bytes[p + 3] = d
  BY <1>6, <1>7
<1>9. Long(bytes, p) = 65536 * (256 * a + y) + (256 * z + d)
  <2>1. p + 2 + 1 = p + 3
    OBVIOUS
  <2>. QED  BY <1>8, <2>1, SMT DEF Long, Short
<1>. QED  BY <1>1, <1>2, <1>3, <1>4, <1>5, <1>6, <1>9, SMT

\* Only -1 is written as -1, which stands for null.
LEMMA NullRead ==
  ASSUME NEW v \in Readable
  PROVE  Int32(v) # Int32(-1)
<1>1. -1 \in Int /\ (-1) + 1 = 0
  BY SMT
<1>2. ASSUME NEW a \in Int, a + 1 = 0
      PROVE  Int32(a) \in Seq(Byte) /\ Len(Int32(a)) = 4 /\ \A i \in 1..4 : Int32(a)[i] = 255
  <2>1. a \div 16777216 = a /\ a \div 65536 = a /\ a \div 256 = a /\ a % 256 = 255
    BY <1>2, SMT
  <2>2. Int32(a) = <<255, 255, 255, 255>>
    BY <2>1, SMT DEF Int32
  <2>3. 255 \in Byte
    BY DEF Byte
  <2>. QED  BY <2>2, <2>3
<1>3. SUFFICES ASSUME Int32(v) = Int32(-1) PROVE FALSE
  OBVIOUS
<1>4. Long(Int32(-1), 1) = 4294967295
  BY <1>1, <1>2, SMT DEF Long, Short
<1>5. Long(Int32(-1), 1) = v /\ v # 4294967295
  <2>1. v # 4294967295
    BY SMT DEF Readable
  <2>2. Long(Int32(-1), 1) = v
    BY <1>3, LongRead
  <2>. QED  BY <2>1, <2>2, SMT
<1>. QED  BY <1>4, <1>5, SMT

-----------------------------------------------------------------------------
(* Recursive definitions                                                    *)

\* A loop over n elements, whose step does not leave a set
Loop(f, n, A, base, next) ==
  f \in [0..n -> A] /\ f[0] = base /\ \A k \in 1..n : f[k] = next[<<f[k - 1], k>>]

\* A loop from a first value has a function of its values.
LEMMA Recursion ==
  ASSUME NEW n \in Nat, NEW A, NEW base \in A, NEW next, \A a \in A, k \in 1..n : next[<<a, k>>] \in A
  PROVE  \E f : Loop(f, n, A, base, next)
<1>. DEFINE step == [x \in A \X (1..n) |-> next[x]]
<1>0. step \in [A \X (1..n) -> A] /\ \A a \in A, k \in 1..n : step[<<a, k>>] = next[<<a, k>>]
  OBVIOUS
<1>. HIDE DEF step
<1>1. PICK iter : Folds(step, base, iter, SUBSET (1..n)) /\ \A s \in SUBSET (1..n) : iter[s] \in A
  BY <1>0, FoldExists, Zenon
<1>. DEFINE f == [k \in 0..n |-> iter[1..k]]
<1>2. \A k \in 0..n : 1..k \in SUBSET (1..n)
  OBVIOUS
<1>3. f \in [0..n -> A]
  BY <1>1, <1>2
<1>4. ASSUME NEW k \in 0..n
      PROVE  f[k] = IF k = 0 THEN base ELSE step[<<f[k - 1], k>>]
  <2>1. CASE k = 0
    <3>1. 1..k = {}
      BY <2>1
    <3>2. iter[{}] = base
      BY <1>1 DEF Folds
    <3>. QED  BY <2>1, <3>1, <3>2
  <2>2. CASE k # 0
    <3>. DEFINE m == k - 1
    <3>1. m \in Nat /\ m + 1 = k /\ m \in 0..n
      BY <2>2
    <3>. HIDE DEF m
    <3>2. Max(1..(m + 1)) = m + 1 /\ (1..(m + 1)) \ {m + 1} = 1..m /\ 1..(m + 1) # {}
      BY <3>1, LastIndex
    <3>3. Max(1..k) = k /\ (1..k) \ {k} = 1..m /\ 1..k # {} /\ 1..k \in SUBSET (1..n)
      BY <1>2, <3>1, <3>2
    <3>4. iter[1..k] = step[<<iter[(1..k) \ {Max(1..k)}], Max(1..k)>>]
      BY <1>1, <3>3 DEF Folds
    <3>5. f[k] = step[<<f[m], k>>]
      BY <3>1, <3>3, <3>4
    <3>. QED  BY <2>2, <3>5 DEF m
  <2>. QED  BY <2>1, <2>2
<1>5. f[0] = base
  <2>1. 0 \in 0..n
    OBVIOUS
  <2>. HIDE DEF f
  <2>. QED  BY <1>4, <2>1
<1>6. ASSUME NEW k \in 1..n PROVE f[k] = next[<<f[k - 1], k>>]
  <2>1. k \in 0..n /\ k # 0 /\ k - 1 \in 0..n
    OBVIOUS
  <2>. HIDE DEF f
  <2>2. f[k] = step[<<f[k - 1], k>>] /\ f[k - 1] \in A
    BY <1>3, <1>4, <2>1
  <2>. QED  BY <1>0, <2>2
<1>. HIDE DEF f
<1>. QED  BY <1>3, <1>5, <1>6 DEF Loop

\* A parser that takes one item after the other off a sequence, from a position on
Parses(f, s, bad, last, item, width) ==
  f = [p \in 1..(Len(s) + 1) |->
         LET rest == SubSeq(s, p, Len(s)) IN
         IF rest = <<>> THEN <<>>
         ELSE IF rest \in bad THEN last
         ELSE <<item[rest]>> \o f[p + width[rest]]]

\* What is left of a sequence
LEMMA Rests ==
  ASSUME NEW A, NEW s \in Seq(A), NEW p \in 1..(Len(s) + 1)
  PROVE  /\ SubSeq(s, p, Len(s)) \in Seq(A) /\ Len(SubSeq(s, p, Len(s))) = Len(s) - p + 1
         /\ SubSeq(s, p, Len(s)) = <<>> <=> p = Len(s) + 1
         /\ \A i \in 1..(Len(s) - p + 1) : SubSeq(s, p, Len(s))[i] = s[p + i - 1]
<1>. DEFINE m == Len(s) - p + 1
<1>1. Len(s) \in Nat /\ p \in Nat /\ p >= 1 /\ m \in Nat /\ (m = 0 <=> p = Len(s) + 1)
  OBVIOUS
<1>2. SubSeq(s, p, Len(s)) = [i \in 1..m |-> s[i + p - 1]]
  BY <1>1
<1>3. \A i \in 1..m : s[i + p - 1] \in A /\ s[i + p - 1] = s[p + i - 1]
  BY <1>1
<1>. HIDE DEF m
<1>4. SubSeq(s, p, Len(s)) \in Seq(A) /\ Len(SubSeq(s, p, Len(s))) = m
  BY <1>1, <1>2, <1>3
<1>5. SubSeq(s, p, Len(s)) = <<>> <=> m = 0
  BY <1>4, EmptySeq
<1>6. \A i \in 1..m : SubSeq(s, p, Len(s))[i] = s[p + i - 1]
  BY <1>2, <1>3
<1>. QED  BY <1>1, <1>4, <1>5, <1>6 DEF m

\* A parser exists, if what it takes is not empty and there.
LEMMA ParserExists ==
  ASSUME NEW A, NEW s \in Seq(A), NEW bad, NEW last, NEW item, NEW width,
         \A r \in Seq(A) : r # <<>> /\ r \notin bad => width[r] \in 1..Len(r)
  PROVE  \E f : Parses(f, s, bad, last, item, width)
<1>. DEFINE n == Len(s)
            rest(p) == SubSeq(s, p, n)
            From(m) == (n + 1 - m)..(n + 1)
            Step(f, p) == IF rest(p) = <<>> THEN <<>>
                          ELSE IF rest(p) \in bad THEN last ELSE <<item[rest(p)]>> \o f[p + width[rest(p)]]
            Good == {m \in Nat : m <= n => \E f : f = [p \in From(m) |-> Step(f, p)]}
<1>1. n \in Nat
  OBVIOUS
<1>2. ASSUME NEW p \in 1..(n + 1)
      PROVE  /\ rest(p) \in Seq(A) /\ (rest(p) = <<>> <=> p = n + 1)
             /\ rest(p) # <<>> /\ rest(p) \notin bad => p + width[rest(p)] \in (p + 1)..(n + 1)
  <2>1. rest(p) \in Seq(A) /\ Len(rest(p)) = n - p + 1 /\ (rest(p) = <<>> <=> p = n + 1)
    BY Rests
  <2>2. rest(p) # <<>> /\ rest(p) \notin bad => width[rest(p)] \in 1..(n - p + 1)
    BY <2>1
  <2>. QED  BY <1>1, <2>1, <2>2
<1>. HIDE DEF n, rest
<1>3. 0 \in Good
  <2>. DEFINE f == [p \in From(0) |-> <<>>]
  <2>1. \A p \in From(0) : p = n + 1
    BY <1>1
  <2>2. \A p \in From(0) : rest(p) = <<>>
    BY <1>1, <1>2, <2>1
  <2>3. f = [p \in From(0) |-> Step(f, p)]
    BY <2>2
  <2>. QED  BY <2>3
<1>4. ASSUME NEW m \in Nat, m \in Good PROVE m + 1 \in Good
  <2>. SUFFICES ASSUME m + 1 <= n PROVE \E f : f = [p \in From(m + 1) |-> Step(f, p)]
    BY <1>4
  <2>1. PICK f : f = [p \in From(m) |-> Step(f, p)]
    BY <1>1, <1>4
  <2>. DEFINE g == [p \in From(m + 1) |-> Step(f, p)]
  <2>2. \A p \in From(m) : p \in From(m + 1)
    BY <1>1
  <2>3. \A p \in From(m) : g[p] = f[p]
    <3>. HIDE DEF Step, From
    <3>1. \A p \in From(m) : f[p] = Step(f, p)
      BY <2>1
    <3>. QED  BY <2>2, <3>1
  <2>4. ASSUME NEW p \in From(m + 1) PROVE Step(f, p) = Step(g, p)
    <3>1. p \in 1..(n + 1) /\ p >= n - m /\ p \in Nat
      BY <1>1
    <3>2. CASE rest(p) # <<>> /\ rest(p) \notin bad
      <4>1. p + width[rest(p)] \in (p + 1)..(n + 1)
        BY <1>2, <3>1, <3>2
      <4>2. p + width[rest(p)] \in From(m)
        BY <1>1, <3>1, <4>1
      <4>3. g[p + width[rest(p)]] = f[p + width[rest(p)]]
        BY <2>3, <4>2
      <4>. HIDE DEF g
      <4>. QED  BY <3>2, <4>3
    <3>. HIDE DEF g, From
    <3>. QED  BY <3>2
  <2>5. g = [p \in From(m + 1) |-> Step(g, p)]
    <3>. HIDE DEF Step, From
    <3>. QED  BY <2>4
  <2>. HIDE DEF g
  <2>. QED  BY <2>5
<1>. HIDE DEF Good
<1>5. n \in Good
  BY <1>1, <1>3, <1>4, Induction
<1>6. From(n) = 1..(n + 1)
  BY <1>1
<1>. QED  BY <1>1, <1>5, <1>6 DEF Good, Parses, n, rest

\* A parser from a position on does what it does with the rest alone.
LEMMA ParserOnRest ==
  ASSUME NEW A, NEW s \in Seq(A), NEW bad, NEW last, NEW item, NEW width,
         \A r \in Seq(A) : r # <<>> /\ r \notin bad => width[r] \in 1..Len(r),
         NEW k \in Nat, NEW t \in Seq(A), Len(s) = k + Len(t), \A i \in 1..Len(t) : s[k + i] = t[i],
         NEW f, Parses(f, s, bad, last, item, width), NEW g, Parses(g, t, bad, last, item, width)
  PROVE  f[k + 1] = g[1]
<1>. DEFINE d == Len(t)
            rest(j) == SubSeq(t, j + 1, d)
            Good == {m \in Nat : \A j \in 0..d : j + m >= d => f[k + j + 1] = g[j + 1]}
<1>1. d \in Nat /\ Len(s) = k + d
  OBVIOUS
<1>2. ASSUME NEW j \in 0..d
      PROVE  SubSeq(s, k + j + 1, Len(s)) = rest(j) /\ rest(j) \in Seq(A) /\ Len(rest(j)) = d - j
  <2>. DEFINE a == SubSeq(s, k + j + 1, Len(s))
              b == SubSeq(t, j + 1, Len(t))
              m == d - j
  <2>1. j \in Nat /\ m \in Nat /\ k + j + 1 \in 1..(Len(s) + 1) /\ j + 1 \in 1..(Len(t) + 1)
        /\ Len(s) - (k + j + 1) + 1 = m /\ Len(t) - (j + 1) + 1 = m
    BY <1>1
  <2>2. a \in Seq(A) /\ Len(a) = m /\ \A i \in 1..m : a[i] = s[(k + j + 1) + i - 1]
    <3>1. /\ a \in Seq(A) /\ Len(a) = Len(s) - (k + j + 1) + 1
          /\ \A i \in 1..(Len(s) - (k + j + 1) + 1) : a[i] = s[(k + j + 1) + i - 1]
      BY <2>1, Rests, Zenon
    <3>. HIDE DEF a, m
    <3>. QED  BY <2>1, <3>1, Zenon
  <2>3. b \in Seq(A) /\ Len(b) = m /\ \A i \in 1..m : b[i] = t[(j + 1) + i - 1]
    <3>1. /\ b \in Seq(A) /\ Len(b) = Len(t) - (j + 1) + 1
          /\ \A i \in 1..(Len(t) - (j + 1) + 1) : b[i] = t[(j + 1) + i - 1]
      BY <2>1, Rests, Zenon
    <3>. HIDE DEF b, m
    <3>. QED  BY <2>1, <3>1, Zenon
  <2>4. ASSUME NEW i \in 1..m PROVE s[(k + j + 1) + i - 1] = t[(j + 1) + i - 1]
    <3>1. j + i \in 1..Len(t) /\ (k + j + 1) + i - 1 = k + (j + i) /\ (j + 1) + i - 1 = j + i
      BY <1>1, <2>1
    <3>. QED  BY <3>1
  <2>5. \A i \in 1..m : a[i] = b[i]
    BY <2>2, <2>3, <2>4
  <2>. HIDE DEF a, b, m
  <2>6. a = b
    BY <2>2, <2>3, <2>5, SameElements
  <2>. QED  BY <2>3, <2>6 DEF a, b, m
<1>3. ASSUME NEW j \in 0..d
      PROVE  /\ rest(j) = <<>> => f[k + j + 1] = <<>> /\ g[j + 1] = <<>>
             /\ rest(j) # <<>> /\ rest(j) \in bad => f[k + j + 1] = last /\ g[j + 1] = last
             /\ rest(j) # <<>> /\ rest(j) \notin bad =>
                  /\ width[rest(j)] \in 1..(d - j)
                  /\ f[k + j + 1] = <<item[rest(j)]>> \o f[k + j + 1 + width[rest(j)]]
                  /\ g[j + 1] = <<item[rest(j)]>> \o g[j + 1 + width[rest(j)]]
  <2>1. k + j + 1 \in 1..(Len(s) + 1) /\ j + 1 \in 1..(Len(t) + 1)
    BY <1>1
  <2>2. f[k + j + 1] = IF rest(j) = <<>> THEN <<>> ELSE IF rest(j) \in bad THEN last
                       ELSE <<item[rest(j)]>> \o f[k + j + 1 + width[rest(j)]]
    <3>1. f[k + j + 1] =
            LET r == SubSeq(s, k + j + 1, Len(s)) IN
            IF r = <<>> THEN <<>> ELSE IF r \in bad THEN last ELSE <<item[r]>> \o f[k + j + 1 + width[r]]
      BY <2>1 DEF Parses
    <3>2. SubSeq(s, k + j + 1, Len(s)) = rest(j)
      BY <1>2
    <3>. HIDE DEF rest
    <3>. QED  BY <3>1, <3>2, Zenon
  <2>3. g[j + 1] = IF rest(j) = <<>> THEN <<>> ELSE IF rest(j) \in bad THEN last
                   ELSE <<item[rest(j)]>> \o g[j + 1 + width[rest(j)]]
    BY <2>1 DEF Parses
  <2>4. rest(j) # <<>> /\ rest(j) \notin bad => width[rest(j)] \in 1..(d - j)
    BY <1>2
  <2>. HIDE DEF rest
  <2>5. CASE rest(j) = <<>>
    BY <2>2, <2>3, <2>5
  <2>6. CASE rest(j) # <<>> /\ rest(j) \in bad
    BY <2>2, <2>3, <2>6
  <2>7. CASE rest(j) # <<>> /\ rest(j) \notin bad
    BY <2>2, <2>3, <2>4, <2>7
  <2>. QED  BY <2>5, <2>6, <2>7, Zenon
<1>. HIDE DEF d, rest
<1>4. 0 \in Good
  <2>. SUFFICES ASSUME NEW j \in 0..d, j >= d PROVE f[k + j + 1] = g[j + 1]
    BY <1>1
  <2>1. Len(rest(j)) = 0
    BY <1>1, <1>2
  <2>2. rest(j) = <<>>
    BY <1>2, <2>1, EmptySeq
  <2>3. f[k + j + 1] = <<>> /\ g[j + 1] = <<>>
    BY <1>3, <2>2
  <2>. QED  BY <2>3
<1>5. ASSUME NEW m \in Nat, m \in Good PROVE m + 1 \in Good
  <2>. SUFFICES ASSUME NEW j \in 0..d, j + (m + 1) >= d PROVE f[k + j + 1] = g[j + 1]
    BY <1>1
  <2>1. CASE rest(j) # <<>> /\ rest(j) \notin bad
    <3>. DEFINE i == j + width[rest(j)]
    <3>0. width[rest(j)] \in 1..(d - j)
      BY <1>3, <2>1, Zenon
    <3>1. j \in Nat /\ width[rest(j)] \in 1..(d - j)
      BY <1>1, <3>0
    <3>. DEFINE w == width[rest(j)]
    <3>2. i \in 0..d /\ i + m >= d /\ k + j + 1 + w = k + i + 1 /\ j + 1 + w = i + 1
      <4>. HIDE DEF w
      <4>1. d \in Nat /\ j \in Nat /\ j <= d /\ w \in Int /\ w >= 1 /\ w <= d - j /\ i = j + w /\ j + (m + 1) >= d
        BY <1>1, <3>1 DEF w
      <4>. HIDE DEF i
      <4>. QED  BY <4>1
    <3>3. f[k + i + 1] = g[i + 1]
      BY <1>5, <3>2
    <3>. HIDE DEF i
    <3>4. f[k + j + 1] = <<item[rest(j)]>> \o f[k + i + 1] /\ g[j + 1] = <<item[rest(j)]>> \o g[i + 1]
      BY <1>3, <2>1, <3>2, Zenon
    <3>. QED  BY <3>3, <3>4, Zenon
  <2>2. CASE rest(j) = <<>>
    <3>1. f[k + j + 1] = <<>> /\ g[j + 1] = <<>>
      BY <1>3, <2>2
    <3>. QED  BY <3>1
  <2>3. CASE rest(j) # <<>> /\ rest(j) \in bad
    <3>1. f[k + j + 1] = last /\ g[j + 1] = last
      BY <1>3, <2>3
    <3>. QED  BY <3>1
  <2>. QED  BY <2>1, <2>2, <2>3
<1>. HIDE DEF Good
<1>6. d \in Good
  BY <1>1, <1>4, <1>5, Induction
<1>7. f[k + 0 + 1] = g[0 + 1]
  BY <1>1, <1>6 DEF Good
<1>. QED  BY <1>7

-----------------------------------------------------------------------------
(* What the client reads                                                    *)

\* The bytes of a message
Encoded(type, body) == <<type>> \o (Int32(4 + Len(body)) \o body)

\* The bytes of a message: its type, its length and its body
LEMMA EncodedBytes ==
  ASSUME NEW type \in Byte, NEW body \in Seq(Byte)
  PROVE  /\ Encoded(type, body) \in Seq(Byte) /\ Len(Encoded(type, body)) = 5 + Len(body)
         /\ Encoded(type, body)[1] = type
         /\ \A i \in 1..4 : Encoded(type, body)[1 + i] = Int32(4 + Len(body))[i]
         /\ \A i \in 1..Len(body) : Encoded(type, body)[5 + i] = body[i]
<1>. DEFINE h == Int32(4 + Len(body))
            e == <<type>> \o (h \o body)
            n == Len(body)
<1>1. n \in Nat /\ 4 + n \in Int
  OBVIOUS
<1>2. h \in Seq(Byte) /\ Len(h) = 4
  BY <1>1, LongType
<1>. HIDE DEF h
<1>. DEFINE hb == h \o body
<1>3. /\ hb \in Seq(Byte) /\ Len(hb) = 4 + n
      /\ \A i \in 1..4 : hb[i] = h[i]
      /\ \A i \in 1..n : hb[4 + i] = body[i]
  <2>1. /\ hb \in Seq(Byte) /\ Len(hb) = Len(h) + Len(body)
        /\ \A i \in 1..Len(h) : hb[i] = h[i]
    BY <1>2, Joined
  <2>2. ASSUME NEW i \in 1..Len(body) PROVE hb[Len(h) + i] = body[i]
    <3>1. h \in Seq(Byte)
      BY <1>2
    <3>. QED  BY <3>1, JoinedEnd
  <2>. HIDE DEF hb
  <2>. QED  BY <1>2, <2>1, <2>2
<1>4. <<type>> \in Seq(Byte) /\ Len(<<type>>) = 1 /\ <<type>>[1] = type
  OBVIOUS
<1>. HIDE DEF hb, n
<1>5. /\ <<type>> \o hb \in Seq(Byte) /\ Len(<<type>> \o hb) = 1 + (4 + n)
      /\ \A i \in 1..1 : (<<type>> \o hb)[i] = <<type>>[i]
      /\ \A i \in 1..(4 + n) : (<<type>> \o hb)[1 + i] = hb[i]
  <2>1. /\ <<type>> \o hb \in Seq(Byte) /\ Len(<<type>> \o hb) = Len(<<type>>) + Len(hb)
        /\ \A i \in 1..Len(<<type>>) : (<<type>> \o hb)[i] = <<type>>[i]
    BY <1>3, <1>4, Joined
  <2>2. ASSUME NEW i \in 1..Len(hb) PROVE (<<type>> \o hb)[Len(<<type>>) + i] = hb[i]
    BY <1>3, <1>4, JoinedEnd
  <2>. QED  BY <1>3, <1>4, <2>1, <2>2
<1>6. e = <<type>> \o hb
  BY DEF hb
<1>. HIDE DEF e
<1>7. e \in Seq(Byte) /\ Len(e) = 5 + n /\ e[1] = type
  BY <1>1, <1>4, <1>5, <1>6
<1>8. \A i \in 1..4 : e[1 + i] = h[i]
  <2>1. \A i \in 1..4 : i \in 1..(4 + n)
    BY <1>1
  <2>. QED  BY <1>3, <1>5, <1>6, <2>1
<1>9. \A i \in 1..n : e[5 + i] = body[i]
  <2>1. \A i \in 1..n : 4 + i \in 1..(4 + n) /\ 1 + (4 + i) = 5 + i
    BY <1>1
  <2>. QED  BY <1>3, <1>5, <1>6, <2>1
<1>. QED  BY <1>7, <1>8, <1>9 DEF e, h, n, Encoded

\* The parser of messages
BadMessages  == {r \in Seq(Byte) : Len(r) < 5 \/ Long(r, 2) \notin 4..(Len(r) - 1)}
FirstMessage == [r \in Seq(Byte) |-> [type |-> r[1], body |-> SubSeq(r, 6, 1 + Long(r, 2))]]
MessageWidth == [r \in Seq(Byte) |-> 1 + Long(r, 2)]

\* Messages is such a parser.
LEMMA MessagesParsed ==
  ASSUME NEW s \in Seq(Byte)
  PROVE  \E f : Parses(f, s, BadMessages, <<Malformed>>, FirstMessage, MessageWidth) /\ Messages(s) = f[1]
<1>1. \A r \in Seq(Byte) : r # <<>> /\ r \notin BadMessages => MessageWidth[r] \in 1..Len(r)
  BY SMT DEF BadMessages, MessageWidth
<1>. DEFINE Step(f, p) ==
       LET rest == SubSeq(s, p, Len(s))
           len  == Long(rest, 2) IN
       IF rest = <<>> THEN <<>>
       ELSE IF Len(rest) < 5 \/ len \notin 4..(Len(rest) - 1) THEN <<Malformed>>
       ELSE <<[type |-> rest[1], body |-> SubSeq(rest, 6, 1 + len)]>> \o f[p + 1 + len]
<1>2. ASSUME NEW f, NEW p \in 1..(Len(s) + 1)
      PROVE  LET rest == SubSeq(s, p, Len(s)) IN
             Step(f, p) = IF rest = <<>> THEN <<>> ELSE IF rest \in BadMessages THEN <<Malformed>>
                          ELSE <<FirstMessage[rest]>> \o f[p + MessageWidth[rest]]
  <2>. DEFINE rest == SubSeq(s, p, Len(s))
              len  == Long(rest, 2)
  <2>1. rest \in Seq(Byte)
    BY Rests
  <2>. HIDE DEF rest
  <2>2. rest \in BadMessages <=> (Len(rest) < 5 \/ len \notin 4..(Len(rest) - 1))
    BY <2>1 DEF BadMessages
  <2>3. FirstMessage[rest] = [type |-> rest[1], body |-> SubSeq(rest, 6, 1 + len)]
    BY <2>1 DEF FirstMessage
  <2>4. rest \notin BadMessages => p + 1 + len = p + MessageWidth[rest]
    <3>1. MessageWidth[rest] = 1 + len
      BY <2>1 DEF MessageWidth
    <3>2. rest \notin BadMessages => len \in Int
      BY <2>2
    <3>. HIDE DEF len
    <3>. QED  BY <3>1, <3>2
  <2>5. Step(f, p) = IF rest = <<>> THEN <<>>
                     ELSE IF Len(rest) < 5 \/ len \notin 4..(Len(rest) - 1) THEN <<Malformed>>
                     ELSE <<[type |-> rest[1], body |-> SubSeq(rest, 6, 1 + len)]>> \o f[p + 1 + len]
    BY DEF rest
  <2>. HIDE DEF Step, len
  <2>6. Step(f, p) = IF rest = <<>> THEN <<>> ELSE IF rest \in BadMessages THEN <<Malformed>>
                     ELSE <<FirstMessage[rest]>> \o f[p + MessageWidth[rest]]
    BY <2>2, <2>3, <2>4, <2>5
  <2>. QED  BY <2>6 DEF rest
<1>3. PICK g : Parses(g, s, BadMessages, <<Malformed>>, FirstMessage, MessageWidth)
  <2>. HIDE DEF Step
  <2>. QED  BY <1>1, ParserExists
<1>4. ASSUME NEW f PROVE Parses(f, s, BadMessages, <<Malformed>>, FirstMessage, MessageWidth)
                         <=> f = [p \in 1..(Len(s) + 1) |-> Step(f, p)]
  <2>. HIDE DEF Step
  <2>. QED  BY <1>2 DEF Parses
<1>. DEFINE from == CHOOSE from : from = [p \in 1..(Len(s) + 1) |-> Step(from, p)]
<1>5. from = [p \in 1..(Len(s) + 1) |-> Step(from, p)]
  <2>1. g = [p \in 1..(Len(s) + 1) |-> Step(g, p)]
    BY <1>3, <1>4
  <2>. HIDE DEF Step
  <2>. QED  BY <2>1
<1>6. Messages(s) = from[1]
  BY DEF Messages
<1>. HIDE DEF from, Step
<1>. QED  BY <1>4, <1>5, <1>6

\* Nothing is read as no message.
LEMMA NothingRead ==
  Messages(<<>>) = <<>>
<1>1. <<>> \in Seq(Byte) /\ Len(<<>>) = 0
  OBVIOUS
<1>2. PICK f : Parses(f, <<>>, BadMessages, <<Malformed>>, FirstMessage, MessageWidth) /\ Messages(<<>>) = f[1]
  BY <1>1, MessagesParsed
<1>3. SubSeq(<<>>, 1, Len(<<>>)) = <<>>
  BY <1>1
<1>4. f[1] = <<>>
  BY <1>1, <1>2, <1>3 DEF Parses
<1>. QED  BY <1>2, <1>4

\* The first message is read, and the rest as it is read alone.
LEMMA MessageRead ==
  ASSUME NEW type \in Byte, NEW body \in Seq(Byte), 4 + Len(body) \in Readable, NEW t \in Seq(Byte)
  PROVE  Messages(Encoded(type, body) \o t) = <<[type |-> type, body |-> body]>> \o Messages(t)
<1>. DEFINE e == Encoded(type, body)
            s == e \o t
            n == Len(body)
<1>1. /\ e \in Seq(Byte) /\ Len(e) = 5 + n /\ e[1] = type
      /\ \A i \in 1..4 : e[1 + i] = Int32(4 + n)[i]
      /\ \A i \in 1..n : e[5 + i] = body[i]
  BY EncodedBytes
<1>2. n \in Nat /\ 4 + n \in Readable
  OBVIOUS
<1>. HIDE DEF e, n
<1>3. /\ s \in Seq(Byte) /\ Len(s) = (5 + n) + Len(t)
      /\ \A i \in 1..(5 + n) : s[i] = e[i]
      /\ \A i \in 1..Len(t) : s[(5 + n) + i] = t[i]
  <2>1. /\ s \in Seq(Byte) /\ Len(s) = Len(e) + Len(t)
        /\ \A i \in 1..Len(e) : s[i] = e[i]
    BY <1>1, Joined
  <2>2. ASSUME NEW i \in 1..Len(t) PROVE s[Len(e) + i] = t[i]
    BY <1>1, JoinedEnd
  <2>. HIDE DEF s
  <2>. QED  BY <1>1, <2>1, <2>2
<1>. HIDE DEF s
<1>6. Long(s, 2) = 4 + n
  <2>1. \A i \in 1..4 : 1 + i \in 1..(5 + n) /\ s[1 + i] = Int32(4 + n)[i]
    <3>1. \A i \in 1..4 : 1 + i \in 1..(5 + n)
      BY <1>2
    <3>. QED  BY <1>1, <1>3, <3>1
  <2>2. /\ s[2] = Int32(4 + n)[1] /\ s[2 + 1] = Int32(4 + n)[2]
        /\ s[2 + 2] = Int32(4 + n)[3] /\ s[2 + 3] = Int32(4 + n)[4]
    BY <2>1
  <2>. QED  BY <1>2, <2>2, LongRead
<1>7. s # <<>> /\ s \notin BadMessages /\ MessageWidth[s] = 5 + n
  <2>1. 4 + n \in 4..(Len(s) - 1) /\ ~(Len(s) < 5) /\ 1 + (4 + n) = 5 + n
    BY <1>2, <1>3
  <2>2. s \notin BadMessages
    BY <1>6, <2>1 DEF BadMessages
  <2>3. MessageWidth[s] = 5 + n
    BY <1>3, <1>6, <2>1 DEF MessageWidth
  <2>. QED  BY <2>1, <2>2, <2>3
<1>8. FirstMessage[s] = [type |-> type, body |-> body]
  <2>1. SubSeq(s, 6, 1 + (4 + n)) = body
    <3>1. n \in Nat /\ 5 \in Nat /\ 5 + n <= Len(s) /\ 5 + 1 = 6 /\ 1 + (4 + n) = 5 + n /\ Len(body) = n
      BY <1>2, <1>3 DEF n
    <3>. DEFINE k == 5
                b == SubSeq(s, k + 1, k + n)
    <3>. HIDE DEF k
    <3>2. b \in Seq(Byte) /\ Len(b) = n /\ \A i \in 1..n : b[i] = s[5 + i]
      <4>1. k \in Nat /\ k + n <= Len(s) /\ k = 5
        BY <1>3, <3>1 DEF k
      <4>2. b \in Seq(Byte) /\ Len(b) = n /\ \A i \in 1..n : b[i] = s[k + i]
        BY <1>3, <3>1, <4>1, Part
      <4>. HIDE DEF b
      <4>. QED  BY <4>1, <4>2
    <3>3. \A i \in 1..n : 5 + i \in 1..(5 + n)
      BY <3>1
    <3>4. \A i \in 1..n : s[5 + i] = body[i]
      BY <1>1, <1>3, <3>3
    <3>. HIDE DEF b
    <3>5. b = body
      BY <3>1, <3>2, <3>4, SameElements
    <3>. QED  BY <3>1, <3>5 DEF b, k
  <2>2. s[1] = type
    BY <1>1, <1>2, <1>3
  <2>. QED  BY <1>3, <1>6, <2>1, <2>2 DEF FirstMessage
<1>9. PICK f : Parses(f, s, BadMessages, <<Malformed>>, FirstMessage, MessageWidth) /\ Messages(s) = f[1]
  BY <1>3, MessagesParsed
<1>10. PICK g : Parses(g, t, BadMessages, <<Malformed>>, FirstMessage, MessageWidth) /\ Messages(t) = g[1]
  BY MessagesParsed
<1>11. f[(5 + n) + 1] = g[1]
  <2>1. \A r \in Seq(Byte) : r # <<>> /\ r \notin BadMessages => MessageWidth[r] \in 1..Len(r)
    BY SMT DEF BadMessages, MessageWidth
  <2>2. 5 + n \in Nat /\ Len(s) = (5 + n) + Len(t)
    BY <1>2, <1>3
  <2>. DEFINE k == 5 + n
  <2>3. k \in Nat /\ Len(s) = k + Len(t) /\ \A i \in 1..Len(t) : s[k + i] = t[i]
    BY <1>3, <2>2
  <2>. HIDE DEF k
  <2>4. f[k + 1] = g[1]
    BY <1>3, <1>9, <1>10, <2>1, <2>3, ParserOnRest
  <2>. QED  BY <2>4 DEF k
<1>12. f[1] = <<FirstMessage[s]>> \o f[1 + MessageWidth[s]]
  <2>1. SubSeq(s, 1, Len(s)) = s
    <3>1. /\ SubSeq(s, 1, Len(s)) \in Seq(Byte) /\ Len(SubSeq(s, 1, Len(s))) = Len(s) - 1 + 1
          /\ \A i \in 1..(Len(s) - 1 + 1) : SubSeq(s, 1, Len(s))[i] = s[1 + i - 1]
      <4>1. 1 \in 1..(Len(s) + 1)
        BY <1>3
      <4>. QED  BY <1>3, <4>1, Rests
    <3>2. Len(s) \in Nat /\ Len(s) - 1 + 1 = Len(s) /\ \A i \in 1..Len(s) : 1 + i - 1 = i
      BY <1>3
    <3>. QED  BY <1>3, <3>1, <3>2, SameElements
  <2>2. 1 \in 1..(Len(s) + 1)
    BY <1>3
  <2>. QED  BY <1>7, <1>9, <2>1, <2>2 DEF Parses
<1>13. 1 + MessageWidth[s] = (5 + n) + 1
  BY <1>2, <1>7
<1>. QED  BY <1>8, <1>9, <1>10, <1>11, <1>12, <1>13 DEF s, e

\* The parser of the texts of a row
TextLength == [r \in Seq(Byte) |-> IF SubSeq(r, 1, 4) = Int32(-1) THEN 0 ELSE Long(r, 1)]
BadTexts   == {r \in Seq(Byte) : Len(r) < 4 \/ 4 + TextLength[r] > Len(r)}
FirstText  == [r \in Seq(Byte) |-> IF SubSeq(r, 1, 4) = Int32(-1) THEN <<-1>> ELSE SubSeq(r, 5, 4 + TextLength[r])]
TextWidth  == [r \in Seq(Byte) |-> 4 + TextLength[r]]

\* The length of a text is a number.
LEMMA TextLengths ==
  ASSUME NEW r \in Seq(Byte), Len(r) >= 4
  PROVE  TextLength[r] \in Nat
<1>1. ASSUME NEW i \in 1..4 PROVE r[i] \in Nat
  <2>1. i \in 1..Len(r)
    OBVIOUS
  <2>2. r[i] \in Byte
    BY <2>1
  <2>. QED  BY <2>2, ByteNumbers
<1>2. r[1] \in Nat /\ r[2] \in Nat /\ r[3] \in Nat /\ r[4] \in Nat
  BY <1>1
<1>3. Long(r, 1) \in Nat
  <2>1. Long(r, 1) = 65536 * (256 * r[1] + r[2]) + (256 * r[3] + r[4])
    <3>1. 1 + 1 = 2 /\ 1 + 2 = 3 /\ 3 + 1 = 4
      OBVIOUS
    <3>2. Short(r, 1) = 256 * r[1] + r[2] /\ Short(r, 3) = 256 * r[3] + r[4]
      BY <3>1 DEF Short
    <3>. QED  BY <3>1, <3>2 DEF Long
  <2>. QED  BY <1>2, <2>1
<1>. QED  BY <1>3 DEF TextLength

\* What is taken of the bytes for one text lies among them.
LEMMA TextWidths ==
  \A r \in Seq(Byte) : r # <<>> /\ r \notin BadTexts => TextWidth[r] \in 1..Len(r)
<1>. SUFFICES ASSUME NEW r \in Seq(Byte), r \notin BadTexts PROVE TextWidth[r] \in 1..Len(r)
  OBVIOUS
<1>1. Len(r) >= 4 /\ ~(4 + TextLength[r] > Len(r)) /\ Len(r) \in Nat
  BY DEF BadTexts
<1>2. TextLength[r] \in Nat
  BY <1>1, TextLengths
<1>3. TextWidth[r] = 4 + TextLength[r]
  BY DEF TextWidth
<1>. QED  BY <1>1, <1>2, <1>3

\* TextsOf is such a parser.
LEMMA TextsParsed ==
  ASSUME NEW s \in Seq(Byte)
  PROVE  \E f : Parses(f, s, BadTexts, <<<<-2>>>>, FirstText, TextWidth) /\ TextsOf(s) = f[1]
<1>. DEFINE Step(f, p) ==
       LET rest == SubSeq(s, p, Len(s))
           null == SubSeq(rest, 1, 4) = Int32(-1)
           len  == IF null THEN 0 ELSE Long(rest, 1) IN
       IF rest = <<>> THEN <<>>
       ELSE IF Len(rest) < 4 \/ 4 + len > Len(rest) THEN <<<<-2>>>>
       ELSE <<IF null THEN <<-1>> ELSE SubSeq(rest, 5, 4 + len)>> \o f[p + 4 + len]
<1>2. ASSUME NEW f, NEW p \in 1..(Len(s) + 1)
      PROVE  LET rest == SubSeq(s, p, Len(s)) IN
             Step(f, p) = IF rest = <<>> THEN <<>> ELSE IF rest \in BadTexts THEN <<<<-2>>>>
                          ELSE <<FirstText[rest]>> \o f[p + TextWidth[rest]]
  <2>. DEFINE rest == SubSeq(s, p, Len(s))
              null == SubSeq(rest, 1, 4) = Int32(-1)
              len  == IF null THEN 0 ELSE Long(rest, 1)
  <2>1. rest \in Seq(Byte)
    BY Rests
  <2>. HIDE DEF rest
  <2>0. len = TextLength[rest]
    BY <2>1 DEF TextLength
  <2>. HIDE DEF len
  <2>2. rest \in BadTexts <=> (Len(rest) < 4 \/ 4 + len > Len(rest))
    BY <2>0, <2>1 DEF BadTexts
  <2>3. FirstText[rest] = IF null THEN <<-1>> ELSE SubSeq(rest, 5, 4 + len)
    BY <2>0, <2>1 DEF FirstText
  <2>4. rest \notin BadTexts => p + 4 + len = p + TextWidth[rest]
    <3>1. TextWidth[rest] = 4 + len
      BY <2>0, <2>1 DEF TextWidth
    <3>2. rest \notin BadTexts => len \in Nat
      BY <2>0, <2>1, <2>2, TextLengths
    <3>. HIDE DEF len
    <3>. QED  BY <3>1, <3>2
  <2>5. Step(f, p) = IF rest = <<>> THEN <<>>
                     ELSE IF Len(rest) < 4 \/ 4 + len > Len(rest) THEN <<<<-2>>>>
                     ELSE <<IF null THEN <<-1>> ELSE SubSeq(rest, 5, 4 + len)>> \o f[p + 4 + len]
    BY DEF rest, len
  <2>. HIDE DEF Step, len, null
  <2>6. Step(f, p) = IF rest = <<>> THEN <<>> ELSE IF rest \in BadTexts THEN <<<<-2>>>>
                     ELSE <<FirstText[rest]>> \o f[p + TextWidth[rest]]
    BY <2>2, <2>3, <2>4, <2>5
  <2>. QED  BY <2>6 DEF rest
<1>3. PICK g : Parses(g, s, BadTexts, <<<<-2>>>>, FirstText, TextWidth)
  <2>. HIDE DEF Step
  <2>. QED  BY TextWidths, ParserExists
<1>4. ASSUME NEW f PROVE Parses(f, s, BadTexts, <<<<-2>>>>, FirstText, TextWidth)
                         <=> f = [p \in 1..(Len(s) + 1) |-> Step(f, p)]
  <2>. HIDE DEF Step
  <2>. QED  BY <1>2 DEF Parses
<1>. DEFINE from == CHOOSE from : from = [p \in 1..(Len(s) + 1) |-> Step(from, p)]
<1>5. from = [p \in 1..(Len(s) + 1) |-> Step(from, p)]
  <2>1. g = [p \in 1..(Len(s) + 1) |-> Step(g, p)]
    BY <1>3, <1>4
  <2>. HIDE DEF Step
  <2>. QED  BY <2>1
<1>6. TextsOf(s) = from[1]
  BY DEF TextsOf
<1>. HIDE DEF from, Step
<1>. QED  BY <1>4, <1>5, <1>6


\* There are no texts in no bytes.
LEMMA NoTexts ==
  TextsOf(<<>>) = <<>>
<1>1. <<>> \in Seq(Byte) /\ Len(<<>>) = 0
  OBVIOUS
<1>2. PICK f : Parses(f, <<>>, BadTexts, <<<<-2>>>>, FirstText, TextWidth) /\ TextsOf(<<>>) = f[1]
  BY <1>1, TextsParsed
<1>3. SubSeq(<<>>, 1, Len(<<>>)) = <<>>
  BY <1>1
<1>4. f[1] = <<>>
  BY <1>1, <1>2, <1>3 DEF Parses
<1>. QED  BY <1>2, <1>4

\* The first text is read, and the rest as it is read alone.
LEMMA FirstTextRead ==
  ASSUME NEW e \in Seq(Byte), NEW t \in Seq(Byte), e \o t \notin BadTexts, TextWidth[e \o t] = Len(e), Len(e) # 0
  PROVE  TextsOf(e \o t) = <<FirstText[e \o t]>> \o TextsOf(t)
<1>. DEFINE s == e \o t
            k == Len(e)
<1>1. s \in Seq(Byte) /\ Len(s) = Len(e) + Len(t)
  BY Joined
<1>2. ASSUME NEW i \in 1..Len(t) PROVE s[Len(e) + i] = t[i]
  BY JoinedEnd
<1>3. k \in Nat /\ k # 0
  OBVIOUS
<1>4. s \notin BadTexts /\ TextWidth[s] = k
  OBVIOUS
<1>. HIDE DEF s, k
<1>5. Len(s) = k + Len(t) /\ \A i \in 1..Len(t) : s[k + i] = t[i]
  BY <1>1, <1>2 DEF k
<1>6. PICK f : Parses(f, s, BadTexts, <<<<-2>>>>, FirstText, TextWidth) /\ TextsOf(s) = f[1]
  BY <1>1, TextsParsed
<1>7. PICK g : Parses(g, t, BadTexts, <<<<-2>>>>, FirstText, TextWidth) /\ TextsOf(t) = g[1]
  BY TextsParsed
<1>8. f[k + 1] = g[1]
  <2>1. \A r \in Seq(Byte) : r # <<>> /\ r \notin BadTexts => TextWidth[r] \in 1..Len(r)
    BY TextWidths, Zenon
  <2>2. s \in Seq(Byte)
    BY <1>1
  <2>3. k \in Nat
    BY <1>3
  <2>. QED  BY <1>5, <1>6, <1>7, <2>1, <2>2, <2>3, ParserOnRest
<1>9. s # <<>>
  BY <1>3, <1>5
<1>10. f[1] = <<FirstText[s]>> \o f[1 + TextWidth[s]]
  <2>1. SubSeq(s, 1, Len(s)) = s /\ 1 \in 1..(Len(s) + 1)
    BY <1>1, WholePart
  <2>. QED  BY <1>4, <1>6, <1>9, <2>1 DEF Parses
<1>11. 1 + TextWidth[s] = k + 1
  BY <1>3, <1>4
<1>. QED  BY <1>6, <1>7, <1>8, <1>10, <1>11 DEF s

\* A null is read as null, and a text as the same text.
LEMMA NullTextRead ==
  ASSUME NEW t \in Seq(Byte)
  PROVE  TextsOf(Int32(-1) \o t) = <<<<-1>>>> \o TextsOf(t)
<1>. DEFINE e == Int32(-1)
            s == e \o t
<1>1. e \in Seq(Byte) /\ Len(e) = 4
  BY LongType
<1>. HIDE DEF e
<1>2. s \in Seq(Byte) /\ Len(s) = Len(e) + Len(t) /\ \A i \in 1..Len(e) : s[i] = e[i]
  BY <1>1, Joined
<1>. HIDE DEF s
<1>3. SubSeq(s, 1, 4) = e
  BY <1>1, <1>2, HeadPart
<1>4. TextLength[s] = 0
  BY <1>2, <1>3 DEF TextLength, e
<1>5. FirstText[s] = <<-1>>
  BY <1>2, <1>3 DEF FirstText, e
<1>6. TextWidth[s] = Len(e)
  BY <1>1, <1>2, <1>4 DEF TextWidth
<1>7. s \notin BadTexts
  BY <1>1, <1>2, <1>4 DEF BadTexts
<1>8. TextsOf(s) = <<FirstText[s]>> \o TextsOf(t)
  <2>1. e \o t \notin BadTexts /\ TextWidth[e \o t] = Len(e) /\ Len(e) # 0 /\ e \in Seq(Byte)
    BY <1>1, <1>6, <1>7 DEF s
  <2>. QED  BY <2>1, FirstTextRead DEF s
<1>. QED  BY <1>5, <1>8 DEF s, e

\* A text that is written behind its length is read again.
LEMMA TextRead ==
  ASSUME NEW text \in Seq(Byte), Len(text) \in Readable, NEW t \in Seq(Byte)
  PROVE  TextsOf((Int32(Len(text)) \o text) \o t) = <<text>> \o TextsOf(t)
<1>. DEFINE h == Int32(Len(text))
            e == h \o text
            s == e \o t
            n == Len(text)
<1>1. h \in Seq(Byte) /\ Len(h) = 4 /\ n \in Nat
  BY LongType
<1>. HIDE DEF h
<1>1a. h \in Seq(Byte)
  BY <1>1
<1>2. e \in Seq(Byte) /\ Len(e) = Len(h) + Len(text) /\ \A i \in 1..Len(h) : e[i] = h[i]
  BY <1>1a, Joined
<1>3. ASSUME NEW i \in 1..Len(text) PROVE e[Len(h) + i] = text[i]
  BY <1>1a, JoinedEnd
<1>. HIDE DEF e
<1>4. s \in Seq(Byte) /\ Len(s) = Len(e) + Len(t) /\ \A i \in 1..Len(e) : s[i] = e[i]
  <2>1. e \in Seq(Byte)
    BY <1>2
  <2>. QED  BY <2>1, Joined
<1>. HIDE DEF s, n
<1>5. Len(e) = 4 + n /\ \A i \in 1..n : e[4 + i] = text[i]
  BY <1>1, <1>2, <1>3 DEF n
<1>6. Len(t) \in Nat /\ Len(s) = (4 + n) + Len(t) /\ \A i \in 1..(4 + n) : s[i] = e[i]
  BY <1>4, <1>5
<1>7. \A i \in 1..4 : s[i] = h[i]
  <2>1. \A i \in 1..4 : i \in 1..(4 + n)
    BY <1>1
  <2>. QED  BY <1>1, <1>2, <1>6, <2>1
<1>8. \A i \in 1..n : s[4 + i] = text[i]
  <2>1. \A i \in 1..n : 4 + i \in 1..(4 + n)
    BY <1>1
  <2>. QED  BY <1>5, <1>6, <2>1
<1>9. SubSeq(s, 1, 4) = h
  BY <1>1, <1>4, <1>6, <1>7, HeadPart
<1>10. h # Int32(-1)
  BY NullRead DEF h
<1>11. TextLength[s] = n
  <2>1. s[1] = h[1] /\ s[1 + 1] = h[2] /\ s[1 + 2] = h[3] /\ s[1 + 3] = h[4]
    BY <1>7
  <2>2. Long(s, 1) = n
    BY <2>1, LongRead DEF h, n
  <2>. QED  BY <1>4, <1>9, <1>10, <2>2 DEF TextLength
<1>12. TextWidth[s] = Len(e) /\ Len(e) # 0
  BY <1>1, <1>4, <1>5, <1>11 DEF TextWidth
<1>13. s \notin BadTexts
  BY <1>1, <1>4, <1>6, <1>11 DEF BadTexts
<1>14. FirstText[s] = text
  <2>1. SubSeq(s, 5, 4 + n) = text
    <3>. DEFINE k == 4
                b == SubSeq(s, k + 1, k + n)
    <3>1. k \in Nat /\ k = 4 /\ k + n <= Len(s)
      BY <1>1, <1>6
    <3>. HIDE DEF k
    <3>2. b \in Seq(Byte) /\ Len(b) = n /\ \A i \in 1..n : b[i] = s[k + i]
      BY <1>1, <1>4, <3>1, Part
    <3>. HIDE DEF b
    <3>3. Len(b) = Len(text) /\ \A i \in 1..Len(b) : b[i] = text[i]
      BY <1>8, <3>1, <3>2 DEF n
    <3>4. b = text
      BY <3>2, <3>3, SameElements
    <3>. QED  BY <3>1, <3>4 DEF b
  <2>. QED  BY <1>4, <1>9, <1>10, <1>11, <2>1 DEF FirstText
<1>15. TextsOf(s) = <<FirstText[s]>> \o TextsOf(t)
  BY <1>2, <1>12, <1>13, FirstTextRead DEF s
<1>. QED  BY <1>14, <1>15 DEF s, e, h

-----------------------------------------------------------------------------
(* The buffer                                                               *)

Buffers == [1..Size -> Byte]

Writers ==
  {w \in [data : Buffers, written : 0..Size, last : 0..Size, full : BOOLEAN] : w.last <= w.written}

\* What was written, and what of it is whole messages
Content(w) == SubSeq(w.data, 1, w.written)
Kept(w)    == SubSeq(w.data, 1, w.last)

Field == [by : {"copy", "snprintf", "strftime"}, text : Seq(Byte)]

\* The size of the buffer is a number.
LEMMA SizeType == Size \in Nat
BY WriterAssumption

\* The first bytes of a buffer
LEMMA Firsts ==
  ASSUME NEW data \in Buffers, NEW n \in 0..Size
  PROVE  /\ SubSeq(data, 1, n) \in Seq(Byte) /\ Len(SubSeq(data, 1, n)) = n
         /\ \A i \in 1..n : SubSeq(data, 1, n)[i] = data[i]
<1>. DEFINE k == 0
            b == SubSeq(data, k + 1, k + n)
<1>1. data \in Seq(Byte) /\ Len(data) = Size
  BY SizeType DEF Buffers
<1>2. k \in Nat /\ n \in Nat /\ k + n <= Len(data) /\ k + 1 = 1 /\ k + n = n /\ \A i \in 1..n : k + i = i
  BY <1>1, SizeType
<1>. HIDE DEF k
<1>3. b \in Seq(Byte) /\ Len(b) = n /\ \A i \in 1..n : b[i] = data[k + i]
  BY <1>1, <1>2, Part
<1>. HIDE DEF b
<1>4. \A i \in 1..n : b[i] = data[i]
  BY <1>2, <1>3
<1>. QED  BY <1>2, <1>3, <1>4 DEF b

\* Two buffers that agree up to a place begin with the same bytes.
LEMMA SameFirsts ==
  ASSUME NEW data \in Buffers, NEW new \in Buffers, NEW n \in 0..Size, \A k \in 1..n : new[k] = data[k]
  PROVE  SubSeq(new, 1, n) = SubSeq(data, 1, n)
<1>. DEFINE a == SubSeq(new, 1, n)
            b == SubSeq(data, 1, n)
<1>1. a \in Seq(Byte) /\ Len(a) = n /\ \A i \in 1..n : a[i] = new[i]
  BY Firsts
<1>2. b \in Seq(Byte) /\ Len(b) = n /\ \A i \in 1..n : b[i] = data[i]
  BY Firsts
<1>. HIDE DEF a, b
<1>3. Len(a) = Len(b) /\ \A i \in 1..Len(a) : a[i] = b[i]
  BY <1>1, <1>2
<1>4. a = b
  BY <1>1, <1>2, <1>3, SameElements
<1>. QED  BY <1>4 DEF a, b

\* Bytes behind the first ones
LEMMA MoreFirsts ==
  ASSUME NEW data \in Buffers, NEW new \in Buffers, NEW at \in 0..Size, NEW bytes \in Seq(Byte),
         at + Len(bytes) <= Size, \A k \in 1..at : new[k] = data[k],
         \A i \in 1..Len(bytes) : new[at + i] = bytes[i]
  PROVE  SubSeq(new, 1, at + Len(bytes)) = SubSeq(data, 1, at) \o bytes
<1>. DEFINE n == Len(bytes)
            a == SubSeq(new, 1, at + n)
            h == SubSeq(data, 1, at)
            b == h \o bytes
<1>1. Size \in Nat /\ n \in Nat /\ at \in Nat /\ at + n \in 0..Size
  BY SizeType
<1>2. h \in Seq(Byte) /\ Len(h) = at /\ \A i \in 1..at : h[i] = data[i]
  BY Firsts
<1>3. a \in Seq(Byte) /\ Len(a) = at + n /\ \A i \in 1..(at + n) : a[i] = new[i]
  <2>. HIDE DEF n
  <2>. QED  BY <1>1, Firsts
<1>. HIDE DEF h, a
<1>3a. h \in Seq(Byte)
  BY <1>2
<1>4. b \in Seq(Byte) /\ Len(b) = Len(h) + Len(bytes) /\ \A i \in 1..Len(h) : b[i] = h[i]
  BY <1>3a, Joined
<1>5. ASSUME NEW i \in 1..Len(bytes) PROVE b[Len(h) + i] = bytes[i]
  BY <1>3a, JoinedEnd
<1>. HIDE DEF b
<1>6. Len(b) = at + n /\ \A i \in 1..n : b[at + i] = bytes[i]
  BY <1>2, <1>4, <1>5
<1>7. \A i \in 1..n : new[at + i] = bytes[i]
  OBVIOUS
<1>. HIDE DEF n
<1>8. ASSUME NEW i \in 1..(at + n) PROVE a[i] = b[i]
  <2>1. CASE i <= at
    <3>1. i \in 1..at
      BY <2>1
    <3>. QED  BY <1>2, <1>3, <1>4, <3>1
  <2>2. CASE ~(i <= at)
    <3>1. i - at \in 1..n /\ at + (i - at) = i
      BY <1>1, <2>2
    <3>. DEFINE j == i - at
    <3>2. j \in 1..n /\ at + j = i
      BY <3>1
    <3>. HIDE DEF j
    <3>. QED  BY <1>3, <1>6, <1>7, <3>2
  <2>. QED  BY <2>1, <2>2
<1>9. a = b
  BY <1>3, <1>4, <1>6, <1>8, SameElements
<1>. QED  BY <1>9 DEF a, b, h, n

\* Store changes the bytes from an offset on and no others.
LEMMA Stored ==
  ASSUME NEW data \in Buffers, NEW at \in Nat, NEW bytes \in Seq(Byte)
  PROVE  /\ Store(data, at, bytes) \in Buffers
         /\ \A k \in 1..Size : k <= at \/ k > at + Len(bytes) => Store(data, at, bytes)[k] = data[k]
         /\ \A i \in 1..Len(bytes) : at + i <= Size => Store(data, at, bytes)[at + i] = bytes[i]
<1>. DEFINE new == Store(data, at, bytes)
            n   == Len(bytes)
<1>1. Size \in Nat /\ n \in Nat
  BY SizeType
<1>2. DOMAIN data = 1..Size /\ \A k \in 1..Size : data[k] \in Byte
  BY DEF Buffers
<1>3. new = [k \in 1..Size |-> IF k - at \in 1..n THEN bytes[k - at] ELSE data[k]]
  BY <1>2 DEF Store
<1>4. \A i \in 1..n : bytes[i] \in Byte
  OBVIOUS
<1>. HIDE DEF new, n
<1>5. new \in Buffers
  <2>1. \A k \in 1..Size : (IF k - at \in 1..n THEN bytes[k - at] ELSE data[k]) \in Byte
    BY <1>2, <1>4
  <2>. QED  BY <1>3, <2>1 DEF Buffers
<1>6. ASSUME NEW k \in 1..Size, k <= at \/ k > at + n PROVE new[k] = data[k]
  <2>1. k - at \notin 1..n
    BY <1>1, <1>6
  <2>. QED  BY <1>3, <2>1
<1>7. ASSUME NEW i \in 1..n, at + i <= Size PROVE new[at + i] = bytes[i]
  <2>1. at + i \in 1..Size /\ (at + i) - at = i
    BY <1>1, <1>7
  <2>. QED  BY <1>3, <2>1
<1>. QED  BY <1>5, <1>6, <1>7 DEF new, n

-----------------------------------------------------------------------------
(* The fields of messages                                                   *)

\* From one writer to another: some bytes are written, or the buffer is full.
Extends(w, v, bytes) ==
  /\ v \in Writers /\ v.last = w.last /\ Kept(v) = Kept(w)
  /\ ~v.full => ~w.full /\ Content(v) = Content(w) \o bytes

\* Bytes that are copied are written if there is room for them.
Copies(w, v, bytes) ==
  /\ Extends(w, v, bytes)
  /\ ~w.full /\ w.written + Len(bytes) <= Size => ~v.full

\* The parts of a writer, and what it has in the buffer
LEMMA WriterType ==
  ASSUME NEW w \in Writers
  PROVE  /\ w.data \in Buffers /\ w.written \in 0..Size /\ w.last \in 0..Size /\ w.full \in BOOLEAN
         /\ w.last <= w.written /\ w.written \in Nat /\ w.last \in Nat
         /\ Content(w) \in Seq(Byte) /\ Len(Content(w)) = w.written
         /\ Kept(w) \in Seq(Byte) /\ Len(Kept(w)) = w.last
<1>1. /\ w.data \in Buffers /\ w.written \in 0..Size /\ w.last \in 0..Size /\ w.full \in BOOLEAN
      /\ w.last <= w.written
  BY DEF Writers
<1>2. Content(w) \in Seq(Byte) /\ Len(Content(w)) = w.written
  BY <1>1, Firsts DEF Content
<1>3. Kept(w) \in Seq(Byte) /\ Len(Kept(w)) = w.last
  BY <1>1, Firsts DEF Kept
<1>. QED  BY <1>1, <1>2, <1>3, SizeType

\* A writer after some bytes: the buffer has them behind what was written.
LEMMA Extended ==
  ASSUME NEW w \in Writers, ~w.full, NEW bytes \in Seq(Byte), w.written + Len(bytes) <= Size,
         NEW new \in Buffers, \A k \in 1..w.written : new[k] = w.data[k],
         \A i \in 1..Len(bytes) : new[w.written + i] = bytes[i],
         NEW v, v = [data |-> new, written |-> w.written + Len(bytes), last |-> w.last, full |-> FALSE]
  PROVE  Extends(w, v, bytes) /\ ~v.full
<1>1. /\ w.data \in Buffers /\ w.written \in 0..Size /\ w.last \in 0..Size /\ w.last <= w.written
      /\ Size \in Nat /\ Len(bytes) \in Nat
  BY WriterType, SizeType
<1>2. v.data = new /\ v.written = w.written + Len(bytes) /\ v.last = w.last /\ v.full = FALSE
  OBVIOUS
<1>3. v \in Writers
  <2>1. w.written + Len(bytes) \in 0..Size /\ w.last <= w.written + Len(bytes)
    BY <1>1
  <2>. QED  BY <1>1, <2>1 DEF Writers
<1>4. Kept(v) = Kept(w)
  <2>1. \A k \in 1..w.last : new[k] = w.data[k]
    BY <1>1
  <2>2. SubSeq(new, 1, w.last) = SubSeq(w.data, 1, w.last)
    BY <1>1, <2>1, SameFirsts
  <2>. QED  BY <1>2, <2>2 DEF Kept
<1>5. Content(v) = Content(w) \o bytes
  <2>1. SubSeq(new, 1, w.written + Len(bytes)) = SubSeq(w.data, 1, w.written) \o bytes
    BY <1>1, MoreFirsts
  <2>. QED  BY <1>2, <2>1 DEF Content
<1>. QED  BY <1>2, <1>3, <1>4, <1>5 DEF Extends

\* A buffer that is full
LEMMA Filled ==
  ASSUME NEW w \in Writers, NEW new \in Buffers, \A k \in 1..w.written : new[k] = w.data[k], NEW bytes,
         NEW v, v = [data |-> new, written |-> w.written, last |-> w.last, full |-> TRUE]
  PROVE  Extends(w, v, bytes) /\ v.full
<1>1. /\ w.data \in Buffers /\ w.written \in 0..Size /\ w.last \in 0..Size /\ w.last <= w.written /\ Size \in Nat
  BY WriterType, SizeType
<1>2. v.data = new /\ v.written = w.written /\ v.last = w.last /\ v.full = TRUE
  OBVIOUS
<1>3. v \in Writers
  BY <1>1 DEF Writers
<1>4. Kept(v) = Kept(w)
  <2>1. \A k \in 1..w.last : new[k] = w.data[k]
    BY <1>1
  <2>2. SubSeq(new, 1, w.last) = SubSeq(w.data, 1, w.last)
    BY <1>1, <2>1, SameFirsts
  <2>. QED  BY <1>2, <2>2 DEF Kept
<1>. QED  BY <1>2, <1>3, <1>4 DEF Extends

\* Put copies the bytes behind what is there, if there is room (check).
LEMMA PutRight ==
  ASSUME NEW w \in Writers, NEW bytes \in Seq(Byte)
  PROVE  Copies(w, Put(w, bytes), bytes)
<1>. DEFINE n == Len(bytes)
            v == Put(w, bytes)
<1>1. /\ w.data \in Buffers /\ w.written \in Nat /\ w.written <= Size /\ w.full \in BOOLEAN
      /\ Size \in Nat /\ n \in Nat
  BY WriterType, SizeType
<1>2. CASE Check(w, n)
  <2>. DEFINE new == Store(w.data, w.written, bytes)
  <2>1. ~w.full /\ w.written + n <= Size
    BY <1>2 DEF Check
  <2>2. v = [w EXCEPT !.data = new, !.written = w.written + n]
    BY <1>2 DEF Put
  <2>3. v = [data |-> new, written |-> w.written + n, last |-> w.last, full |-> FALSE]
    <3>1. w.full = FALSE
      BY <1>1, <2>1
    <3>. HIDE DEF new, v
    <3>. QED  BY <2>2, <3>1 DEF Writers
  <2>4. /\ new \in Buffers
        /\ \A k \in 1..Size : k <= w.written \/ k > w.written + n => new[k] = w.data[k]
        /\ \A i \in 1..n : w.written + i <= Size => new[w.written + i] = bytes[i]
    BY <1>1, Stored
  <2>. HIDE DEF new, v
  <2>5. \A k \in 1..w.written : new[k] = w.data[k]
    BY <1>1, <2>4
  <2>6. \A i \in 1..n : new[w.written + i] = bytes[i]
    BY <1>1, <2>1, <2>4
  <2>7. Extends(w, v, bytes) /\ ~v.full
    BY <2>1, <2>3, <2>4, <2>5, <2>6, Extended
  <2>. QED  BY <2>7 DEF Copies, v
<1>3. CASE ~Check(w, n)
  <2>1. ~(~w.full /\ w.written + n <= Size)
    BY <1>3 DEF Check
  <2>2. v = [w EXCEPT !.full = TRUE]
    BY <1>3 DEF Put
  <2>. HIDE DEF v
  <2>3. v = [data |-> w.data, written |-> w.written, last |-> w.last, full |-> TRUE]
    BY <2>2 DEF Writers
  <2>4. Extends(w, v, bytes) /\ v.full
    BY <1>1, <2>3, Filled
  <2>. QED  BY <2>1, <2>4 DEF Copies, v
<1>. QED  BY <1>2, <1>3

\* A date: the zero behind it is not counted.
LEMMA PutTimeRight ==
  ASSUME NEW w \in Writers, NEW s \in Seq(Byte)
  PROVE  Extends(w, PutTime(w, s), s)
<1>. DEFINE n == Len(s)
            v == PutTime(w, s)
<1>1. /\ w.data \in Buffers /\ w.written \in Nat /\ w.written <= Size /\ w.full \in BOOLEAN
      /\ Size \in Nat /\ n \in Nat
  BY WriterType, SizeType
<1>2. CASE Check(w, n + 1)
  <2>. DEFINE zero == <<0>>
              bytes == s \o zero
              new == Store(w.data, w.written, bytes)
  <2>0. zero \in Seq(Byte) /\ Len(zero) = 1
    <3>1. 0 \in Byte
      BY SMT DEF Byte
    <3>. QED  BY <3>1
  <2>1. ~w.full /\ w.written + (n + 1) <= Size
    BY <1>2 DEF Check
  <2>2. v = [w EXCEPT !.data = new, !.written = w.written + n]
    BY <1>2 DEF PutTime
  <2>3. v = [data |-> new, written |-> w.written + n, last |-> w.last, full |-> FALSE]
    <3>1. w.full = FALSE
      BY <1>1, <2>1
    <3>. HIDE DEF new, v
    <3>. QED  BY <2>2, <3>1 DEF Writers
  <2>. HIDE DEF zero
  <2>4. bytes \in Seq(Byte) /\ Len(bytes) = n + 1 /\ \A i \in 1..n : bytes[i] = s[i]
    <3>1. zero \in Seq(Byte)
      BY <2>0
    <3>2. bytes \in Seq(Byte) /\ Len(bytes) = Len(s) + Len(zero) /\ \A i \in 1..Len(s) : bytes[i] = s[i]
      BY <3>1, Joined
    <3>. HIDE DEF bytes
    <3>. QED  BY <2>0, <3>2
  <2>. HIDE DEF bytes
  <2>5. /\ new \in Buffers
        /\ \A k \in 1..Size : k <= w.written \/ k > w.written + Len(bytes) => new[k] = w.data[k]
        /\ \A i \in 1..Len(bytes) : w.written + i <= Size => new[w.written + i] = bytes[i]
    <3>1. bytes \in Seq(Byte)
      BY <2>4
    <3>. QED  BY <1>1, <3>1, Stored
  <2>. HIDE DEF new, v
  <2>6. \A k \in 1..w.written : new[k] = w.data[k]
    BY <1>1, <2>5
  <2>7. \A i \in 1..n : new[w.written + i] = s[i]
    <3>1. \A i \in 1..n : i \in 1..Len(bytes) /\ w.written + i <= Size
      BY <1>1, <2>1, <2>4
    <3>. QED  BY <2>4, <2>5, <3>1
  <2>8. w.written + n <= Size
    BY <1>1, <2>1
  <2>9. Extends(w, v, s)
    BY <2>1, <2>3, <2>5, <2>6, <2>7, <2>8, Extended
  <2>. QED  BY <2>9 DEF v
<1>3. CASE ~Check(w, n + 1)
  <2>1. v = [w EXCEPT !.full = TRUE]
    BY <1>3 DEF PutTime
  <2>. HIDE DEF v
  <2>2. v = [data |-> w.data, written |-> w.written, last |-> w.last, full |-> TRUE]
    BY <2>1 DEF Writers
  <2>3. Extends(w, v, s)
    BY <1>1, <2>2, Filled
  <2>. QED  BY <2>3 DEF v
<1>. QED  BY <1>2, <1>3

\* A number: its text is printed first, where it belongs, and then its length.
LEMMA PutValueRight ==
  ASSUME NEW w \in Writers, NEW s \in Seq(Byte)
  PROVE  Extends(w, PutValue(w, s), Int32(Len(s)) \o s)
<1>. DEFINE n == Len(s)
            h == Int32(n)
            v == PutValue(w, s)
            start == w.written + 4
            new == Printed(w.data, start, s)
            printed == [w EXCEPT !.data = new]
<1>1. /\ w.data \in Buffers /\ w.written \in Nat /\ w.written <= Size /\ w.full \in BOOLEAN
      /\ Size \in Nat /\ n \in Nat /\ h \in Seq(Byte) /\ Len(h) = 4
  BY WriterType, SizeType, LongType
<1>2. CASE ~Check(w, 4)
  <2>1. v = [w EXCEPT !.full = TRUE]
    BY <1>2 DEF PutValue
  <2>. HIDE DEF v, h
  <2>2. v = [data |-> w.data, written |-> w.written, last |-> w.last, full |-> TRUE]
    BY <2>1 DEF Writers
  <2>3. Extends(w, v, h \o s)
    BY <1>1, <2>2, Filled
  <2>. QED  BY <2>3 DEF v, h
<1>3. CASE Check(w, 4)
  <2>1. ~w.full /\ start <= Size /\ start \in Nat
    BY <1>1, <1>3 DEF Check
  <2>2. printed = [data |-> new, written |-> w.written, last |-> w.last, full |-> FALSE]
    <3>1. w.full = FALSE
      BY <1>1, <2>1
    <3>. HIDE DEF new
    <3>2. [w EXCEPT !.data = new] = [data |-> new, written |-> w.written, last |-> w.last, full |-> w.full]
      BY DEF Writers
    <3>. QED  BY <3>1, <3>2
  <2>3. v = IF ValueFits(s, Size - w.written - 4)
            THEN [Put(printed, h) EXCEPT !.written = @ + n]
            ELSE [printed EXCEPT !.full = TRUE]
    BY <1>3 DEF PutValue
  <2>4. /\ new \in Buffers
        /\ \A k \in 1..w.written : new[k] = w.data[k]
        /\ n < Size - start => \A i \in 1..n : new[start + i] = s[i]
    <3>. DEFINE available == Size - start
                m == IF n < available THEN n ELSE available - 1
                zero == <<0>>
                part == SubSeq(s, 1, m)
                bytes == part \o zero
    <3>1. new = IF available = 0 THEN w.data ELSE Store(w.data, start, bytes)
      BY DEF Printed
    <3>2. CASE available = 0
      <4>1. ~(n < Size - start)
        BY <1>1, <2>1, <3>2
      <4>2. new = w.data
        BY <3>1, <3>2
      <4>. QED  BY <1>1, <4>1, <4>2
    <3>3. CASE available # 0
      <4>1. available \in Nat /\ m \in Nat /\ m <= n
        BY <1>1, <2>1, <3>3
      <4>2. zero \in Seq(Byte)
        <5>1. 0 \in Byte
          BY SMT DEF Byte
        <5>. QED  BY <5>1
      <4>3. part \in Seq(Byte) /\ Len(part) = m /\ \A i \in 1..m : part[i] = s[i]
        <5>. HIDE DEF m
        <5>. DEFINE k == 0
                    b == SubSeq(s, k + 1, k + m)
        <5>1. k \in Nat /\ m \in Nat /\ k + m <= Len(s) /\ k + 1 = 1 /\ k + m = m /\ \A i \in 1..m : k + i = i
          BY <4>1
        <5>. HIDE DEF k
        <5>2. b \in Seq(Byte) /\ Len(b) = m /\ \A i \in 1..m : b[i] = s[k + i]
          BY <5>1, Part
        <5>. HIDE DEF b
        <5>3. \A i \in 1..m : b[i] = s[i]
          BY <5>1, <5>2
        <5>. QED  BY <5>1, <5>2, <5>3 DEF b
      <4>. HIDE DEF zero, part
      <4>4. bytes \in Seq(Byte) /\ Len(bytes) = Len(part) + Len(zero) /\ \A i \in 1..Len(part) : bytes[i] = part[i]
        <5>1. part \in Seq(Byte)
          BY <4>3
        <5>. QED  BY <4>2, <5>1, Joined
      <4>5. new = Store(w.data, start, bytes)
        BY <3>1, <3>3
      <4>. HIDE DEF bytes, new, start, m, available
      <4>6. bytes \in Seq(Byte)
        BY <4>4
      <4>7. /\ new \in Buffers
            /\ \A k \in 1..Size : k <= start \/ k > start + Len(bytes) => new[k] = w.data[k]
            /\ \A i \in 1..Len(bytes) : start + i <= Size => new[start + i] = bytes[i]
        <5>. DEFINE d == w.data
                    x == Store(d, start, bytes)
        <5>1. d \in Buffers /\ start \in Nat
          BY <1>1, <2>1
        <5>. HIDE DEF d
        <5>2. /\ x \in Buffers
              /\ \A k \in 1..Size : k <= start \/ k > start + Len(bytes) => x[k] = d[k]
              /\ \A i \in 1..Len(bytes) : start + i <= Size => x[start + i] = bytes[i]
          BY <4>6, <5>1, Stored
        <5>3. new = x
          BY <4>5 DEF d
        <5>. HIDE DEF x
        <5>. QED  BY <5>2, <5>3 DEF d
      <4>8. \A k \in 1..w.written : new[k] = w.data[k]
        <5>1. \A k \in 1..w.written : k \in 1..Size /\ k <= start
          BY <1>1 DEF start
        <5>. QED  BY <4>7, <5>1
      <4>9. ASSUME n < Size - start PROVE \A i \in 1..n : new[start + i] = s[i]
        <5>1. m = n
          BY <4>9 DEF m, available
        <5>2. Len(zero) \in Nat
          BY <4>2
        <5>3. \A i \in 1..n : i \in 1..Len(part) /\ i \in 1..Len(bytes) /\ start + i <= Size
          BY <1>1, <2>1, <4>1, <4>3, <4>4, <4>9, <5>1, <5>2
        <5>4. \A i \in 1..n : bytes[i] = s[i]
          BY <4>3, <4>4, <5>1, <5>3
        <5>. QED  BY <4>7, <5>3, <5>4
      <4>. QED  BY <4>7, <4>8, <4>9
    <3>. QED  BY <3>2, <3>3
  <2>5. CASE ~ValueFits(s, Size - w.written - 4)
    <3>1. v = [data |-> new, written |-> w.written, last |-> w.last, full |-> TRUE]
      <4>1. v = [printed EXCEPT !.full = TRUE]
        BY <2>3, <2>5
      <4>. HIDE DEF v, new, printed
      <4>. QED  BY <2>2, <4>1
    <3>. HIDE DEF v, h, new
    <3>2. Extends(w, v, h \o s)
      BY <2>4, <3>1, Filled
    <3>. QED  BY <3>2 DEF v, h
  <2>6. CASE ValueFits(s, Size - w.written - 4)
    <3>1. n < Size - start
      BY <1>1, <2>6 DEF ValueFits
    <3>. DEFINE last == Store(new, w.written, h)
    <3>2. v = [data |-> last, written |-> w.written + Len(h \o s), last |-> w.last, full |-> FALSE]
      <4>1. v = [Put(printed, h) EXCEPT !.written = @ + n]
        BY <2>3, <2>6
      <4>2. Check(printed, Len(h))
        BY <1>1, <2>1, <2>2 DEF Check
      <4>. HIDE DEF printed, v, new, h
      <4>3. Put(printed, h) = [printed EXCEPT !.data = last, !.written = w.written + 4]
        BY <1>1, <2>2, <4>2 DEF Put
      <4>. HIDE DEF last
      <4>4. Put(printed, h) = [data |-> last, written |-> w.written + 4, last |-> w.last, full |-> FALSE]
        BY <2>2, <4>3
      <4>5. v = [data |-> last, written |-> (w.written + 4) + n, last |-> w.last, full |-> FALSE]
        <5>. DEFINE r == [data |-> last, written |-> w.written + 4, last |-> w.last, full |-> FALSE]
        <5>1. v = [r EXCEPT !.written = @ + n]
          BY <4>1, <4>4
        <5>2. [r EXCEPT !.written = @ + n] = [data |-> last, written |-> (w.written + 4) + n, last |-> w.last, full |-> FALSE]
          <6>. DEFINE no == FALSE
          <6>2. r = [data |-> last, written |-> w.written + 4, last |-> w.last, full |-> no]
            OBVIOUS
          <6>. HIDE DEF r, n, no
          <6>3. [r EXCEPT !.written = @ + n] = [data |-> last, written |-> (w.written + 4) + n, last |-> w.last, full |-> no]
            BY <6>2
          <6>. QED  BY <6>3 DEF no
        <5>. QED  BY <5>1, <5>2, Zenon
      <4>6. Len(h \o s) = Len(h) + Len(s)
        <5>1. h \in Seq(Byte)
          BY <1>1
        <5>. QED  BY <5>1, Joined
      <4>7. (w.written + 4) + n = w.written + Len(h \o s)
        BY <1>1, <4>6
      <4>. QED  BY <4>5, <4>7
    <3>3. /\ last \in Buffers
          /\ \A k \in 1..Size : k <= w.written \/ k > w.written + Len(h) => last[k] = new[k]
          /\ \A i \in 1..Len(h) : w.written + i <= Size => last[w.written + i] = h[i]
      <4>. HIDE DEF new, h
      <4>. QED  BY <1>1, <2>4, Stored
    <3>. HIDE DEF new, h, last, v
    <3>4. \A k \in 1..w.written : last[k] = w.data[k]
      <4>1. \A k \in 1..w.written : k \in 1..Size /\ k <= w.written
        BY <1>1
      <4>. QED  BY <2>4, <3>3, <4>1
    <3>. DEFINE bytes == h \o s
    <3>5. bytes \in Seq(Byte) /\ Len(bytes) = 4 + n /\ (\A i \in 1..4 : bytes[i] = h[i]) /\ \A i \in 1..n : bytes[4 + i] = s[i]
      <4>1. h \in Seq(Byte)
        BY <1>1
      <4>2. bytes \in Seq(Byte) /\ Len(bytes) = Len(h) + Len(s) /\ \A i \in 1..Len(h) : bytes[i] = h[i]
        BY <4>1, Joined
      <4>3. ASSUME NEW i \in 1..Len(s) PROVE bytes[Len(h) + i] = s[i]
        BY <4>1, JoinedEnd
      <4>. HIDE DEF bytes
      <4>. QED  BY <1>1, <4>2, <4>3
    <3>. HIDE DEF bytes
    <3>6. \A i \in 1..Len(bytes) : last[w.written + i] = bytes[i]
      <4>. SUFFICES ASSUME NEW i \in 1..(4 + n) PROVE last[w.written + i] = bytes[i]
        BY <3>5
      <4>1. CASE i <= 4
        <5>1. i \in 1..4 /\ i \in 1..Len(h) /\ w.written + i <= Size
          BY <1>1, <2>1, <4>1
        <5>. QED  BY <3>3, <3>5, <5>1
      <4>2. CASE ~(i <= 4)
        <5>. DEFINE j == i - 4
        <5>1. j \in 1..n /\ i = 4 + j /\ w.written + i = start + j
          BY <1>1, <4>2
        <5>2. w.written + i \in 1..Size /\ w.written + i > w.written + Len(h)
          BY <1>1, <2>1, <3>1, <4>2
        <5>. HIDE DEF j, start
        <5>3. last[w.written + i] = new[start + j]
          BY <3>3, <5>1, <5>2
        <5>4. new[start + j] = s[j] /\ bytes[i] = s[j]
          BY <2>4, <3>1, <3>5, <5>1
        <5>. QED  BY <5>3, <5>4
      <4>. QED  BY <4>1, <4>2
    <3>7. w.written + Len(bytes) <= Size
      BY <1>1, <2>1, <3>1, <3>5
    <3>8. bytes \in Seq(Byte) /\ last \in Buffers
      BY <3>3, <3>5
    <3>9. v = [data |-> last, written |-> w.written + Len(bytes), last |-> w.last, full |-> FALSE]
      BY <3>2 DEF bytes
    <3>10. Extends(w, v, bytes)
      BY <2>1, <3>4, <3>6, <3>7, <3>8, <3>9, Extended
    <3>. QED  BY <3>10 DEF bytes, v, h
  <2>. QED  BY <2>5, <2>6
<1>. QED  BY <1>2, <1>3

\* The bytes of a field
FieldBytes(f) == IF f.by = "snprintf" THEN Int32(Len(f.text)) \o f.text ELSE f.text

\* The bytes of a field
LEMMA FieldType ==
  ASSUME NEW f \in Field
  PROVE  FieldBytes(f) \in Seq(Byte) /\ Len(FieldBytes(f)) \in Nat
<1>1. f.text \in Seq(Byte) /\ Len(f.text) \in Nat
  BY DEF Field
<1>. DEFINE h == Int32(Len(f.text))
<1>2. h \in Seq(Byte)
  BY <1>1, LongType
<1>. HIDE DEF h
<1>3. h \o f.text \in Seq(Byte)
  BY <1>1, <1>2, Joined
<1>4. FieldBytes(f) = IF f.by = "snprintf" THEN h \o f.text ELSE f.text
  BY DEF FieldBytes, h
<1>5. FieldBytes(f) \in Seq(Byte)
  BY <1>1, <1>3, <1>4
<1>. QED  BY <1>5

\* A field is written as its bytes; one that is copied needs no more room than they.
LEMMA PutFieldRight ==
  ASSUME NEW w \in Writers, NEW f \in Field
  PROVE  Extends(w, PutField(w, f), FieldBytes(f)) /\ (f.by = "copy" => Copies(w, PutField(w, f), FieldBytes(f)))
<1>1. f.text \in Seq(Byte) /\ f.by \in {"copy", "snprintf", "strftime"}
  BY DEF Field
<1>2. CASE f.by = "copy"
  <2>1. PutField(w, f) = Put(w, f.text) /\ FieldBytes(f) = f.text
    BY <1>2 DEF PutField, FieldBytes
  <2>2. Copies(w, Put(w, f.text), f.text)
    BY <1>1, PutRight
  <2>. QED  BY <2>1, <2>2 DEF Copies
<1>3. CASE f.by = "snprintf"
  <2>1. PutField(w, f) = PutValue(w, f.text) /\ FieldBytes(f) = Int32(Len(f.text)) \o f.text
    BY <1>3 DEF PutField, FieldBytes
  <2>. QED  BY <1>1, <1>3, <2>1, PutValueRight
<1>4. CASE f.by = "strftime"
  <2>1. PutField(w, f) = PutTime(w, f.text) /\ FieldBytes(f) = f.text
    BY <1>4 DEF PutField, FieldBytes
  <2>. QED  BY <1>1, <1>4, <2>1, PutTimeRight
<1>. QED  BY <1>1, <1>2, <1>3, <1>4

\* A writer with nothing behind it
LEMMA NothingPut ==
  ASSUME NEW w \in Writers
  PROVE  Copies(w, w, <<>>)
<1>1. Content(w) \in Seq(Byte)
  BY WriterType
<1>2. Content(w) \o <<>> = Content(w)
  BY <1>1
<1>. QED  BY <1>2 DEF Copies, Extends

\* Sequences are joined in any order.
LEMMA Associative ==
  ASSUME NEW A, NEW a \in Seq(A), NEW b \in Seq(A), NEW c \in Seq(A)
  PROVE  (a \o b) \o c = a \o (b \o c)
OBVIOUS

\* Bytes behind bytes
LEMMA ExtendsOn ==
  ASSUME NEW u \in Writers, NEW v, NEW w, NEW a \in Seq(Byte), NEW b \in Seq(Byte),
         Extends(u, v, a), Extends(v, w, b)
  PROVE  Extends(u, w, a \o b)
<1>1. Content(u) \in Seq(Byte)
  BY WriterType
<1>2. (Content(u) \o a) \o b = Content(u) \o (a \o b)
  BY <1>1, Associative
<1>. QED  BY <1>2 DEF Extends

\* What is written is as long as its bytes.
LEMMA ExtendedLength ==
  ASSUME NEW u \in Writers, NEW v, NEW a \in Seq(Byte), Extends(u, v, a), ~v.full
  PROVE  v.written = u.written + Len(a)
<1>1. v \in Writers /\ Content(v) = Content(u) \o a
  BY DEF Extends
<1>2. Len(Content(v)) = v.written /\ Len(Content(u)) = u.written /\ Content(u) \in Seq(Byte)
  BY <1>1, WriterType
<1>3. Len(Content(u) \o a) = Len(Content(u)) + Len(a)
  BY <1>2, Joined
<1>. QED  BY <1>1, <1>2, <1>3

\* Copied bytes behind copied bytes
LEMMA CopiesOn ==
  ASSUME NEW u \in Writers, NEW v, NEW w, NEW a \in Seq(Byte), NEW b \in Seq(Byte),
         Copies(u, v, a), Copies(v, w, b)
  PROVE  Copies(u, w, a \o b)
<1>1. Extends(u, w, a \o b)
  BY ExtendsOn DEF Copies
<1>2. ASSUME ~u.full, u.written + Len(a \o b) <= Size
      PROVE  ~w.full
  <2>1. u.written \in Nat /\ Len(a) \in Nat /\ Len(b) \in Nat /\ Len(a \o b) = Len(a) + Len(b) /\ Size \in Nat
    BY WriterType, Joined, SizeType
  <2>2. u.written + Len(a) <= Size
    BY <1>2, <2>1
  <2>3. ~v.full
    BY <1>2, <2>2 DEF Copies
  <2>4. v.written = u.written + Len(a)
    BY <2>3, ExtendedLength DEF Copies
  <2>5. v.written + Len(b) <= Size
    BY <1>2, <2>1, <2>4
  <2>. QED  BY <2>3, <2>5 DEF Copies
<1>. QED  BY <1>1, <1>2 DEF Copies

\* Pieces that are put together one after the other
Chain(c, n, piece) ==
  /\ c \in [0..n -> Seq(Byte)] /\ c[0] = <<>>
  /\ \A k \in 1..n : c[k] = c[k - 1] \o piece[k]

\* The beginnings of a sequence of pieces, joined
LEMMA ChainExists ==
  ASSUME NEW n \in Nat, NEW piece \in [1..n -> Seq(Byte)]
  PROVE  \E c : Chain(c, n, piece)
<1>. DEFINE step == [x \in Seq(Byte) \X (1..n) |-> x[1] \o piece[x[2]]]
            empty == <<>>
<1>1. step \in [Seq(Byte) \X (1..n) -> Seq(Byte)] /\ empty \in Seq(Byte)
  OBVIOUS
<1>2. \A s \in Seq(Byte), k \in 1..n : step[<<s, k>>] = s \o piece[k]
  OBVIOUS
<1>. HIDE DEF step, empty
<1>3. PICK c \in [0..n -> Seq(Byte)] : c[0] = empty /\ \A k \in 1..n : c[k] = step[<<c[k - 1], k>>]
  <2>1. \A s \in Seq(Byte), k \in 1..n : step[<<s, k>>] \in Seq(Byte)
    BY <1>1
  <2>2. \E c : Loop(c, n, Seq(Byte), empty, step)
    BY <1>1, <2>1, Recursion
  <2>. QED  BY <2>2 DEF Loop
<1>5. ASSUME NEW k \in 1..n
      PROVE  c[k] = c[k - 1] \o piece[k]
  <2>1. k \in 0..n /\ k # 0 /\ k - 1 \in 0..n
    OBVIOUS
  <2>2. c[k] = step[<<c[k - 1], k>>]
    BY <1>3
  <2>3. c[k - 1] \in Seq(Byte)
    BY <1>3, <2>1
  <2>. QED  BY <1>2, <2>2, <2>3
<1>6. Chain(c, n, piece)
  BY <1>3, <1>5 DEF Chain, empty
<1>. QED  BY <1>6

\* Writers that put one piece after the other
LEMMA ExtendsAlong ==
  ASSUME NEW n \in Nat, NEW g \in [0..n -> Writers], NEW piece \in [1..n -> Seq(Byte)],
         NEW c, Chain(c, n, piece), \A k \in 1..n : Extends(g[k - 1], g[k], piece[k])
  PROVE  Extends(g[0], g[n], c[n])
<1>. DEFINE Good == {k \in Nat : k <= n => Extends(g[0], g[k], c[k])}
<1>1. 0 \in Good
  <2>1. Copies(g[0], g[0], <<>>)
    BY NothingPut
  <2>. QED  BY <2>1 DEF Copies, Chain
<1>2. ASSUME NEW m \in Nat, m \in Good PROVE m + 1 \in Good
  <2>. SUFFICES ASSUME m + 1 <= n PROVE Extends(g[0], g[m + 1], c[m + 1])
    OBVIOUS
  <2>1. m + 1 \in 1..n /\ (m + 1) - 1 = m /\ m \in 0..n /\ 0 \in 0..n
    OBVIOUS
  <2>2. Extends(g[0], g[m], c[m])
    BY <1>2, <2>1
  <2>3. Extends(g[m], g[m + 1], piece[m + 1]) /\ c[m + 1] = c[m] \o piece[m + 1]
    BY <2>1 DEF Chain
  <2>4. g[0] \in Writers /\ c[m] \in Seq(Byte) /\ piece[m + 1] \in Seq(Byte)
    BY <2>1 DEF Chain
  <2>5. Extends(g[0], g[m + 1], c[m] \o piece[m + 1])
    BY <2>2, <2>3, <2>4, ExtendsOn
  <2>. QED  BY <2>3, <2>5
<1>. HIDE DEF Good
<1>3. n \in Good
  BY <1>1, <1>2, Induction
<1>. QED  BY <1>3 DEF Good

\* Pieces that are copied one after the other are copied as a whole.
LEMMA CopiesAlong ==
  ASSUME NEW n \in Nat, NEW g \in [0..n -> Writers], NEW piece \in [1..n -> Seq(Byte)],
         NEW c, Chain(c, n, piece), \A k \in 1..n : Copies(g[k - 1], g[k], piece[k])
  PROVE  Copies(g[0], g[n], c[n])
<1>. DEFINE Good == {k \in Nat : k <= n => Copies(g[0], g[k], c[k])}
<1>1. 0 \in Good
  <2>1. Copies(g[0], g[0], <<>>)
    BY NothingPut
  <2>. QED  BY <2>1 DEF Chain
<1>2. ASSUME NEW m \in Nat, m \in Good PROVE m + 1 \in Good
  <2>. SUFFICES ASSUME m + 1 <= n PROVE Copies(g[0], g[m + 1], c[m + 1])
    OBVIOUS
  <2>1. m + 1 \in 1..n /\ (m + 1) - 1 = m /\ m \in 0..n /\ 0 \in 0..n
    OBVIOUS
  <2>2. Copies(g[0], g[m], c[m])
    BY <1>2, <2>1
  <2>3. Copies(g[m], g[m + 1], piece[m + 1]) /\ c[m + 1] = c[m] \o piece[m + 1]
    BY <2>1 DEF Chain
  <2>4. g[0] \in Writers /\ c[m] \in Seq(Byte) /\ piece[m + 1] \in Seq(Byte)
    BY <2>1 DEF Chain
  <2>5. Copies(g[0], g[m + 1], c[m] \o piece[m + 1])
    BY <2>2, <2>3, <2>4, CopiesOn
  <2>. QED  BY <2>3, <2>5
<1>. HIDE DEF Good
<1>3. n \in Good
  BY <1>1, <1>2, Induction
<1>. QED  BY <1>3 DEF Good

\* The only element of a set is the one that is chosen.
LEMMA OneChosen ==
  ASSUME NEW X, NEW r, r \in X, \A y \in X : y = r
  PROVE  (CHOOSE y \in X : TRUE) = r
OBVIOUS

\* Fields are put one after the other.
LEMMA PutFieldsSteps ==
  ASSUME NEW w \in Writers, NEW fields \in Seq(Field)
  PROVE  \E g \in [0..Len(fields) -> Writers] :
           /\ g[0] = w /\ PutFields(w, fields) = g[Len(fields)]
           /\ \A k \in 1..Len(fields) : g[k] = PutField(g[k - 1], fields[k])
<1>. DEFINE n == Len(fields)
            next == [x \in Writers \X (1..n) |-> PutField(x[1], fields[x[2]])]
            F(h, k) == IF k = 0 THEN w ELSE Then(h[k - 1], LAMBDA v : PutField(v, fields[k]))
            G(h, k) == IF k = 0 THEN w ELSE PutField(h[k - 1], fields[k])
<1>1. n \in Nat /\ \A k \in 1..n : fields[k] \in Field
  OBVIOUS
<1>2. ASSUME NEW v \in Writers, NEW k \in 1..n
      PROVE  PutField(v, fields[k]) \in Writers
  BY <1>1, PutFieldRight DEF Extends
<1>3. \A v \in Writers, k \in 1..n : next[<<v, k>>] = PutField(v, fields[k]) /\ next[<<v, k>>] \in Writers
  <2>. SUFFICES ASSUME NEW v \in Writers, NEW k \in 1..n
                PROVE  next[<<v, k>>] = PutField(v, fields[k]) /\ next[<<v, k>>] \in Writers
    OBVIOUS
  <2>1. next[<<v, k>>] = PutField(v, fields[k])
    OBVIOUS
  <2>. QED  BY <1>2, <2>1
<1>4. ASSUME NEW h, NEW k
      PROVE  F(h, k) = G(h, k)
  <2>. DEFINE x == h[k - 1]
              X == {PutField(v, fields[k]) : v \in {x}}
  <2>1. PutField(x, fields[k]) \in X /\ \A y \in X : y = PutField(x, fields[k])
    OBVIOUS
  <2>2. Then(x, LAMBDA v : PutField(v, fields[k])) = CHOOSE y \in X : TRUE
    BY DEF Then
  <2>. HIDE DEF X
  <2>3. Then(x, LAMBDA v : PutField(v, fields[k])) = PutField(x, fields[k])
    BY <2>1, <2>2, OneChosen, Zenon
  <2>. QED  BY <2>3
<1>. DEFINE upTo == CHOOSE h : h = [k \in 0..n |-> F(h, k)]
<1>5. PutFields(w, fields) = upTo[n]
  BY DEF PutFields
<1>. HIDE DEF next, F, n
<1>6. PICK f : Loop(f, n, Writers, w, next)
  BY <1>1, <1>3, Recursion
<1>7. f = [k \in 0..n |-> F(f, k)]
  <2>1. ASSUME NEW k \in 0..n PROVE f[k] = F(f, k)
    <3>1. CASE k = 0
      BY <1>4, <1>6, <3>1 DEF Loop
    <3>2. CASE k # 0
      <4>1. k \in 1..n /\ k - 1 \in 0..n
        BY <1>1, <3>2
      <4>2. f[k] = next[<<f[k - 1], k>>] /\ f[k - 1] \in Writers
        BY <1>6, <4>1 DEF Loop
      <4>3. f[k] = PutField(f[k - 1], fields[k])
        BY <1>3, <4>1, <4>2
      <4>. QED  BY <1>4, <3>2, <4>3
    <3>. QED  BY <3>1, <3>2
  <2>. QED  BY <1>6, <2>1 DEF Loop
<1>8. upTo = [k \in 0..n |-> F(upTo, k)]
  BY <1>7
<1>. HIDE DEF upTo
<1>9. upTo[0] = w /\ \A k \in 1..n : upTo[k] = PutField(upTo[k - 1], fields[k])
  <2>1. \A k \in 0..n : upTo[k] = G(upTo, k)
    BY <1>4, <1>8
  <2>2. 0 \in 0..n /\ \A k \in 1..n : k \in 0..n /\ k # 0
    BY <1>1
  <2>. QED  BY <2>1, <2>2
<1>10. \A k \in 0..n : upTo[k] \in Writers
  <2>1. \A m \in 0..(n - 1) : upTo[m] \in Writers => upTo[m + 1] \in Writers
    <3>. SUFFICES ASSUME NEW m \in 0..(n - 1), upTo[m] \in Writers PROVE upTo[m + 1] \in Writers
      OBVIOUS
    <3>1. m + 1 \in 1..n /\ (m + 1) - 1 = m
      BY <1>1
    <3>2. upTo[m + 1] = PutField(upTo[m], fields[m + 1])
      BY <1>9, <3>1
    <3>. QED  BY <1>2, <3>1, <3>2
  <2>. QED  BY <1>1, <1>9, <2>1, StaysIn
<1>11. upTo \in [0..n -> Writers]
  BY <1>8, <1>10
<1>. QED  BY <1>5, <1>9, <1>11 DEF n

\* The bytes of fields, and of groups of fields
Together(b, n, piece) == \E c : Chain(c, n, piece) /\ b = c[n]
FieldPieces(fields) == [k \in 1..Len(fields) |-> FieldBytes(fields[k])]
Holds(fields, b) == Together(b, Len(fields), FieldPieces(fields))
GroupsHold(groups, b) ==
  \E p \in [1..Len(groups) -> Seq(Byte)] :
    Together(b, Len(groups), p) /\ \A k \in 1..Len(groups) : Holds(groups[k], p[k])

Copied(fields) == \A k \in 1..Len(fields) : fields[k].by = "copy"

\* Fields are written one after the other (operator<< and the add methods).
LEMMA PutFieldsRight ==
  ASSUME NEW w \in Writers, NEW fields \in Seq(Field)
  PROVE  \E b \in Seq(Byte) :
           /\ Holds(fields, b) /\ Extends(w, PutFields(w, fields), b)
           /\ Copied(fields) => Copies(w, PutFields(w, fields), b)
<1>. DEFINE n == Len(fields)
            piece == FieldPieces(fields)
<1>1. n \in Nat /\ \A k \in 1..n : fields[k] \in Field
  OBVIOUS
<1>2. piece \in [1..n -> Seq(Byte)] /\ \A k \in 1..n : piece[k] = FieldBytes(fields[k])
  BY <1>1, FieldType DEF FieldPieces
<1>3. PICK g \in [0..n -> Writers] :
        /\ g[0] = w /\ PutFields(w, fields) = g[n]
        /\ \A k \in 1..n : g[k] = PutField(g[k - 1], fields[k])
  BY PutFieldsSteps
<1>. HIDE DEF n, piece
<1>4. PICK c : Chain(c, n, piece)
  BY <1>1, <1>2, ChainExists
<1>5. \A k \in 1..n : g[k - 1] \in Writers
  BY <1>1, <1>3
<1>6. \A k \in 1..n : Extends(g[k - 1], g[k], piece[k])
  BY <1>1, <1>2, <1>3, <1>5, PutFieldRight
<1>7. Extends(w, g[n], c[n])
  BY <1>1, <1>2, <1>3, <1>4, <1>6, ExtendsAlong
<1>8. ASSUME Copied(fields) PROVE Copies(w, g[n], c[n])
  <2>1. \A k \in 1..n : Copies(g[k - 1], g[k], piece[k])
    BY <1>1, <1>2, <1>3, <1>5, <1>8, PutFieldRight DEF Copied, n
  <2>. QED  BY <1>1, <1>2, <1>3, <1>4, <2>1, CopiesAlong
<1>9. c[n] \in Seq(Byte) /\ Holds(fields, c[n])
  <2>1. c[n] \in Seq(Byte)
    BY <1>1, <1>4 DEF Chain
  <2>2. Together(c[n], n, piece)
    BY <1>4 DEF Together
  <2>. QED  BY <2>1, <2>2 DEF Holds, n, piece
<1>. QED  BY <1>3, <1>7, <1>8, <1>9

\* Groups of fields are put one after the other.
LEMMA PutGroupsSteps ==
  ASSUME NEW w \in Writers, NEW groups \in Seq(Seq(Field))
  PROVE  \E g \in [0..Len(groups) -> Writers] :
           /\ g[0] = w /\ PutGroups(w, groups) = g[Len(groups)]
           /\ \A k \in 1..Len(groups) : g[k] = PutFields(g[k - 1], groups[k])
<1>. DEFINE n == Len(groups)
            next == [x \in Writers \X (1..n) |-> PutFields(x[1], groups[x[2]])]
            F(h, k) == IF k = 0 THEN w
                       ELSE Then(h[k - 1], LAMBDA v : Then(groups[k], LAMBDA g : PutFields(v, g)))
            G(h, k) == IF k = 0 THEN w ELSE PutFields(h[k - 1], groups[k])
<1>1. n \in Nat /\ \A k \in 1..n : groups[k] \in Seq(Field)
  OBVIOUS
<1>2. ASSUME NEW v \in Writers, NEW k \in 1..n
      PROVE  PutFields(v, groups[k]) \in Writers
  BY <1>1, PutFieldsRight DEF Extends
<1>3. \A v \in Writers, k \in 1..n : next[<<v, k>>] = PutFields(v, groups[k]) /\ next[<<v, k>>] \in Writers
  <2>. SUFFICES ASSUME NEW v \in Writers, NEW k \in 1..n
                PROVE  next[<<v, k>>] = PutFields(v, groups[k]) /\ next[<<v, k>>] \in Writers
    OBVIOUS
  <2>1. next[<<v, k>>] = PutFields(v, groups[k])
    OBVIOUS
  <2>. QED  BY <1>2, <2>1
<1>4. ASSUME NEW h, NEW k
      PROVE  F(h, k) = G(h, k)
  <2>. DEFINE x == h[k - 1]
              y == groups[k]
              Inner(v) == {PutFields(v, g) : g \in {y}}
              Outer == {Then(y, LAMBDA g : PutFields(v, g)) : v \in {x}}
  <2>1. ASSUME NEW v
        PROVE  Then(y, LAMBDA g : PutFields(v, g)) = PutFields(v, y)
    <3>1. PutFields(v, y) \in Inner(v) /\ \A z \in Inner(v) : z = PutFields(v, y)
      OBVIOUS
    <3>2. Then(y, LAMBDA g : PutFields(v, g)) = CHOOSE z \in Inner(v) : TRUE
      BY DEF Then
    <3>. HIDE DEF Inner
    <3>. QED  BY <3>1, <3>2, OneChosen, Zenon
  <2>2. PutFields(x, y) \in Outer /\ \A z \in Outer : z = PutFields(x, y)
    BY <2>1
  <2>3. Then(x, LAMBDA v : Then(y, LAMBDA g : PutFields(v, g))) = CHOOSE z \in Outer : TRUE
    BY DEF Then
  <2>. HIDE DEF Outer
  <2>4. Then(x, LAMBDA v : Then(y, LAMBDA g : PutFields(v, g))) = PutFields(x, y)
    BY <2>2, <2>3, OneChosen, Zenon
  <2>. QED  BY <2>4
<1>. DEFINE upTo == CHOOSE h : h = [k \in 0..n |-> F(h, k)]
<1>5. PutGroups(w, groups) = upTo[n]
  BY DEF PutGroups
<1>. HIDE DEF next, F, n
<1>6. PICK f : Loop(f, n, Writers, w, next)
  BY <1>1, <1>3, Recursion
<1>7. f = [k \in 0..n |-> F(f, k)]
  <2>1. ASSUME NEW k \in 0..n PROVE f[k] = F(f, k)
    <3>1. CASE k = 0
      BY <1>4, <1>6, <3>1 DEF Loop
    <3>2. CASE k # 0
      <4>1. k \in 1..n /\ k - 1 \in 0..n
        BY <1>1, <3>2
      <4>2. f[k] = next[<<f[k - 1], k>>] /\ f[k - 1] \in Writers
        BY <1>6, <4>1 DEF Loop
      <4>3. f[k] = PutFields(f[k - 1], groups[k])
        BY <1>3, <4>1, <4>2
      <4>. QED  BY <1>4, <3>2, <4>3
    <3>. QED  BY <3>1, <3>2
  <2>. QED  BY <1>6, <2>1 DEF Loop
<1>8. upTo = [k \in 0..n |-> F(upTo, k)]
  BY <1>7
<1>. HIDE DEF upTo
<1>9. upTo[0] = w /\ \A k \in 1..n : upTo[k] = PutFields(upTo[k - 1], groups[k])
  <2>1. \A k \in 0..n : upTo[k] = G(upTo, k)
    BY <1>4, <1>8
  <2>2. 0 \in 0..n /\ \A k \in 1..n : k \in 0..n /\ k # 0
    BY <1>1
  <2>. QED  BY <2>1, <2>2
<1>10. \A k \in 0..n : upTo[k] \in Writers
  <2>1. \A m \in 0..(n - 1) : upTo[m] \in Writers => upTo[m + 1] \in Writers
    <3>. SUFFICES ASSUME NEW m \in 0..(n - 1), upTo[m] \in Writers PROVE upTo[m + 1] \in Writers
      OBVIOUS
    <3>1. m + 1 \in 1..n /\ (m + 1) - 1 = m
      BY <1>1
    <3>2. upTo[m + 1] = PutFields(upTo[m], groups[m + 1])
      BY <1>9, <3>1
    <3>. QED  BY <1>2, <3>1, <3>2
  <2>. QED  BY <1>1, <1>9, <2>1, StaysIn
<1>11. upTo \in [0..n -> Writers]
  BY <1>8, <1>10
<1>. QED  BY <1>5, <1>9, <1>11 DEF n

\* Groups of fields are written one after the other, as the columns of a row.
LEMMA PutGroupsRight ==
  ASSUME NEW w \in Writers, NEW groups \in Seq(Seq(Field))
  PROVE  \E b \in Seq(Byte) :
           /\ GroupsHold(groups, b) /\ Extends(w, PutGroups(w, groups), b)
           /\ (\A k \in 1..Len(groups) : Copied(groups[k])) => Copies(w, PutGroups(w, groups), b)
<1>. DEFINE n == Len(groups)
<1>1. n \in Nat /\ \A k \in 1..n : groups[k] \in Seq(Field)
  OBVIOUS
<1>2. PICK g \in [0..n -> Writers] :
        /\ g[0] = w /\ PutGroups(w, groups) = g[n]
        /\ \A k \in 1..n : g[k] = PutFields(g[k - 1], groups[k])
  BY PutGroupsSteps
<1>. HIDE DEF n
<1>. DEFINE P0(k, b) == /\ Holds(groups[k], b) /\ Extends(g[k - 1], g[k], b)
                        /\ Copied(groups[k]) => Copies(g[k - 1], g[k], b)
            p == [k \in 1..n |-> CHOOSE b \in Seq(Byte) : P0(k, b)]
<1>3. \A k \in 1..n : \E b \in Seq(Byte) : P0(k, b)
  <2>. SUFFICES ASSUME NEW k \in 1..n PROVE \E b \in Seq(Byte) : P0(k, b)
    OBVIOUS
  <2>1. g[k - 1] \in Writers /\ groups[k] \in Seq(Field) /\ g[k] = PutFields(g[k - 1], groups[k])
    BY <1>1, <1>2
  <2>. QED  BY <2>1, PutFieldsRight
<1>. HIDE DEF P0
<1>4. \A k \in 1..n : p[k] \in Seq(Byte) /\ P0(k, p[k])
  BY <1>3
<1>5. p \in [1..n -> Seq(Byte)]
  BY <1>4
<1>. HIDE DEF p
<1>6. PICK c : Chain(c, n, p)
  BY <1>1, <1>5, ChainExists
<1>7. \A k \in 1..n : Extends(g[k - 1], g[k], p[k]) /\ Holds(groups[k], p[k])
  BY <1>4 DEF P0
<1>8. Extends(w, g[n], c[n])
  BY <1>1, <1>2, <1>5, <1>6, <1>7, ExtendsAlong
<1>9. ASSUME \A k \in 1..n : Copied(groups[k]) PROVE Copies(w, g[n], c[n])
  <2>1. \A k \in 1..n : Copies(g[k - 1], g[k], p[k])
    BY <1>4, <1>9 DEF P0
  <2>. QED  BY <1>1, <1>2, <1>5, <1>6, <2>1, CopiesAlong
<1>10. c[n] \in Seq(Byte) /\ GroupsHold(groups, c[n])
  <2>1. c[n] \in Seq(Byte)
    BY <1>1, <1>6 DEF Chain
  <2>2. Together(c[n], n, p)
    BY <1>6 DEF Together
  <2>. QED  BY <1>5, <1>7, <2>1, <2>2 DEF GroupsHold, n
<1>. QED  BY <1>2, <1>8, <1>9, <1>10 DEF n

\* What is put together from no piece, and from one more
LEMMA TogetherNone ==
  ASSUME NEW b, NEW piece, Together(b, 0, piece)
  PROVE  b = <<>>
BY DEF Together, Chain

\* The last of some pieces is the end of the whole.
LEMMA TogetherMore ==
  ASSUME NEW n \in Nat, NEW b, NEW piece, Together(b, n + 1, piece)
  PROVE  \E a \in Seq(Byte) : Together(a, n, piece) /\ b = a \o piece[n + 1]
<1>1. PICK c : Chain(c, n + 1, piece) /\ b = c[n + 1]
  BY DEF Together
<1>. DEFINE d == [k \in 0..n |-> c[k]]
<1>2. n \in 0..n /\ n + 1 \in 1..(n + 1) /\ (n + 1) - 1 = n /\ n \in 0..(n + 1) /\ 0 \in 0..n
  OBVIOUS
<1>3. c \in [0..(n + 1) -> Seq(Byte)] /\ c[0] = <<>> /\ \A k \in 1..(n + 1) : c[k] = c[k - 1] \o piece[k]
  BY <1>1 DEF Chain
<1>4. d \in [0..n -> Seq(Byte)]
  BY <1>3
<1>5. \A k \in 1..n : d[k] = d[k - 1] \o piece[k]
  <2>. SUFFICES ASSUME NEW k \in 1..n PROVE d[k] = d[k - 1] \o piece[k]
    OBVIOUS
  <2>1. k \in 1..(n + 1) /\ k \in 0..n /\ k - 1 \in 0..n
    OBVIOUS
  <2>. QED  BY <1>3, <2>1
<1>6. d[0] = <<>> /\ d[n] = c[n]
  BY <1>2, <1>3
<1>. HIDE DEF d
<1>7. Together(d[n], n, piece)
  BY <1>4, <1>5, <1>6 DEF Together, Chain
<1>8. b = d[n] \o piece[n + 1] /\ d[n] \in Seq(Byte)
  BY <1>1, <1>2, <1>3, <1>4, <1>6
<1>. QED  BY <1>7, <1>8

\* One piece is the whole.
LEMMA TogetherOne ==
  ASSUME NEW b, NEW piece, piece[1] \in Seq(Byte), Together(b, 1, piece)
  PROVE  b = piece[1]
<1>1. PICK a \in Seq(Byte) : Together(a, 0, piece) /\ b = a \o piece[1]
  <2>. DEFINE n == 0
  <2>1. n \in Nat /\ n + 1 = 1
    OBVIOUS
  <2>. HIDE DEF n
  <2>2. Together(b, n + 1, piece)
    BY <2>1
  <2>3. \E a \in Seq(Byte) : Together(a, n, piece) /\ b = a \o piece[n + 1]
    BY <2>1, <2>2, TogetherMore
  <2>4. \E a \in Seq(Byte) : Together(a, n, piece) /\ b = a \o piece[1]
    BY <2>1, <2>3
  <2>. QED  BY <2>4 DEF n
<1>2. a = <<>>
  BY <1>1, TogetherNone
<1>. QED  BY <1>1, <1>2

\* Two pieces are joined.
LEMMA TogetherTwo ==
  ASSUME NEW b, NEW piece, piece[1] \in Seq(Byte), piece[2] \in Seq(Byte), Together(b, 2, piece)
  PROVE  b = piece[1] \o piece[2]
<1>1. PICK a \in Seq(Byte) : Together(a, 1, piece) /\ b = a \o piece[2]
  <2>. DEFINE n == 1
  <2>1. n \in Nat /\ n + 1 = 2
    OBVIOUS
  <2>. HIDE DEF n
  <2>2. Together(b, n + 1, piece)
    BY <2>1
  <2>3. \E a \in Seq(Byte) : Together(a, n, piece) /\ b = a \o piece[n + 1]
    BY <2>1, <2>2, TogetherMore
  <2>4. \E a \in Seq(Byte) : Together(a, n, piece) /\ b = a \o piece[2]
    BY <2>1, <2>3
  <2>. QED  BY <2>4 DEF n
<1>2. a = piece[1]
  BY <1>1, TogetherOne
<1>. QED  BY <1>1, <1>2

\* No fields have no bytes.
LEMMA HoldsNone ==
  ASSUME NEW b, Holds(<<>>, b)
  PROVE  b = <<>>
<1>1. Len(<<>>) = 0
  OBVIOUS
<1>2. Together(b, 0, FieldPieces(<<>>))
  BY <1>1 DEF Holds
<1>. QED  BY <1>2, TogetherNone

\* One field has its bytes.
LEMMA HoldsOne ==
  ASSUME NEW f \in Field, NEW b, Holds(<<f>>, b)
  PROVE  b = FieldBytes(f)
<1>. DEFINE piece == FieldPieces(<<f>>)
<1>1. Len(<<f>>) = 1
  OBVIOUS
<1>2. Together(b, 1, piece)
  BY <1>1 DEF Holds
<1>3. piece[1] = FieldBytes(f)
  BY <1>1 DEF FieldPieces
<1>. HIDE DEF piece
<1>4. FieldBytes(f) \in Seq(Byte)
  BY FieldType
<1>. QED  BY <1>2, <1>3, <1>4, TogetherOne

\* Two fields have the bytes of the first and then those of the second.
LEMMA HoldsTwo ==
  ASSUME NEW f \in Field, NEW g \in Field, NEW b, Holds(<<f, g>>, b)
  PROVE  b = FieldBytes(f) \o FieldBytes(g)
<1>. DEFINE piece == FieldPieces(<<f, g>>)
<1>1. Len(<<f, g>>) = 2
  OBVIOUS
<1>2. Together(b, 2, piece)
  BY <1>1 DEF Holds
<1>3. piece[1] = FieldBytes(f) /\ piece[2] = FieldBytes(g)
  BY <1>1 DEF FieldPieces
<1>. HIDE DEF piece
<1>4. FieldBytes(f) \in Seq(Byte) /\ FieldBytes(g) \in Seq(Byte)
  BY FieldType
<1>. QED  BY <1>2, <1>3, <1>4, TogetherTwo

\* A field that is copied
LEMMA CopyField ==
  ASSUME NEW b \in Seq(Byte)
  PROVE  Bytes(b) \in Field /\ FieldBytes(Bytes(b)) = b /\ Bytes(b).by = "copy"
BY DEF Bytes, Field, FieldBytes

-----------------------------------------------------------------------------
(* Messages                                                                 *)

\* A message begins behind what was written, whether that was too much or not.
LEMMA BeginRight ==
  ASSUME NEW w \in Writers, NEW type \in Byte
  PROVE  \E u \in Writers :
           /\ ~u.full /\ u.written = w.written /\ u.last = w.last /\ Content(u) = Content(w) /\ Kept(u) = Kept(w)
           /\ Copies(u, Begin(w, type), <<type>> \o Int32(0))
<1>. DEFINE u == [w EXCEPT !.full = FALSE]
            tb == <<type>>
            lb == Int32(0)
            f == Bytes(tb)
            g == Bytes(lb)
            fields == <<f, g>>
<1>1. w.data \in Buffers /\ w.written \in 0..Size /\ w.last \in 0..Size /\ w.last <= w.written
  BY WriterType
<1>2. u = [data |-> w.data, written |-> w.written, last |-> w.last, full |-> FALSE]
  <2>. DEFINE no == FALSE
  <2>1. u = [w EXCEPT !.full = no]
    OBVIOUS
  <2>. HIDE DEF no, u
  <2>2. u = [data |-> w.data, written |-> w.written, last |-> w.last, full |-> no]
    BY <2>1 DEF Writers
  <2>. QED  BY <2>2 DEF no
<1>3. Begin(w, type) = PutFields(u, fields)
  BY DEF Begin
<1>4. tb \in Seq(Byte) /\ lb \in Seq(Byte)
  BY LongType
<1>. HIDE DEF u, tb, lb
<1>5. u \in Writers
  BY <1>1, <1>2 DEF Writers
<1>6. ~u.full /\ u.written = w.written /\ u.last = w.last /\ Content(u) = Content(w) /\ Kept(u) = Kept(w)
  BY <1>2 DEF Content, Kept
<1>7. /\ f \in Field /\ FieldBytes(f) = tb /\ f.by = "copy"
      /\ g \in Field /\ FieldBytes(g) = lb /\ g.by = "copy"
  BY <1>4, CopyField
<1>. HIDE DEF f, g
<1>8. fields \in Seq(Field) /\ Copied(fields)
  BY <1>7 DEF Copied
<1>9. PICK b \in Seq(Byte) : Holds(fields, b) /\ (Copied(fields) => Copies(u, PutFields(u, fields), b))
  <2>. HIDE DEF fields
  <2>. QED  BY <1>5, <1>8, PutFieldsRight
<1>10. b = tb \o lb
  BY <1>7, <1>9, HoldsTwo
<1>11. Copies(u, Begin(w, type), tb \o lb)
  BY <1>3, <1>8, <1>9, <1>10
<1>. QED  BY <1>5, <1>6, <1>11 DEF tb, lb

\* What became of a message with a body
Wrote(w, v, type, body) ==
  /\ v \in Writers
  /\ v.full => Kept(v) = Kept(w) /\ v.last = w.last
  /\ ~v.full => /\ v.written = v.last /\ v.last = w.last + (5 + Len(body))
                /\ Kept(v) = Kept(w) \o Encoded(type, body)

\* end() writes the length of the message where begin() left room for it.
LEMMA EndRight ==
  ASSUME NEW w \in Writers, w.written = w.last, NEW type \in Byte, NEW body \in Seq(Byte),
         NEW v \in Writers, ~v.full, v.last = w.last, v.written = w.last + (5 + Len(body)),
         Content(v) = Kept(w) \o ((<<type>> \o Int32(0)) \o body)
  PROVE  Wrote(w, End(v), type, body) /\ ~End(v).full
<1>. DEFINE at == w.last
            n == Len(body)
            len == Int32(v.written - v.last - 1)
            new == Store(v.data, at + 1, len)
            r == End(v)
            k0 == Kept(w)
            tb == <<type>>
            z == Int32(0)
            e == Encoded(type, body)
<1>1. /\ v.data \in Buffers /\ v.written \in 0..Size /\ v.last \in 0..Size /\ at \in Nat
      /\ k0 \in Seq(Byte) /\ Len(k0) = at /\ n \in Nat /\ Size \in Nat
  BY WriterType, SizeType
<1>2. v.written - v.last - 1 = 4 + n /\ at + (5 + n) \in 0..Size
  BY <1>1
<1>3. len = Int32(4 + n) /\ len \in Seq(Byte) /\ Len(len) = 4
  BY <1>1, <1>2, LongType
<1>4. r = [data |-> new, written |-> v.written, last |-> v.written, full |-> FALSE]
  <2>1. r = [v EXCEPT !.data = new, !.last = v.written]
    BY DEF End
  <2>. HIDE DEF new, r
  <2>2. v.full = FALSE
    BY WriterType
  <2>. QED  BY <2>1, <2>2 DEF Writers
<1>. HIDE DEF len, r
<1>5. /\ new \in Buffers
      /\ \A k \in 1..Size : k <= at + 1 \/ k > at + 1 + 4 => new[k] = v.data[k]
      /\ \A i \in 1..4 : at + 1 + i <= Size => new[at + 1 + i] = len[i]
  <2>1. at + 1 \in Nat
    BY <1>1
  <2>2. /\ new \in Buffers
        /\ \A k \in 1..Size : k <= at + 1 \/ k > at + 1 + Len(len) => new[k] = v.data[k]
        /\ \A i \in 1..Len(len) : at + 1 + i <= Size => new[at + 1 + i] = len[i]
    <3>. HIDE DEF at
    <3>. QED  BY <1>1, <1>3, <2>1, Stored, Zenon
  <2>. HIDE DEF new
  <2>. QED  BY <1>3, <2>2
<1>. HIDE DEF new, n, z, e, tb, k0
<1>6. r \in Writers
  BY <1>1, <1>4, <1>5 DEF Writers
<1>7. /\ e \in Seq(Byte) /\ Len(e) = 5 + n /\ e[1] = type /\ (\A i \in 1..4 : e[1 + i] = len[i])
      /\ \A i \in 1..n : e[5 + i] = body[i]
  <2>1. /\ e \in Seq(Byte) /\ Len(e) = 5 + Len(body) /\ e[1] = type
        /\ (\A i \in 1..4 : e[1 + i] = Int32(4 + Len(body))[i])
        /\ \A i \in 1..Len(body) : e[5 + i] = body[i]
    BY EncodedBytes DEF e
  <2>. QED  BY <1>3, <2>1 DEF n
<1>. DEFINE h == tb \o z
            m == h \o body
<1>8. /\ h \in Seq(Byte) /\ Len(h) = 5 /\ h[1] = type
  <2>1. tb \in Seq(Byte) /\ Len(tb) = 1 /\ tb[1] = type /\ z \in Seq(Byte) /\ Len(z) = 4
    BY LongType DEF tb, z
  <2>2. h \in Seq(Byte) /\ Len(h) = Len(tb) + Len(z) /\ \A i \in 1..Len(tb) : h[i] = tb[i]
    <3>1. tb \in Seq(Byte) /\ z \in Seq(Byte)
      BY <2>1
    <3>. QED  BY <3>1, Joined
  <2>. HIDE DEF h
  <2>. QED  BY <2>1, <2>2
<1>. HIDE DEF h
<1>9. /\ m \in Seq(Byte) /\ Len(m) = 5 + n /\ m[1] = type /\ \A i \in 1..n : m[5 + i] = body[i]
  <2>1. m \in Seq(Byte) /\ Len(m) = Len(h) + Len(body) /\ \A i \in 1..Len(h) : m[i] = h[i]
    <3>1. h \in Seq(Byte)
      BY <1>8
    <3>. QED  BY <3>1, Joined
  <2>2. ASSUME NEW i \in 1..Len(body) PROVE m[Len(h) + i] = body[i]
    <3>1. h \in Seq(Byte)
      BY <1>8
    <3>. QED  BY <3>1, JoinedEnd
  <2>. HIDE DEF m
  <2>. QED  BY <1>8, <2>1, <2>2 DEF n
<1>. HIDE DEF m
<1>10. \A k \in 1..(at + (5 + n)) : v.data[k] = (k0 \o m)[k]
  <2>1. Content(v) = k0 \o m
    BY DEF k0, m, h, tb, z
  <2>2. \A k \in 1..v.written : Content(v)[k] = v.data[k]
    BY <1>1, Firsts DEF Content
  <2>. QED  BY <2>1, <2>2 DEF n
<1>11. /\ \A k \in 1..at : v.data[k] = k0[k]
       /\ \A i \in 1..(5 + n) : v.data[at + i] = m[i]
  <2>1. k0 \in Seq(Byte) /\ m \in Seq(Byte)
    BY <1>1, <1>9
  <2>2. \A k \in 1..Len(k0) : (k0 \o m)[k] = k0[k]
    BY <2>1, Joined
  <2>3. ASSUME NEW i \in 1..Len(m) PROVE (k0 \o m)[Len(k0) + i] = m[i]
    BY <2>1, JoinedEnd
  <2>4. \A k \in 1..at : k \in 1..(at + (5 + n))
    BY <1>1
  <2>5. \A i \in 1..(5 + n) : at + i \in 1..(at + (5 + n))
    BY <1>1
  <2>. QED  BY <1>1, <1>9, <1>10, <2>2, <2>3, <2>4, <2>5
<1>12. \A i \in 1..(5 + n) : new[at + i] = e[i]
  <2>. SUFFICES ASSUME NEW i \in 1..(5 + n) PROVE new[at + i] = e[i]
    OBVIOUS
  <2>0. at + i \in 1..Size
    <3>1. at \in Nat /\ n \in Nat /\ Size \in Nat /\ at + (5 + n) \in 0..Size
      BY <1>1, <1>2
    <3>. HIDE DEF at
    <3>. QED  BY <3>1
  <2>1. CASE i = 1
    <3>0. 1 \in 1..(5 + n) /\ at + 1 \in 1..Size /\ at + 1 <= at + 1
      BY <1>1, <2>0, <2>1
    <3>. HIDE DEF at
    <3>1. new[at + 1] = v.data[at + 1] /\ v.data[at + 1] = m[1]
      BY <1>5, <1>11, <3>0
    <3>. QED  BY <1>7, <1>9, <2>1, <3>1
  <2>2. CASE i \in 2..5
    <3>. DEFINE j == i - 1
    <3>1. j \in 1..4 /\ at + 1 + j = at + i /\ 1 + j = i
      BY <1>1, <2>2
    <3>. HIDE DEF j
    <3>2. new[at + 1 + j] = len[j] /\ e[1 + j] = len[j]
      BY <1>5, <1>7, <2>0, <3>1
    <3>. QED  BY <3>1, <3>2
  <2>3. CASE i \in 6..(5 + n)
    <3>. DEFINE j == i - 5
    <3>1. j \in 1..n /\ 5 + j = i /\ at + i > at + 1 + 4
      BY <1>1, <2>3
    <3>. HIDE DEF j
    <3>2. new[at + i] = v.data[at + i] /\ v.data[at + i] = m[i]
      BY <1>5, <1>11, <2>0, <3>1
    <3>3. m[5 + j] = body[j] /\ e[5 + j] = body[j]
      BY <1>7, <1>9, <3>1
    <3>. QED  BY <3>1, <3>2, <3>3
  <2>4. i = 1 \/ i \in 2..5 \/ i \in 6..(5 + n)
    BY <1>1
  <2>. QED  BY <2>1, <2>2, <2>3, <2>4
<1>13. \A k \in 1..at : new[k] = w.data[k]
  <2>. SUFFICES ASSUME NEW k \in 1..at PROVE new[k] = w.data[k]
    OBVIOUS
  <2>1. k \in 1..Size /\ k <= at + 1
    BY <1>1, <1>2
  <2>2. new[k] = v.data[k] /\ v.data[k] = k0[k]
    BY <1>5, <1>11, <2>1
  <2>3. k0[k] = w.data[k]
    BY WriterType, Firsts DEF k0, Kept
  <2>. QED  BY <2>2, <2>3
<1>14. SubSeq(new, 1, at + Len(e)) = SubSeq(w.data, 1, at) \o e
  <2>1. w.data \in Buffers /\ at \in 0..Size /\ at + Len(e) <= Size /\ \A i \in 1..Len(e) : new[at + i] = e[i]
    BY <1>1, <1>2, <1>7, <1>12, WriterType
  <2>. HIDE DEF at
  <2>. QED  BY <1>5, <1>7, <1>13, <2>1, MoreFirsts
<1>15. Kept(r) = Kept(w) \o e
  <2>1. at + Len(e) = r.last /\ r.data = new
    BY <1>4, <1>7 DEF n
  <2>. QED  BY <1>14, <2>1 DEF Kept
<1>16. ~r.full /\ r.written = r.last /\ r.last = w.last + (5 + Len(body))
  BY <1>4
<1>. QED  BY <1>6, <1>15, <1>16 DEF Wrote, r, e

\* A message is written whole, or nothing of it is kept.
LEMMA MessageWritten ==
  ASSUME NEW w \in Writers, w.written = w.last, NEW type \in Byte, NEW groups \in Seq(Seq(Field))
  PROVE  \E body \in Seq(Byte) :
           /\ GroupsHold(groups, body)
           /\ Wrote(w, WriteMessage(w, type, groups), type, body)
           /\ (\A k \in 1..Len(groups) : Copied(groups[k])) /\ w.last + (5 + Len(body)) <= Size
                => ~WriteMessage(w, type, groups).full
<1>. DEFINE b == Begin(w, type)
            h == <<type>> \o Int32(0)
            v == PutGroups(b, groups)
            r == WriteMessage(w, type, groups)
            all == \A k \in 1..Len(groups) : Copied(groups[k])
            X == {End(x) : x \in {v}}
<1>1. r = End(v)
  <2>1. End(v) \in X /\ \A y \in X : y = End(v)
    OBVIOUS
  <2>2. r = CHOOSE y \in X : TRUE
    BY DEF WriteMessage, Then
  <2>. HIDE DEF X, v, r
  <2>. QED  BY <2>1, <2>2, OneChosen, Zenon
<1>2. h \in Seq(Byte) /\ Len(h) = 5
  <2>. DEFINE tb == <<type>>
              z == Int32(0)
  <2>1. tb \in Seq(Byte) /\ Len(tb) = 1 /\ z \in Seq(Byte) /\ Len(z) = 4
    BY LongType
  <2>. HIDE DEF tb, z
  <2>2. tb \o z \in Seq(Byte) /\ Len(tb \o z) = Len(tb) + Len(z)
    <3>1. tb \in Seq(Byte) /\ z \in Seq(Byte)
      BY <2>1
    <3>. QED  BY <3>1, Joined
  <2>3. tb \o z \in Seq(Byte) /\ Len(tb \o z) = 5
    BY <2>1, <2>2
  <2>. QED  BY <2>3 DEF tb, z
<1>3. PICK u \in Writers :
        /\ ~u.full /\ u.written = w.written /\ u.last = w.last /\ Content(u) = Content(w) /\ Kept(u) = Kept(w)
        /\ Copies(u, b, h)
  BY BeginRight
<1>. HIDE DEF b, h
<1>4. b \in Writers
  BY <1>3 DEF Copies, Extends
<1>5. PICK body \in Seq(Byte) : GroupsHold(groups, body) /\ Extends(b, v, body) /\ (all => Copies(b, v, body))
  BY <1>4, PutGroupsRight
<1>. HIDE DEF v, all
<1>6. Extends(u, v, h \o body)
  BY <1>2, <1>3, <1>5, ExtendsOn DEF Copies
<1>7. v \in Writers /\ v.last = w.last /\ Kept(v) = Kept(w)
  BY <1>3, <1>6 DEF Extends
<1>8. h \o body \in Seq(Byte) /\ Len(h \o body) = 5 + Len(body) /\ Len(body) \in Nat
  <2>1. h \in Seq(Byte)
    BY <1>2
  <2>2. h \o body \in Seq(Byte) /\ Len(h \o body) = Len(h) + Len(body)
    BY <2>1, Joined
  <2>. QED  BY <1>2, <2>2
<1>9. CASE v.full
  <2>1. r = v
    BY <1>1, <1>9 DEF End
  <2>2. Wrote(w, r, type, body)
    BY <1>7, <1>9, <2>1 DEF Wrote
  <2>3. ASSUME all, w.last + (5 + Len(body)) <= Size PROVE FALSE
    <3>1. Copies(u, v, h \o body)
      BY <1>2, <1>3, <1>5, <2>3, CopiesOn
    <3>2. u.written + Len(h \o body) <= Size
      BY <1>3, <1>8, <2>3
    <3>. QED  BY <1>3, <1>9, <3>1, <3>2 DEF Copies
  <2>. QED  BY <1>5, <2>2, <2>3 DEF all, r
<1>10. CASE ~v.full
  <2>1. Content(v) = Kept(w) \o (h \o body)
    <3>1. Content(v) = Content(w) \o (h \o body)
      BY <1>3, <1>6, <1>10 DEF Extends
    <3>2. Content(w) = Kept(w)
      BY DEF Content, Kept
    <3>. QED  BY <3>1, <3>2
  <2>2. v.written = w.last + (5 + Len(body))
    <3>1. v.written = u.written + Len(h \o body)
      BY <1>6, <1>8, <1>10, ExtendedLength
    <3>. QED  BY <1>3, <1>8, <3>1
  <2>3. Wrote(w, End(v), type, body) /\ ~End(v).full
    BY <1>7, <1>10, <2>1, <2>2, EndRight DEF h
  <2>. QED  BY <1>1, <1>5, <2>3 DEF all, r
<1>. QED  BY <1>9, <1>10

\* Bytes that are read as messages, whatever follows them
Message == [type : Byte, body : Seq(Byte)]

Reads(s, ms) ==
  /\ s \in Seq(Byte) /\ ms \in Seq(Message)
  /\ \A t \in Seq(Byte), ts \in Seq(Message) : Messages(t) = ts => Messages(s \o t) = ms \o ts

\* No bytes are read as no messages.
LEMMA EmptyReads ==
  Reads(<<>>, <<>>)
<1>. DEFINE s == <<>>
            ms == <<>>
<1>1. s \in Seq(Byte) /\ ms \in Seq(Message)
  OBVIOUS
<1>2. ASSUME NEW t \in Seq(Byte), NEW ts \in Seq(Message)
      PROVE  s \o t = t /\ ms \o ts = ts
  OBVIOUS
<1>. HIDE DEF s, ms
<1>3. Reads(s, ms)
  BY <1>1, <1>2 DEF Reads
<1>. QED  BY <1>3 DEF s, ms

\* Messages behind messages are read as both.
LEMMA ReadsOn ==
  ASSUME NEW a, NEW b, NEW x, NEW y, Reads(a, x), Reads(b, y)
  PROVE  Reads(a \o b, x \o y)
<1>1. a \in Seq(Byte) /\ b \in Seq(Byte) /\ x \in Seq(Message) /\ y \in Seq(Message)
  BY DEF Reads
<1>2. a \o b \in Seq(Byte) /\ x \o y \in Seq(Message)
  BY <1>1
<1>3. ASSUME NEW t \in Seq(Byte), NEW ts \in Seq(Message), Messages(t) = ts
      PROVE  Messages((a \o b) \o t) = (x \o y) \o ts
  <2>0. b \o t \in Seq(Byte) /\ y \o ts \in Seq(Message)
    BY <1>1
  <2>1. Messages(b \o t) = y \o ts /\ b \o t \in Seq(Byte) /\ y \o ts \in Seq(Message)
    BY <1>1, <1>3, <2>0 DEF Reads
  <2>2. Messages(a \o (b \o t)) = x \o (y \o ts)
    BY <2>1 DEF Reads
  <2>3. (a \o b) \o t = a \o (b \o t)
    BY <1>1, Associative
  <2>4. (x \o y) \o ts = x \o (y \o ts)
    <3>1. x \in Seq(Message) /\ y \in Seq(Message) /\ ts \in Seq(Message)
      BY <1>1
    <3>. QED  BY <3>1, Associative
  <2>. QED  BY <2>2, <2>3, <2>4
<1>. QED  BY <1>2, <1>3 DEF Reads

\* Bytes that are read as messages are these messages for the client.
LEMMA ReadsWhole ==
  ASSUME NEW s, NEW ms, Reads(s, ms)
  PROVE  Messages(s) = ms
<1>. DEFINE e == <<>>
<1>1. s \in Seq(Byte) /\ ms \in Seq(Message)
  BY DEF Reads
<1>2. Messages(e) = e
  BY NothingRead
<1>3. e \in Seq(Byte) /\ e \in Seq(Message) /\ s \o e = s /\ ms \o e = ms
  BY <1>1
<1>. HIDE DEF e
<1>4. Messages(s \o e) = ms \o e
  BY <1>2, <1>3 DEF Reads
<1>. QED  BY <1>3, <1>4

\* A message is read as it was written.
LEMMA OneReads ==
  ASSUME NEW type \in Byte, NEW body \in Seq(Byte), 4 + Len(body) \in Readable
  PROVE  Reads(Encoded(type, body), <<[type |-> type, body |-> body]>>)
<1>. DEFINE m == [type |-> type, body |-> body]
            e == Encoded(type, body)
<1>1. m \in Message /\ <<m>> \in Seq(Message)
  BY DEF Message
<1>2. e \in Seq(Byte)
  BY EncodedBytes
<1>3. ASSUME NEW t \in Seq(Byte), NEW ts \in Seq(Message), Messages(t) = ts
      PROVE  Messages(e \o t) = <<m>> \o ts
  BY <1>3, MessageRead
<1>. HIDE DEF m, e
<1>. QED  BY <1>1, <1>2, <1>3 DEF Reads, m, e

\* The same for texts
Texts == Seq(Seq(Int))

TextReads(s, xs) ==
  /\ s \in Seq(Byte) /\ xs \in Texts
  /\ \A t \in Seq(Byte), ts \in Texts : TextsOf(t) = ts => TextsOf(s \o t) = xs \o ts

\* No bytes are read as no texts.
LEMMA EmptyTextReads ==
  TextReads(<<>>, <<>>)
<1>. DEFINE s == <<>>
            xs == <<>>
<1>1. s \in Seq(Byte) /\ xs \in Texts
  BY DEF Texts
<1>2. ASSUME NEW t \in Seq(Byte), NEW ts \in Texts
      PROVE  s \o t = t /\ xs \o ts = ts
  BY DEF Texts
<1>. HIDE DEF s, xs
<1>3. TextReads(s, xs)
  BY <1>1, <1>2 DEF TextReads
<1>. QED  BY <1>3 DEF s, xs

\* Texts behind texts are read as both.
LEMMA TextReadsOn ==
  ASSUME NEW a, NEW b, NEW x, NEW y, TextReads(a, x), TextReads(b, y)
  PROVE  TextReads(a \o b, x \o y)
<1>1. a \in Seq(Byte) /\ b \in Seq(Byte) /\ x \in Texts /\ y \in Texts
  BY DEF TextReads
<1>2. a \o b \in Seq(Byte) /\ x \o y \in Texts
  BY <1>1 DEF Texts
<1>3. ASSUME NEW t \in Seq(Byte), NEW ts \in Texts, TextsOf(t) = ts
      PROVE  TextsOf((a \o b) \o t) = (x \o y) \o ts
  <2>1. b \o t \in Seq(Byte) /\ y \o ts \in Texts
    BY <1>1, <1>3 DEF Texts
  <2>2. TextsOf(b \o t) = y \o ts
    BY <1>1, <1>3 DEF TextReads
  <2>3. TextsOf(a \o (b \o t)) = x \o (y \o ts)
    BY <2>1, <2>2 DEF TextReads
  <2>4. (a \o b) \o t = a \o (b \o t)
    BY <1>1, Associative
  <2>5. (x \o y) \o ts = x \o (y \o ts)
    <3>. DEFINE B == Seq(Int)
    <3>1. x \in Seq(B) /\ y \in Seq(B) /\ ts \in Seq(B)
      BY <1>1 DEF Texts
    <3>. HIDE DEF B
    <3>. QED  BY <3>1, Associative
  <2>. QED  BY <2>3, <2>4, <2>5
<1>. QED  BY <1>2, <1>3 DEF TextReads

\* Bytes that are read as texts are these texts.
LEMMA TextReadsWhole ==
  ASSUME NEW s, NEW xs, TextReads(s, xs)
  PROVE  TextsOf(s) = xs
<1>. DEFINE e == <<>>
<1>1. s \in Seq(Byte) /\ xs \in Texts
  BY DEF TextReads
<1>2. TextsOf(e) = e
  BY NoTexts
<1>3. e \in Seq(Byte) /\ e \in Texts /\ s \o e = s /\ xs \o e = xs
  BY <1>1 DEF Texts
<1>. HIDE DEF e
<1>4. TextsOf(s \o e) = xs \o e
  BY <1>2, <1>3 DEF TextReads
<1>. QED  BY <1>3, <1>4

\* A text behind its length is read as the text.
LEMMA OneTextReads ==
  ASSUME NEW text \in Seq(Byte), Len(text) \in Readable
  PROVE  TextReads(Int32(Len(text)) \o text, <<text>>)
<1>. DEFINE h == Int32(Len(text))
            e == h \o text
<1>1. <<text>> \in Texts
  <2>1. text \in Seq(Int)
    BY ByteNumbers
  <2>. QED  BY <2>1 DEF Texts
<1>2. h \in Seq(Byte)
  BY LongType
<1>3. ASSUME NEW t \in Seq(Byte), NEW ts \in Texts, TextsOf(t) = ts
      PROVE  TextsOf(e \o t) = <<text>> \o ts
  BY <1>3, TextRead
<1>. HIDE DEF h
<1>4. e \in Seq(Byte)
  BY <1>2, Joined
<1>. HIDE DEF e
<1>. QED  BY <1>1, <1>3, <1>4 DEF TextReads, e, h

\* A length of -1 is read as null.
LEMMA NullReads ==
  TextReads(Int32(-1), <<<<-1>>>>)
<1>. DEFINE e == Int32(-1)
            null == <<-1>>
<1>1. <<null>> \in Texts
  BY DEF Texts
<1>2. e \in Seq(Byte)
  BY LongType
<1>3. ASSUME NEW t \in Seq(Byte), NEW ts \in Texts, TextsOf(t) = ts
      PROVE  TextsOf(e \o t) = <<null>> \o ts
  BY <1>3, NullTextRead
<1>. HIDE DEF e, null
<1>. QED  BY <1>1, <1>2, <1>3 DEF TextReads, e, null

\* A digit, and the digits of a byte string
LEMMA HexDigit ==
  ASSUME NEW d \in 0..15
  PROVE  Hex(d) = Digits[d + 1] /\ Hex(d) \in Byte
<1>1. \/ d = 0 \/ d = 1 \/ d = 2 \/ d = 3 \/ d = 4 \/ d = 5 \/ d = 6 \/ d = 7
      \/ d = 8 \/ d = 9 \/ d = 10 \/ d = 11 \/ d = 12 \/ d = 13 \/ d = 14 \/ d = 15
  OBVIOUS
<1>2. Hex(d) = Digits[d + 1]
  BY <1>1 DEF Hex, Digits
<1>3. Hex(d) \in Byte
  BY SMT DEF Hex, Byte
<1>. QED  BY <1>2, <1>3

\* A byte is two digits.
LEMMA HalfBytes ==
  ASSUME NEW b \in Byte
  PROVE  b \div 16 \in 0..15 /\ b % 16 \in 0..15
BY SMT DEF Byte

HexBytes(s) ==
  [k \in 1..(2 * Len(s)) |-> LET c == s[(k + 1) \div 2] IN Hex(IF k % 2 = 1 THEN c \div 16 ELSE c % 16)]

\* Where the two digits of a byte are
LEMMA HexPlaces ==
  ASSUME NEW s \in Seq(Byte), NEW i \in 1..Len(s)
  PROVE  /\ 2 * i - 1 \in 1..(2 * Len(s)) /\ HexBytes(s)[2 * i - 1] = Digits[(s[i] \div 16) + 1]
         /\ 2 * i \in 1..(2 * Len(s)) /\ HexBytes(s)[2 * i] = Digits[(s[i] % 16) + 1]
<1>1. 2 * i - 1 \in 1..(2 * Len(s)) /\ 2 * i \in 1..(2 * Len(s))
  OBVIOUS
<1>2. ((2 * i - 1) + 1) \div 2 = i /\ (2 * i - 1) % 2 = 1
  BY SMT
<1>3. (2 * i + 1) \div 2 = i /\ (2 * i) % 2 # 1
  BY SMT
<1>4. s[i] \in Byte
  OBVIOUS
<1>5. HexBytes(s)[2 * i - 1] = Hex(s[i] \div 16)
  BY <1>1, <1>2 DEF HexBytes
<1>6. HexBytes(s)[2 * i] = Hex(s[i] % 16)
  BY <1>1, <1>3 DEF HexBytes
<1>7. s[i] \div 16 \in 0..15 /\ s[i] % 16 \in 0..15
  BY <1>4, HalfBytes
<1>. QED  BY <1>1, <1>5, <1>6, <1>7, HexDigit

\* The digits are bytes, two for each byte.
LEMMA HexType ==
  ASSUME NEW s \in Seq(Byte)
  PROVE  HexBytes(s) \in Seq(Byte) /\ Len(HexBytes(s)) = 2 * Len(s)
<1>1. ASSUME NEW k \in 1..(2 * Len(s))
      PROVE  HexBytes(s)[k] \in Byte
  <2>. DEFINE j == (k + 1) \div 2
  <2>1. j \in 1..Len(s)
    BY SMT
  <2>. HIDE DEF j
  <2>. DEFINE c == s[j]
              d == IF k % 2 = 1 THEN c \div 16 ELSE c % 16
  <2>2. c \in Byte
    BY <2>1
  <2>. HIDE DEF c
  <2>3. d \in 0..15
    BY <2>2, HalfBytes
  <2>4. HexBytes(s)[k] = Hex(d)
    BY DEF HexBytes, j, c
  <2>. HIDE DEF d
  <2>. QED  BY <2>3, <2>4, HexDigit
<1>2. 2 * Len(s) \in Nat /\ HexBytes(s) = [k \in 1..(2 * Len(s)) |-> HexBytes(s)[k]]
  BY DEF HexBytes
<1>. QED  BY <1>1, <1>2

\* The digits of one byte behind those of the other are what addBytesString writes.
LEMMA HexFlat ==
  ASSUME NEW s \in Seq(Byte)
  PROVE  FlattenSeq([k \in 1..Len(s) |-> <<Digits[(s[k] \div 16) + 1], Digits[(s[k] % 16) + 1]>>]) = HexBytes(s)
<1>. DEFINE n == Len(s)
            p == [k \in 1..n |-> <<Digits[(s[k] \div 16) + 1], Digits[(s[k] % 16) + 1]>>]
            h == HexBytes(s)
            G(f, i) == IF i = 1 THEN p[i] ELSE f[i - 1] \o p[i]
<1>1. n \in Nat /\ h \in Seq(Byte) /\ Len(h) = 2 * n
  BY HexType
<1>2. ASSUME NEW i \in 1..n
      PROVE  /\ p[i] \in Seq(Byte) /\ Len(p[i]) = 2
             /\ 2 * i - 1 \in 1..(2 * n) /\ 2 * i \in 1..(2 * n)
             /\ p[i][1] = h[2 * i - 1] /\ p[i][2] = h[2 * i]
  <2>. DEFINE a == Digits[(s[i] \div 16) + 1]
              b == Digits[(s[i] % 16) + 1]
  <2>1. 2 * i - 1 \in 1..(2 * n) /\ 2 * i \in 1..(2 * n) /\ h[2 * i - 1] = a /\ h[2 * i] = b
    BY HexPlaces
  <2>2. p[i] = <<a, b>>
    OBVIOUS
  <2>. HIDE DEF a, b, h, p
  <2>3. a \in Byte /\ b \in Byte
    BY <1>1, <2>1
  <2>. QED  BY <2>1, <2>2, <2>3
<1>3. Len(p) = n /\ p \in Seq(Seq(Byte))
  <2>1. \A i \in 1..n : p[i] \in Seq(Byte)
    BY <1>2
  <2>2. n \in Nat /\ p = [k \in 1..n |-> p[k]]
    OBVIOUS
  <2>. HIDE DEF p
  <2>. QED  BY <2>1, <2>2
<1>. DEFINE flatten == CHOOSE f : f = [i \in 1..Len(p) |-> G(f, i)]
<1>4. FlattenSeq(p) = IF Len(p) = 0 THEN p ELSE flatten[Len(p)]
  BY DEF FlattenSeq
<1>5. p \in [1..n -> Seq(Byte)]
  BY <1>2
<1>. HIDE DEF p, n, h
<1>6. PICK c : Chain(c, n, p)
  BY <1>1, <1>5, ChainExists
<1>7. \E f : f = [i \in 1..Len(p) |-> G(f, i)]
  <2>. DEFINE f == [i \in 1..n |-> c[i]]
  <2>1. ASSUME NEW i \in 1..n PROVE f[i] = G(f, i)
    <3>1. c[i] = c[i - 1] \o p[i] /\ c[0] = <<>>
      BY <1>6 DEF Chain
    <3>2. CASE i = 1
      <4>1. c[1] = c[0] \o p[1]
        <5>1. 1 - 1 = 0
          OBVIOUS
        <5>. QED  BY <3>1, <3>2, <5>1
      <4>. QED  BY <1>2, <3>1, <3>2, <4>1
    <3>3. CASE i # 1
      <4>1. i - 1 \in 1..n
        BY <1>1, <3>3
      <4>. QED  BY <3>1, <3>3, <4>1
    <3>. QED  BY <3>2, <3>3
  <2>2. f = [i \in 1..Len(p) |-> G(f, i)]
    BY <1>3, <2>1
  <2>. QED  BY <2>2
<1>8. flatten = [i \in 1..n |-> G(flatten, i)]
  <2>1. flatten = [i \in 1..Len(p) |-> G(flatten, i)]
    BY <1>7
  <2>. HIDE DEF flatten
  <2>. QED  BY <1>3, <2>1
<1>. HIDE DEF flatten
<1>9. ASSUME NEW i \in 1..n
      PROVE  flatten[i] = IF i = 1 THEN p[i] ELSE flatten[i - 1] \o p[i]
  BY <1>8
<1>. DEFINE Right(i) == /\ flatten[i] \in Seq(Byte) /\ Len(flatten[i]) = 2 * i
                        /\ \A k \in 1..(2 * i) : flatten[i][k] = h[k]
            Good == {m \in Nat : m + 1 <= n => Right(m + 1)}
<1>10. 0 \in Good
  <2>. SUFFICES ASSUME 1 <= n PROVE Right(1)
    OBVIOUS
  <2>1. 1 \in 1..n
    BY <1>1
  <2>2. flatten[1] = p[1]
    BY <1>9, <2>1
  <2>3. p[1] \in Seq(Byte) /\ Len(p[1]) = 2 /\ p[1][1] = h[1] /\ p[1][2] = h[2]
    <3>. DEFINE i == 1
    <3>1. i \in 1..n /\ 2 * i - 1 = 1 /\ 2 * i = 2
      BY <2>1
    <3>. HIDE DEF i
    <3>2. p[i] \in Seq(Byte) /\ Len(p[i]) = 2 /\ p[i][1] = h[2 * i - 1] /\ p[i][2] = h[2 * i]
      BY <1>2, <3>1
    <3>3. p[i] \in Seq(Byte) /\ Len(p[i]) = 2 /\ p[i][1] = h[1] /\ p[i][2] = h[2]
      BY <3>1, <3>2
    <3>. QED  BY <3>3 DEF i
  <2>. QED  BY <2>2, <2>3
<1>11. ASSUME NEW m \in Nat, m \in Good PROVE m + 1 \in Good
  <2>. DEFINE i == m + 1
              j == i + 1
  <2>. SUFFICES ASSUME j <= n PROVE Right(j)
    OBVIOUS
  <2>1. i \in 1..n /\ j \in 1..n /\ j # 1 /\ j - 1 = i /\ i \in Nat /\ j \in Nat /\ 2 * j = 2 * i + 2
        /\ 2 * j - 1 = 2 * i + 1
    BY <1>1
  <2>2. Right(i)
    BY <1>11, <2>1
  <2>. HIDE DEF i, j
  <2>. DEFINE a == flatten[i]
              b == p[j]
  <2>3. flatten[j] = a \o b
    BY <1>9, <2>1
  <2>4. /\ a \in Seq(Byte) /\ Len(a) = 2 * i /\ \A k \in 1..(2 * i) : a[k] = h[k]
    BY <2>2
  <2>5. /\ b \in Seq(Byte) /\ Len(b) = 2 /\ b[1] = h[2 * i + 1] /\ b[2] = h[2 * i + 2]
    <3>1. /\ b \in Seq(Byte) /\ Len(b) = 2 /\ b[1] = h[2 * j - 1] /\ b[2] = h[2 * j]
      BY <1>2, <2>1
    <3>. QED  BY <2>1, <3>1
  <2>. HIDE DEF a, b
  <2>6. a \o b \in Seq(Byte) /\ Len(a \o b) = Len(a) + Len(b) /\ \A k \in 1..Len(a) : (a \o b)[k] = a[k]
    <3>1. a \in Seq(Byte) /\ b \in Seq(Byte)
      BY <2>4, <2>5
    <3>. QED  BY <3>1, Joined
  <2>7. ASSUME NEW k \in 1..Len(b) PROVE (a \o b)[Len(a) + k] = b[k]
    <3>1. a \in Seq(Byte) /\ b \in Seq(Byte)
      BY <2>4, <2>5
    <3>. QED  BY <3>1, JoinedEnd
  <2>. DEFINE ab == a \o b
  <2>8. /\ ab \in Seq(Byte) /\ Len(ab) = 2 * i + 2 /\ (\A k \in 1..(2 * i) : ab[k] = h[k])
        /\ ab[2 * i + 1] = h[2 * i + 1] /\ ab[2 * i + 2] = h[2 * i + 2]
    <3>1. 1 \in 1..Len(b) /\ 2 \in 1..Len(b)
      BY <2>5
    <3>2. ab[Len(a) + 1] = b[1] /\ ab[Len(a) + 2] = b[2]
      BY <2>7, <3>1
    <3>. HIDE DEF ab
    <3>3. ab \in Seq(Byte) /\ Len(ab) = Len(a) + Len(b) /\ \A k \in 1..Len(a) : ab[k] = a[k]
      BY <2>6 DEF ab
    <3>. QED  BY <2>1, <2>4, <2>5, <3>2, <3>3
  <2>. HIDE DEF ab
  <2>9. \A k \in 1..(2 * j) : k \in 1..(2 * i) \/ k = 2 * i + 1 \/ k = 2 * i + 2
    BY <2>1
  <2>10. \A k \in 1..(2 * j) : ab[k] = h[k]
    BY <2>8, <2>9
  <2>. QED  BY <2>1, <2>3, <2>8, <2>10 DEF ab
<1>. HIDE DEF Good
<1>12. CASE n = 0
  <2>1. h = <<>> /\ p = <<>>
    BY <1>1, <1>3, <1>12
  <2>. QED  BY <1>3, <1>4, <1>12, <2>1 DEF p, n, h
<1>13. CASE n # 0
  <2>1. n - 1 \in Nat /\ (n - 1) + 1 = n
    BY <1>1, <1>13
  <2>2. n - 1 \in Good
    BY <1>10, <1>11, <2>1, Induction
  <2>3. Right(n)
    BY <2>1, <2>2 DEF Good
  <2>4. flatten[n] = h
    BY <1>1, <2>3, SameElements
  <2>5. FlattenSeq(p) = h
    BY <1>3, <1>4, <1>13, <2>4
  <2>. QED  BY <2>5 DEF p, n, h
<1>. QED  BY <1>12, <1>13

\* The text of a byte string is a mark and its digits.
LEMMA HexRight ==
  ASSUME NEW s \in Seq(Byte)
  PROVE  /\ HexText(s) = <<92, 120>> \o HexBytes(s)
         /\ HexText(s) \in Seq(Byte) /\ Len(HexText(s)) = 2 + 2 * Len(s)
<1>. DEFINE a == <<92, 120>>
            h == HexBytes(s)
<1>1. HexText(s) = a \o h
  BY HexFlat DEF HexText
<1>2. a \in Seq(Byte) /\ Len(a) = 2
  <2>1. 92 \in Byte /\ 120 \in Byte
    BY SMT DEF Byte
  <2>. QED  BY <2>1
<1>3. h \in Seq(Byte) /\ Len(h) = 2 * Len(s)
  BY HexType
<1>. HIDE DEF a, h
<1>4. a \o h \in Seq(Byte) /\ Len(a \o h) = Len(a) + Len(h)
  <2>1. a \in Seq(Byte) /\ h \in Seq(Byte)
    BY <1>2, <1>3
  <2>. QED  BY <2>1, Joined
<1>5. Len(a \o h) = 2 + 2 * Len(s)
  BY <1>2, <1>3, <1>4
<1>. QED  BY <1>1, <1>4, <1>5 DEF a, h

-----------------------------------------------------------------------------
(* Rows                                                                     *)

\* The fields of a byte string are its length and its text.
LEMMA FieldsOfBytes ==
  ASSUME NEW v, v.type = "bytes"
  PROVE  FieldsOf(v) = <<Bytes(Int32(2 + 2 * Len(v.text))), Bytes(<<92, 120>> \o HexBytes(v.text))>>
BY DEF FieldsOf, HexBytes

\* The fields of a column
LEMMA FieldsType ==
  ASSUME NEW v \in Cell
  PROVE  FieldsOf(v) \in Seq(Field)
<1>1. v.text \in Seq(Byte) /\ v.type \in {"null", "string", "number", "date", "bytes"} /\ Len(v.text) \in Int
  BY DEF Cell
<1>2. \A x \in Int : Bytes(Int32(x)) \in Field
  BY LongType, CopyField
<1>3. CASE v.type = "null"
  <2>1. FieldsOf(v) = <<Bytes(Int32(-1))>>
    BY <1>3 DEF FieldsOf
  <2>2. Bytes(Int32(-1)) \in Field
    BY <1>2
  <2>. QED  BY <2>1, <2>2
<1>4. CASE v.type = "string"
  <2>. DEFINE f == Bytes(Int32(Len(v.text)))
              g == Bytes(v.text)
  <2>1. FieldsOf(v) = <<f, g>>
    BY <1>4 DEF FieldsOf
  <2>2. f \in Field /\ g \in Field
    BY <1>1, <1>2, CopyField
  <2>. HIDE DEF f, g
  <2>. QED  BY <2>1, <2>2
<1>5. CASE v.type = "number"
  <2>1. FieldsOf(v) = <<Value(v.text)>>
    BY <1>5 DEF FieldsOf
  <2>2. Value(v.text) \in Field
    BY <1>1 DEF Value, Field
  <2>. QED  BY <2>1, <2>2
<1>6. CASE v.type = "date"
  <2>. DEFINE f == Bytes(Int32(Len(v.text)))
              g == Time(v.text)
  <2>1. FieldsOf(v) = <<f, g>>
    BY <1>6 DEF FieldsOf
  <2>2. f \in Field
    BY <1>1, <1>2
  <2>3. g \in Field
    BY <1>1 DEF Time, Field
  <2>. HIDE DEF f, g
  <2>. QED  BY <2>1, <2>2, <2>3
<1>7. CASE v.type = "bytes"
  <2>. DEFINE f == Bytes(Int32(2 + 2 * Len(v.text)))
              x == <<92, 120>> \o HexBytes(v.text)
              g == Bytes(x)
  <2>1. FieldsOf(v) = <<f, g>>
    BY <1>7, FieldsOfBytes
  <2>2. x \in Seq(Byte)
    BY <1>1, HexRight
  <2>3. 2 + 2 * Len(v.text) \in Int
    BY <1>1
  <2>. HIDE DEF x
  <2>4. f \in Field /\ g \in Field
    BY <1>2, <2>2, <2>3, CopyField
  <2>. HIDE DEF f, g
  <2>. QED  BY <2>1, <2>4
<1>. QED  BY <1>1, <1>3, <1>4, <1>5, <1>6, <1>7

\* What is written of a column is read as its text.
LEMMA CellReads ==
  ASSUME NEW v \in Cell, NEW b \in Seq(Byte), Holds(FieldsOf(v), b), Len(b) \in Readable
  PROVE  TextReads(b, <<TextOf(v)>>)
<1>1. v.text \in Seq(Byte) /\ v.type \in {"null", "string", "number", "date", "bytes"} /\ Len(v.text) \in Nat
  BY DEF Cell
<1>2. ASSUME NEW text \in Seq(Byte), b = Int32(Len(text)) \o text, TextOf(v) = text
      PROVE  TextReads(b, <<TextOf(v)>>)
  <2>. DEFINE h == Int32(Len(text))
  <2>1. h \in Seq(Byte)
    BY LongType
  <2>2. Len(b) = Len(h) + Len(text)
    BY <1>2, <2>1, Joined
  <2>3. Len(text) \in Readable
    <3>1. Len(h) \in Nat /\ Len(text) \in Nat
      BY <2>1
    <3>. HIDE DEF h
    <3>. QED  BY <2>2, <3>1 DEF Readable
  <2>4. TextReads(h \o text, <<text>>)
    BY <2>3, OneTextReads
  <2>. QED  BY <1>2, <2>4
<1>3. CASE v.type = "null"
  <2>. DEFINE h == Int32(-1)
  <2>1. FieldsOf(v) = <<Bytes(h)>> /\ TextOf(v) = <<-1>>
    BY <1>3 DEF FieldsOf, TextOf
  <2>2. h \in Seq(Byte) /\ TextReads(h, <<<<-1>>>>)
    BY LongType, NullReads
  <2>. HIDE DEF h
  <2>3. Bytes(h) \in Field /\ FieldBytes(Bytes(h)) = h
    BY <2>2, CopyField
  <2>4. b = h
    BY <2>1, <2>3, HoldsOne
  <2>. QED  BY <2>1, <2>2, <2>4
<1>4. CASE v.type = "string"
  <2>. DEFINE h == Int32(Len(v.text))
              f == Bytes(h)
              g == Bytes(v.text)
  <2>1. FieldsOf(v) = <<f, g>> /\ TextOf(v) = v.text
    BY <1>4 DEF FieldsOf, TextOf
  <2>2. h \in Seq(Byte)
    BY <1>1, LongType
  <2>. HIDE DEF h
  <2>3. f \in Field /\ FieldBytes(f) = h /\ g \in Field /\ FieldBytes(g) = v.text
    BY <1>1, <2>2, CopyField
  <2>. HIDE DEF f, g
  <2>4. b = h \o v.text
    BY <2>1, <2>3, HoldsTwo
  <2>. QED  BY <1>1, <1>2, <2>1, <2>4 DEF h
<1>5. CASE v.type = "number"
  <2>. DEFINE f == Value(v.text)
  <2>1. FieldsOf(v) = <<f>> /\ TextOf(v) = v.text
    BY <1>5 DEF FieldsOf, TextOf
  <2>2. f \in Field /\ FieldBytes(f) = Int32(Len(v.text)) \o v.text
    BY <1>1 DEF Value, Field, FieldBytes
  <2>. HIDE DEF f
  <2>3. b = FieldBytes(f)
    BY <2>1, <2>2, HoldsOne
  <2>. QED  BY <1>1, <1>2, <2>1, <2>2, <2>3
<1>6. CASE v.type = "date"
  <2>. DEFINE h == Int32(Len(v.text))
              f == Bytes(h)
              g == Time(v.text)
  <2>1. FieldsOf(v) = <<f, g>> /\ TextOf(v) = v.text
    BY <1>6 DEF FieldsOf, TextOf
  <2>2. h \in Seq(Byte)
    BY <1>1, LongType
  <2>. HIDE DEF h
  <2>3. f \in Field /\ FieldBytes(f) = h
    BY <2>2, CopyField
  <2>4. g \in Field /\ FieldBytes(g) = v.text
    BY <1>1 DEF Time, Field, FieldBytes
  <2>. HIDE DEF f, g
  <2>5. b = h \o v.text
    BY <2>1, <2>3, <2>4, HoldsTwo
  <2>. QED  BY <1>1, <1>2, <2>1, <2>5 DEF h
<1>7. CASE v.type = "bytes"
  <2>. DEFINE h == Int32(2 + 2 * Len(v.text))
              f == Bytes(h)
              x == <<92, 120>> \o HexBytes(v.text)
              g == Bytes(x)
  <2>1. FieldsOf(v) = <<f, g>>
    BY <1>7, FieldsOfBytes
  <2>2. TextOf(v) = x
    <3>1. TextOf(v) = HexText(v.text)
      BY <1>7 DEF TextOf
    <3>. QED  BY <1>1, <3>1, HexRight
  <2>3. x \in Seq(Byte) /\ Len(x) = 2 + 2 * Len(v.text)
    BY <1>1, HexRight
  <2>. HIDE DEF x
  <2>4. h \in Seq(Byte) /\ h = Int32(Len(x))
    BY <1>1, <2>3, LongType
  <2>. HIDE DEF h
  <2>5. f \in Field /\ FieldBytes(f) = h /\ g \in Field /\ FieldBytes(g) = x
    BY <2>3, <2>4, CopyField
  <2>. HIDE DEF f, g
  <2>6. b = h \o x
    BY <2>1, <2>5, HoldsTwo
  <2>. QED  BY <1>2, <2>2, <2>3, <2>4, <2>6
<1>. QED  BY <1>1, <1>3, <1>4, <1>5, <1>6, <1>7

\* No piece is longer than what is put together.
LEMMA PieceLengths ==
  ASSUME NEW n \in Nat, NEW piece \in [1..n -> Seq(Byte)], NEW c, Chain(c, n, piece), NEW k \in 1..n
  PROVE  Len(piece[k]) <= Len(c[n])
<1>0. c \in [0..n -> Seq(Byte)] /\ \A m \in 1..n : c[m] = c[m - 1] \o piece[m]
  BY DEF Chain
<1>1. \A m \in 0..n : c[m] \in Seq(Byte) /\ Len(c[m]) \in Nat
  <2>. SUFFICES ASSUME NEW m \in 0..n PROVE c[m] \in Seq(Byte) /\ Len(c[m]) \in Nat
    OBVIOUS
  <2>1. c[m] \in Seq(Byte)
    BY <1>0
  <2>. QED  BY <2>1
<1>2. ASSUME NEW m \in 1..n
      PROVE  Len(c[m]) = Len(c[m - 1]) + Len(piece[m]) /\ Len(piece[m]) \in Nat
  <2>1. c[m] = c[m - 1] \o piece[m] /\ c[m - 1] \in Seq(Byte) /\ piece[m] \in Seq(Byte)
    <3>1. m - 1 \in 0..n
      OBVIOUS
    <3>. QED  BY <1>0, <1>1, <3>1
  <2>2. Len(c[m - 1] \o piece[m]) = Len(c[m - 1]) + Len(piece[m])
    BY <2>1, Joined
  <2>. QED  BY <2>1, <2>2
<1>. DEFINE Good == {m \in Nat : k + m <= n => Len(piece[k]) <= Len(c[k + m])}
<1>3. 0 \in Good
  <2>1. k + 0 = k /\ k - 1 \in 0..n
    OBVIOUS
  <2>2. Len(piece[k]) <= Len(c[k])
    BY <1>1, <1>2, <2>1
  <2>. QED  BY <2>1, <2>2
<1>4. ASSUME NEW m \in Nat, m \in Good PROVE m + 1 \in Good
  <2>. SUFFICES ASSUME k + (m + 1) <= n PROVE Len(piece[k]) <= Len(c[k + (m + 1)])
    OBVIOUS
  <2>. DEFINE i == k + m
              j == k + (m + 1)
  <2>1. j \in 1..n /\ j - 1 = i /\ i \in 0..n /\ i <= n
    OBVIOUS
  <2>2. Len(piece[k]) <= Len(c[i])
    BY <1>4, <2>1
  <2>. HIDE DEF Good, i, j
  <2>3. Len(c[j]) = Len(c[i]) + Len(piece[j]) /\ Len(piece[j]) \in Nat
    BY <1>2, <2>1
  <2>4. Len(c[i]) \in Nat /\ Len(piece[k]) \in Nat
    BY <1>1, <1>2, <2>1
  <2>5. Len(piece[k]) <= Len(c[j])
    <3>. DEFINE x == Len(piece[k])
                y == Len(c[i])
                z == Len(piece[j])
                u == Len(c[j])
    <3>1. x <= y /\ u = y + z /\ z \in Nat /\ y \in Nat /\ x \in Nat
      BY <2>2, <2>3, <2>4
    <3>. HIDE DEF x, y, z, u
    <3>2. x <= u
      BY <3>1
    <3>. QED  BY <3>2 DEF x, u
  <2>. QED  BY <2>5 DEF j
<1>. HIDE DEF Good
<1>5. n - k \in Nat /\ k + (n - k) = n
  OBVIOUS
<1>6. n - k \in Good
  BY <1>3, <1>4, <1>5, Induction
<1>. QED  BY <1>5, <1>6 DEF Good

RowGroups(row) == <<<<Bytes(Int16(Len(row)))>>>> \o [c \in 1..Len(row) |-> FieldsOf(row[c])]
RowTexts(row, n) == [c \in 1..n |-> TextOf(row[c])]

\* The fields of a row: the number of columns, and then those of each column
LEMMA RowGroupsType ==
  ASSUME NEW row \in Seq(Cell)
  PROVE  /\ RowGroups(row) \in Seq(Seq(Field)) /\ Len(RowGroups(row)) = Len(row) + 1
         /\ RowGroups(row)[1] = <<Bytes(Int16(Len(row)))>>
         /\ \A c \in 1..Len(row) : RowGroups(row)[c + 1] = FieldsOf(row[c])
<1>. DEFINE n == Len(row)
            x == <<Bytes(Int16(n))>>
            a == <<x>>
            b == [c \in 1..n |-> FieldsOf(row[c])]
            A == Seq(Field)
<1>1. n \in Nat
  OBVIOUS
<1>2. x \in A
  <2>1. Bytes(Int16(n)) \in Field
    BY <1>1, ShortBytes, CopyField
  <2>. QED  BY <2>1
<1>3. RowGroups(row) = a \o b
  BY DEF RowGroups
<1>4. b \in Seq(A) /\ Len(b) = n /\ \A c \in 1..n : b[c] = FieldsOf(row[c])
  <2>1. \A c \in 1..n : FieldsOf(row[c]) \in A
    BY FieldsType
  <2>. HIDE DEF A
  <2>. QED  BY <1>1, <2>1
<1>. HIDE DEF A, x, b
<1>5. a \in Seq(A) /\ Len(a) = 1 /\ a[1] = x
  BY <1>2
<1>. HIDE DEF a
<1>6. a \o b \in Seq(A) /\ Len(a \o b) = Len(a) + Len(b) /\ \A i \in 1..Len(a) : (a \o b)[i] = a[i]
  <2>1. a \in Seq(A) /\ b \in Seq(A)
    BY <1>4, <1>5
  <2>. QED  BY <2>1, Joined
<1>7. ASSUME NEW c \in 1..Len(b) PROVE (a \o b)[Len(a) + c] = b[c]
  <2>1. a \in Seq(A) /\ b \in Seq(A)
    BY <1>4, <1>5
  <2>. QED  BY <2>1, JoinedEnd
<1>. DEFINE r == a \o b
<1>8. r \in Seq(A) /\ Len(r) = n + 1 /\ r[1] = x
  BY <1>1, <1>4, <1>5, <1>6
<1>9. \A c \in 1..n : r[c + 1] = b[c]
  <2>. SUFFICES ASSUME NEW c \in 1..n PROVE r[c + 1] = b[c]
    OBVIOUS
  <2>1. Len(a) + c = c + 1 /\ c \in 1..Len(b)
    BY <1>1, <1>4, <1>5
  <2>2. r[Len(a) + c] = b[c]
    BY <1>7, <2>1
  <2>. QED  BY <2>1, <2>2
<1>. QED  BY <1>3, <1>4, <1>8, <1>9 DEF A, x

\* The texts of the first columns, and of one more
LEMMA MoreTexts ==
  ASSUME NEW row, NEW n \in Nat, RowTexts(row, n) \in Texts, <<TextOf(row[n + 1])>> \in Texts
  PROVE  RowTexts(row, n) \o <<TextOf(row[n + 1])>> = RowTexts(row, n + 1)
<1>. DEFINE a == RowTexts(row, n)
            x == TextOf(row[n + 1])
            c == RowTexts(row, n + 1)
            A == Seq(Int)
<1>1. Len(a) = n /\ \A k \in 1..n : a[k] = c[k]
  BY DEF RowTexts
<1>2. c[n + 1] = x /\ c = [k \in 1..(n + 1) |-> c[k]]
  BY DEF RowTexts
<1>3. a \in Seq(A) /\ <<x>> \in Seq(A)
  BY DEF Texts
<1>. HIDE DEF a, c, x, A
<1>. DEFINE e == <<x>>
<1>4. x \in A /\ e \in Seq(A) /\ Len(e) = 1 /\ e[1] = x
  BY <1>3
<1>. HIDE DEF e
<1>5. a \o e \in Seq(A) /\ Len(a \o e) = Len(a) + Len(e) /\ \A k \in 1..Len(a) : (a \o e)[k] = a[k]
  <2>1. e \in Seq(A)
    BY <1>4
  <2>. QED  BY <1>3, <2>1, Joined
<1>6. ASSUME NEW k \in 1..Len(e) PROVE (a \o e)[Len(a) + k] = e[k]
  <2>1. e \in Seq(A)
    BY <1>4
  <2>. QED  BY <1>3, <2>1, JoinedEnd
<1>. DEFINE ae == a \o e
<1>7. ae \in Seq(A) /\ Len(ae) = n + 1 /\ (\A k \in 1..n : ae[k] = c[k]) /\ ae[n + 1] = c[n + 1]
  <2>1. ae[Len(a) + 1] = e[1]
    <3>1. 1 \in 1..Len(e)
      BY <1>4
    <3>. QED  BY <1>6, <3>1
  <2>. QED  BY <1>1, <1>2, <1>4, <1>5, <2>1
<1>. HIDE DEF ae
<1>8. \A k \in 1..(n + 1) : ae[k] = c[k] /\ ae[k] \in A
  <2>1. \A k \in 1..(n + 1) : k \in 1..n \/ k = n + 1
    OBVIOUS
  <2>. QED  BY <1>7, <2>1
<1>9. c \in Seq(A) /\ Len(c) = n + 1
  <2>1. n + 1 \in Nat /\ \A k \in 1..(n + 1) : c[k] \in A
    BY <1>8
  <2>. QED  BY <1>2, <2>1
<1>10. ae = c
  BY <1>7, <1>8, <1>9, SameElements
<1>. QED  BY <1>10 DEF a, x, c, e, ae

\* The columns of a row are read one after the other.
LEMMA ColumnsRead ==
  ASSUME NEW row \in Seq(Cell), NEW piece \in [1..Len(row) -> Seq(Byte)],
         \A k \in 1..Len(row) : TextReads(piece[k], <<TextOf(row[k])>>),
         NEW q, Chain(q, Len(row), piece)
  PROVE  TextReads(q[Len(row)], RowTexts(row, Len(row)))
<1>. DEFINE n == Len(row)
<1>1. n \in Nat
  OBVIOUS
<1>2. q[0] = <<>> /\ \A k \in 1..n : q[k] = q[k - 1] \o piece[k]
  BY DEF Chain
<1>. HIDE DEF n
<1>. DEFINE Good == {m \in Nat : m <= n => TextReads(q[m], RowTexts(row, m))}
<1>3. 0 \in Good
  <2>1. RowTexts(row, 0) = <<>>
    BY DEF RowTexts
  <2>. QED  BY <1>2, <2>1, EmptyTextReads
<1>4. ASSUME NEW m \in Nat, m \in Good PROVE m + 1 \in Good
  <2>. SUFFICES ASSUME m + 1 <= n PROVE TextReads(q[m + 1], RowTexts(row, m + 1))
    OBVIOUS
  <2>. DEFINE i == m + 1
  <2>1. i \in 1..n /\ i - 1 = m /\ m <= n
    BY <1>1
  <2>. HIDE DEF i
  <2>2. TextReads(q[m], RowTexts(row, m))
    BY <1>4, <2>1
  <2>3. q[i] = q[m] \o piece[i] /\ TextReads(piece[i], <<TextOf(row[i])>>)
    BY <1>2, <2>1 DEF n
  <2>4. TextReads(q[i], RowTexts(row, m) \o <<TextOf(row[i])>>)
    BY <2>2, <2>3, TextReadsOn
  <2>5. RowTexts(row, m) \in Texts /\ <<TextOf(row[i])>> \in Texts
    BY <2>2, <2>3 DEF TextReads
  <2>6. RowTexts(row, m) \o <<TextOf(row[m + 1])>> = RowTexts(row, m + 1)
    BY <2>5, MoreTexts DEF i
  <2>. QED  BY <2>4, <2>6 DEF i
<1>. HIDE DEF Good
<1>5. n \in Good
  BY <1>1, <1>3, <1>4, Induction
<1>. QED  BY <1>5 DEF Good, n

\* The rows whose number of columns fits into two bytes
Narrow == {row \in Seq(Cell) : Len(row) < 65536}

\* The body of a row message is read as the row.
LEMMA RowRead ==
  ASSUME NEW row \in Narrow, NEW body \in Seq(Byte),
         GroupsHold(RowGroups(row), body), Len(body) \in Readable
  PROVE  RowOf(body) = RowTexts(row, Len(row))
<1>. DEFINE n == Len(row)
            N == n + 1
            h == Int16(n)
<1>0. n \in Nat /\ N \in Nat /\ N = n + 1 /\ n < 65536 /\ row \in Seq(Cell)
  BY DEF Narrow
<1>1. /\ Len(RowGroups(row)) = N /\ RowGroups(row)[1] = <<Bytes(h)>>
      /\ \A k \in 1..n : RowGroups(row)[k + 1] = FieldsOf(row[k])
  BY <1>0, RowGroupsType
<1>2. PICK p \in [1..N -> Seq(Byte)] : Together(body, N, p) /\ \A k \in 1..N : Holds(RowGroups(row)[k], p[k])
  <2>. HIDE DEF N
  <2>. QED  BY <1>1 DEF GroupsHold
<1>c. PICK c : Chain(c, N, p) /\ body = c[N]
  BY <1>2 DEF Together
<1>3. h \in Seq(Byte) /\ Len(h) = 2
  BY <1>0, ShortBytes
<1>4. c[0] = <<>> /\ \A k \in 1..N : c[k] = c[k - 1] \o p[k]
  BY <1>c DEF Chain
<1>. HIDE DEF n, h, N
<1>5. p[1] = h
  <2>1. Bytes(h) \in Field /\ FieldBytes(Bytes(h)) = h
    BY <1>3, CopyField
  <2>2. 1 \in 1..N
    BY <1>0
  <2>3. Holds(RowGroups(row)[1], p[1])
    BY <1>2, <2>2
  <2>4. Holds(<<Bytes(h)>>, p[1])
    BY <1>1, <2>3
  <2>. QED  BY <2>1, <2>4, HoldsOne
<1>6. c[1] = h
  <2>1. 1 \in 1..N /\ 1 - 1 = 0
    BY <1>0
  <2>2. c[1] = <<>> \o h
    BY <1>4, <1>5, <2>1
  <2>. QED  BY <1>3, <2>2
<1>. DEFINE piece == [k \in 1..n |-> p[k + 1]]
<1>7. \A k \in 1..n : k + 1 \in 1..N /\ piece[k] = p[k + 1]
  BY <1>0
<1>8. piece \in [1..n -> Seq(Byte)]
  BY <1>2, <1>7
<1>. HIDE DEF piece
<1>9. PICK q : Chain(q, n, piece)
  BY <1>0, <1>8, ChainExists
<1>10. q \in [0..n -> Seq(Byte)] /\ q[0] = <<>> /\ \A k \in 1..n : q[k] = q[k - 1] \o piece[k]
  BY <1>9 DEF Chain
<1>11. ASSUME NEW k \in 1..n
       PROVE  TextReads(piece[k], <<TextOf(row[k])>>)
  <2>1. k + 1 \in 1..N /\ p[k + 1] \in Seq(Byte) /\ piece[k] = p[k + 1]
    BY <1>2, <1>7
  <2>2. Holds(FieldsOf(row[k]), piece[k])
    BY <1>1, <1>2, <2>1
  <2>3. Len(p[k + 1]) <= Len(c[N])
    <3>. DEFINE j == k + 1
    <3>1. N \in Nat /\ p \in [1..N -> Seq(Byte)] /\ Chain(c, N, p) /\ j \in 1..N
      BY <1>0, <1>2, <1>c, <2>1
    <3>. HIDE DEF j
    <3>2. Len(p[j]) <= Len(c[N])
      BY <3>1, PieceLengths
    <3>. QED  BY <3>2 DEF j
  <2>4. Len(piece[k]) \in Readable
    <3>1. Len(piece[k]) \in Nat /\ Len(body) \in Nat /\ Len(piece[k]) <= Len(body)
      BY <1>c, <2>1, <2>3
    <3>. QED  BY <3>1 DEF Readable
  <2>5. row[k] \in Cell
    BY <1>0 DEF n
  <2>. QED  BY <2>1, <2>2, <2>4, <2>5, CellReads
<1>12. TextReads(q[n], RowTexts(row, n))
  BY <1>0, <1>8, <1>9, <1>11, ColumnsRead DEF n
<1>. DEFINE Good == {m \in Nat : m <= n => c[m + 1] = h \o q[m]}
<1>13. 0 \in Good
  <2>1. h \o <<>> = h
    BY <1>3
  <2>2. c[0 + 1] = h \o q[0]
    BY <1>6, <1>10, <2>1
  <2>. QED  BY <2>2
<1>14. ASSUME NEW m \in Nat, m \in Good PROVE m + 1 \in Good
  <2>. SUFFICES ASSUME m + 1 <= n PROVE c[(m + 1) + 1] = h \o q[m + 1]
    OBVIOUS
  <2>. DEFINE i == m + 1
  <2>1. i \in 1..n /\ i - 1 = m /\ m <= n /\ i + 1 \in 1..N /\ (i + 1) - 1 = i /\ m \in 0..n
    BY <1>0
  <2>. HIDE DEF i, Good
  <2>2. c[i] = h \o q[m]
    BY <1>14, <2>1 DEF i, Good
  <2>3. c[i + 1] = c[i] \o piece[i] /\ q[i] = q[m] \o piece[i]
    BY <1>4, <1>7, <1>10, <2>1
  <2>4. q[m] \in Seq(Byte) /\ piece[i] \in Seq(Byte)
    BY <1>8, <1>10, <2>1
  <2>5. (h \o q[m]) \o piece[i] = h \o (q[m] \o piece[i])
    <3>1. h \in Seq(Byte)
      BY <1>3
    <3>. DEFINE a == q[m]
                b == piece[i]
    <3>2. a \in Seq(Byte) /\ b \in Seq(Byte)
      BY <2>4
    <3>. HIDE DEF a, b
    <3>3. (h \o a) \o b = h \o (a \o b)
      BY <3>1, <3>2, Associative
    <3>. QED  BY <3>3 DEF a, b
  <2>. QED  BY <2>2, <2>3, <2>5 DEF i
<1>15. body = h \o q[n] /\ q[n] \in Seq(Byte)
  <2>. HIDE DEF Good
  <2>1. n \in Good
    <3>1. n \in Nat
      BY <1>0
    <3>2. \A m \in Nat : m \in Good => m + 1 \in Good
      BY <1>14
    <3>3. \A m \in Nat : m \in Good
      BY <1>13, <3>2, Induction
    <3>. QED  BY <3>1, <3>3
  <2>2. c[n + 1] = h \o q[n]
    BY <1>0, <2>1 DEF Good
  <2>. QED  BY <1>0, <1>c, <1>10, <2>2
<1>. HIDE DEF Good
<1>16. /\ Len(body) = 2 + Len(q[n]) /\ (\A i \in 1..2 : body[i] = h[i])
       /\ \A i \in 1..Len(q[n]) : body[2 + i] = q[n][i]
  <2>1. q[n] \in Seq(Byte) /\ h \in Seq(Byte)
    BY <1>3, <1>15
  <2>2. Len(h \o q[n]) = Len(h) + Len(q[n]) /\ \A i \in 1..Len(h) : (h \o q[n])[i] = h[i]
    BY <2>1, Joined
  <2>3. ASSUME NEW i \in 1..Len(q[n]) PROVE (h \o q[n])[Len(h) + i] = q[n][i]
    BY <2>1, JoinedEnd
  <2>. QED  BY <1>3, <1>15, <2>2, <2>3
<1>17. SubSeq(body, 3, Len(body)) = q[n]
  <2>. DEFINE k == 2
              m == Len(q[n])
              s == SubSeq(body, k + 1, k + m)
  <2>1. k \in Nat /\ m \in Nat /\ k + m <= Len(body) /\ k + 1 = 3 /\ k + m = Len(body)
    BY <1>15, <1>16
  <2>2. \A i \in 1..m : body[k + i] = q[n][i]
    BY <1>16
  <2>. HIDE DEF k
  <2>3. s \in Seq(Byte) /\ Len(s) = m /\ \A i \in 1..m : s[i] = body[k + i]
    BY <2>1, Part
  <2>. HIDE DEF s
  <2>. DEFINE t == q[n]
  <2>4. t \in Seq(Byte) /\ Len(s) = Len(t) /\ \A i \in 1..Len(s) : s[i] = t[i]
    BY <1>15, <2>2, <2>3
  <2>. HIDE DEF t
  <2>5. s = t
    BY <2>3, <2>4, SameElements
  <2>. QED  BY <2>1, <2>5 DEF s, t
<1>18. Short(body, 1) = n
  <2>1. body[1] = h[1] /\ body[1 + 1] = h[2]
    BY <1>16
  <2>2. n \in Nat /\ n < 65536
    BY <1>0
  <2>3. 1 \in Nat
    OBVIOUS
  <2>. QED  BY <2>1, <2>2, <2>3, ShortRead DEF h
<1>19. TextsOf(q[n]) = RowTexts(row, n)
  BY <1>12, TextReadsWhole
<1>20. Len(RowTexts(row, n)) = n /\ Len(body) >= 2
  BY <1>0, <1>15, <1>16 DEF RowTexts
<1>. QED  BY <1>17, <1>18, <1>19, <1>20 DEF RowOf, n

-----------------------------------------------------------------------------
(* The messages of PostgresProtocol                                         *)

\* No message in the buffer is too long for its length.
LEMMA ReadableSizes ==
  ASSUME NEW n \in Nat, n <= Size
  PROVE  n \in Readable
<1>1. Size \in Nat /\ Size <= 2147483647
  BY WriterAssumption, SMT DEF MaxInt
<1>. QED  BY <1>1, SMT DEF Readable

\* Messages are behind those that the buffer holds, and nothing is behind them.
Adds(w, v, ms) ==
  /\ v \in Writers /\ ~v.full /\ v.written = v.last
  /\ \E e : Reads(e, ms) /\ Kept(v) = Kept(w) \o e

\* Messages behind messages are added as both.
LEMMA AddsOn ==
  ASSUME NEW u \in Writers, NEW v, NEW w, NEW x, NEW y, Adds(u, v, x), Adds(v, w, y)
  PROVE  Adds(u, w, x \o y)
<1>1. PICK a : Reads(a, x) /\ Kept(v) = Kept(u) \o a
  BY DEF Adds
<1>2. PICK b : Reads(b, y) /\ Kept(w) = Kept(v) \o b
  BY DEF Adds
<1>3. Reads(a \o b, x \o y)
  BY <1>1, <1>2, ReadsOn
<1>4. Kept(u) \in Seq(Byte) /\ a \in Seq(Byte) /\ b \in Seq(Byte)
  BY <1>1, <1>2, WriterType DEF Reads
<1>5. (Kept(u) \o a) \o b = Kept(u) \o (a \o b)
  BY <1>4, Associative
<1>6. Kept(w) = Kept(u) \o (a \o b)
  BY <1>1, <1>2, <1>5
<1>. QED  BY <1>3, <1>6 DEF Adds

\* What is written whole is read as a message.
LEMMA WroteAdds ==
  ASSUME NEW w \in Writers, NEW v, NEW type \in Byte, NEW body \in Seq(Byte), Wrote(w, v, type, body), ~v.full
  PROVE  /\ Adds(w, v, <<[type |-> type, body |-> body]>>)
         /\ v.last = w.last + (5 + Len(body)) /\ Len(body) \in Readable
<1>1. /\ v \in Writers /\ v.written = v.last /\ v.last = w.last + (5 + Len(body))
      /\ Kept(v) = Kept(w) \o Encoded(type, body)
  BY DEF Wrote
<1>2. v.last \in 0..Size /\ w.last \in Nat /\ Len(body) \in Nat /\ Size \in Nat
  BY <1>1, WriterType, SizeType
<1>3. 4 + Len(body) \in Nat /\ 4 + Len(body) <= Size /\ Len(body) <= Size
  BY <1>1, <1>2
<1>4. 4 + Len(body) \in Readable /\ Len(body) \in Readable
  BY <1>2, <1>3, ReadableSizes
<1>5. Reads(Encoded(type, body), <<[type |-> type, body |-> body]>>)
  BY <1>4, OneReads
<1>. QED  BY <1>1, <1>4, <1>5 DEF Adds

\* A row is written whole, or dropped whole.
LEMMA DataWritten ==
  ASSUME NEW w \in Writers, w.written = w.last, NEW row \in Narrow
  PROVE  /\ BuildData(w, row) \in Writers
         /\ BuildData(w, row).full => Kept(BuildData(w, row)) = Kept(w) /\ BuildData(w, row).last = w.last
         /\ ~BuildData(w, row).full =>
              \E m \in Message : /\ m.type = D /\ RowOf(m.body) = RowTexts(row, Len(row))
                                 /\ Adds(w, BuildData(w, row), <<m>>)
<1>. DEFINE groups == RowGroups(row)
            v == WriteMessage(w, D, groups)
<1>1. BuildData(w, row) = v
  BY DEF BuildData, RowGroups
<1>2. groups \in Seq(Seq(Field))
  BY RowGroupsType DEF Narrow
<1>3. D \in Byte
  BY SMT DEF D, Byte
<1>4. PICK body \in Seq(Byte) : GroupsHold(groups, body) /\ Wrote(w, v, D, body)
  BY <1>2, <1>3, MessageWritten
<1>. HIDE DEF v, groups
<1>5. v \in Writers /\ (v.full => Kept(v) = Kept(w) /\ v.last = w.last)
  BY <1>4 DEF Wrote
<1>6. ASSUME ~v.full
      PROVE  \E m \in Message : m.type = D /\ RowOf(m.body) = RowTexts(row, Len(row)) /\ Adds(w, v, <<m>>)
  <2>. DEFINE m == [type |-> D, body |-> body]
  <2>1. Adds(w, v, <<m>>) /\ Len(body) \in Readable
    BY <1>3, <1>4, <1>6, WroteAdds
  <2>2. m \in Message /\ m.type = D /\ m.body = body
    BY <1>3 DEF Message
  <2>. HIDE DEF m
  <2>3. RowOf(m.body) = RowTexts(row, Len(row))
    BY <1>4, <2>1, <2>2, RowRead DEF groups
  <2>. QED  BY <2>1, <2>2, <2>3
<1>. QED  BY <1>1, <1>5, <1>6

\* A writer on a buffer of which nothing is used
LEMMA NewWriterType ==
  ASSUME NEW data \in Buffers
  PROVE  /\ On(data, NewWriter) \in Writers /\ ~On(data, NewWriter).full
         /\ On(data, NewWriter).written = 0 /\ On(data, NewWriter).last = 0
         /\ On(data, NewWriter).data = data /\ Kept(On(data, NewWriter)) = <<>>
<1>. DEFINE w == On(data, NewWriter)
<1>1. w = [data |-> data, written |-> 0, last |-> 0, full |-> FALSE]
  BY DEF On, NewWriter
<1>. HIDE DEF w
<1>2. w \in Writers
  BY <1>1, SizeType DEF Writers
<1>3. ~w.full /\ w.written = 0 /\ w.last = 0 /\ w.data = data
  BY <1>1
<1>4. Kept(w) \in Seq(Byte) /\ Len(Kept(w)) = 0
  BY <1>2, <1>3, WriterType
<1>5. Kept(w) = <<>>
  BY <1>4
<1>. QED  BY <1>2, <1>3, <1>5 DEF w

\* A text with a zero behind it is a field that is copied.
LEMMA ZeroEndType ==
  ASSUME NEW s \in Seq(Byte)
  PROVE  ZeroEnd(s) \in Field /\ FieldBytes(ZeroEnd(s)) = s \o <<0>> /\ ZeroEnd(s).by = "copy"
<1>. DEFINE z == <<0>>
<1>1. z \in Seq(Byte)
  <2>1. 0 \in Byte
    BY SMT DEF Byte
  <2>. QED  BY <2>1
<1>. HIDE DEF z
<1>2. s \o z \in Seq(Byte)
  BY <1>1, Joined
<1>3. ZeroEnd(s) = Bytes(s \o z)
  BY DEF ZeroEnd, z
<1>. QED  BY <1>2, <1>3, CopyField DEF z

\* The description of the columns
LEMMA DescriptionWritten ==
  ASSUME NEW data \in Buffers, NEW names \in Seq(Seq(Byte)), NEW types, \A i \in 1..Len(names) : types[i] \in Int
  PROVE  /\ BuildColumnDescription(data, names, types) \in Writers
         /\ ~BuildColumnDescription(data, names, types).full =>
              \E m \in Message :
                m.type = T /\ Reads(Kept(BuildColumnDescription(data, names, types)), <<m>>)
<1>. DEFINE n == Len(names)
            Column(i) == <<ZeroEnd(names[i]), Bytes(Int32(0)), Bytes(Int16(i)), Bytes(Int32(types[i])),
                           Bytes(Int16(-1)), Bytes(Int32(-1)), Bytes(Int16(0))>>
            a == <<<<Bytes(Int16(n))>>>>
            b == [i \in 1..n |-> Column(i)]
            w == On(data, NewWriter)
            v == WriteMessage(w, T, a \o b)
            A == Seq(Field)
<1>1. BuildColumnDescription(data, names, types) = v
  BY DEF BuildColumnDescription
<1>2. n \in Nat
  OBVIOUS
<1>3. \A x \in Int : Bytes(Int32(x)) \in Field /\ Bytes(Int16(x)) \in Field
  BY LongType, ShortBytes, CopyField
<1>4. ASSUME NEW i \in 1..n PROVE Column(i) \in A
  <2>. DEFINE f1 == ZeroEnd(names[i])
              f2 == Bytes(Int32(0))
              f3 == Bytes(Int16(i))
              f4 == Bytes(Int32(types[i]))
              f5 == Bytes(Int16(-1))
              f6 == Bytes(Int32(-1))
              f7 == Bytes(Int16(0))
  <2>1. names[i] \in Seq(Byte) /\ i \in Int /\ types[i] \in Int /\ 0 \in Int /\ -1 \in Int
    OBVIOUS
  <2>2. f1 \in Field
    BY <2>1, ZeroEndType
  <2>3. f2 \in Field /\ f3 \in Field /\ f4 \in Field /\ f5 \in Field /\ f6 \in Field /\ f7 \in Field
    BY <1>3, <2>1
  <2>4. Column(i) = <<f1, f2, f3, f4, f5, f6, f7>>
    OBVIOUS
  <2>. HIDE DEF f1, f2, f3, f4, f5, f6, f7, Column
  <2>. QED  BY <2>2, <2>3, <2>4
<1>5. a \in Seq(A)
  <2>. DEFINE f == Bytes(Int16(n))
  <2>1. f \in Field
    BY <1>2, <1>3
  <2>. HIDE DEF f
  <2>2. <<f>> \in Seq(Field)
    BY <2>1
  <2>3. <<<<f>>>> \in Seq(Seq(Field))
    BY <2>2
  <2>. QED  BY <2>3 DEF f
<1>6. b \in Seq(A)
  <2>. HIDE DEF A, Column
  <2>. QED  BY <1>2, <1>4
<1>. HIDE DEF a, b
<1>7. a \o b \in Seq(Seq(Field))
  BY <1>5, <1>6
<1>8. w \in Writers /\ w.written = w.last /\ Kept(w) = <<>>
  BY NewWriterType
<1>9. T \in Byte
  BY SMT DEF T, Byte
<1>. HIDE DEF w
<1>10. PICK body \in Seq(Byte) : Wrote(w, v, T, body)
  BY <1>7, <1>8, <1>9, MessageWritten
<1>. HIDE DEF v
<1>11. v \in Writers
  BY <1>10 DEF Wrote
<1>12. ASSUME ~v.full
       PROVE  \E m \in Message : m.type = T /\ Reads(Kept(v), <<m>>)
  <2>. DEFINE m == [type |-> T, body |-> body]
  <2>1. Adds(w, v, <<m>>)
    BY <1>8, <1>9, <1>10, <1>12, WroteAdds
  <2>2. m \in Message /\ m.type = T
    BY <1>9 DEF Message
  <2>. HIDE DEF m
  <2>3. PICK e : Reads(e, <<m>>) /\ Kept(v) = Kept(w) \o e
    BY <2>1 DEF Adds
  <2>4. Kept(v) = e
    BY <1>8, <2>3 DEF Reads
  <2>. QED  BY <2>2, <2>3, <2>4
<1>. QED  BY <1>1, <1>11, <1>12

\* A message that fits, and whose body is known
LEMMA MessageFits ==
  ASSUME NEW w \in Writers, w.written = w.last, NEW type \in Byte, NEW groups \in Seq(Seq(Field)),
         \A k \in 1..Len(groups) : Copied(groups[k]),
         NEW body, \A b \in Seq(Byte) : GroupsHold(groups, b) => b = body,
         w.last + (5 + Len(body)) <= Size
  PROVE  /\ body \in Seq(Byte) /\ [type |-> type, body |-> body] \in Message
         /\ Adds(w, WriteMessage(w, type, groups), <<[type |-> type, body |-> body]>>)
         /\ WriteMessage(w, type, groups).last = w.last + (5 + Len(body))
<1>. DEFINE v == WriteMessage(w, type, groups)
<1>1. PICK b \in Seq(Byte) :
        /\ GroupsHold(groups, b) /\ Wrote(w, v, type, b)
        /\ (\A k \in 1..Len(groups) : Copied(groups[k])) /\ w.last + (5 + Len(b)) <= Size => ~v.full
  BY MessageWritten
<1>. HIDE DEF v
<1>2. b = body
  BY <1>1
<1>3. Wrote(w, v, type, body) /\ ~v.full /\ body \in Seq(Byte)
  BY <1>1, <1>2
<1>4. Adds(w, v, <<[type |-> type, body |-> body]>>) /\ v.last = w.last + (5 + Len(body))
  BY <1>3, WroteAdds
<1>. QED  BY <1>3, <1>4 DEF v, Message

\* No groups of fields have no bytes.
LEMMA GroupsNone ==
  ASSUME NEW b, GroupsHold(<<>>, b)
  PROVE  b = <<>>
<1>1. Len(<<>>) = 0
  OBVIOUS
<1>2. PICK p : Together(b, 0, p)
  BY <1>1 DEF GroupsHold
<1>. QED  BY <1>2, TogetherNone

\* One group of one field has its bytes.
LEMMA GroupsOne ==
  ASSUME NEW f \in Field, NEW b, GroupsHold(<<<<f>>>>, b)
  PROVE  b = FieldBytes(f)
<1>. DEFINE g == <<f>>
            groups == <<g>>
<1>1. Len(groups) = 1 /\ groups[1] = g
  OBVIOUS
<1>. HIDE DEF groups, g
<1>2. PICK p \in [1..1 -> Seq(Byte)] : Together(b, 1, p) /\ \A k \in 1..1 : Holds(groups[k], p[k])
  BY <1>1 DEF GroupsHold, groups, g
<1>3. 1 \in 1..1
  OBVIOUS
<1>4. b = p[1]
  BY <1>2, <1>3, TogetherOne
<1>5. Holds(g, p[1])
  BY <1>1, <1>2, <1>3
<1>. QED  BY <1>4, <1>5, HoldsOne DEF g

\* A message without a field, and with one
LEMMA EmptyFits ==
  ASSUME NEW w \in Writers, w.written = w.last, NEW type \in Byte, w.last + 5 <= Size
  PROVE  /\ Adds(w, WriteMessage(w, type, <<>>), <<[type |-> type, body |-> <<>>]>>)
         /\ WriteMessage(w, type, <<>>).last = w.last + 5
<1>. DEFINE groups == <<>>
            body == <<>>
<1>1. groups \in Seq(Seq(Field)) /\ Len(groups) = 0 /\ Len(body) = 0
  OBVIOUS
<1>2. \A b \in Seq(Byte) : GroupsHold(groups, b) => b = body
  BY GroupsNone
<1>. HIDE DEF groups, body
<1>3. (\A k \in 1..Len(groups) : Copied(groups[k])) /\ w.last + (5 + Len(body)) <= Size
  BY <1>1
<1>4. /\ Adds(w, WriteMessage(w, type, groups), <<[type |-> type, body |-> body]>>)
      /\ WriteMessage(w, type, groups).last = w.last + (5 + Len(body))
  BY <1>1, <1>2, <1>3, MessageFits
<1>. QED  BY <1>1, <1>4 DEF groups, body

\* A message of one field that fits is added.
LEMMA FieldFits ==
  ASSUME NEW w \in Writers, w.written = w.last, NEW type \in Byte,
         NEW f \in Field, f.by = "copy", w.last + (5 + Len(FieldBytes(f))) <= Size
  PROVE  /\ Adds(w, WriteMessage(w, type, <<<<f>>>>), <<[type |-> type, body |-> FieldBytes(f)]>>)
         /\ WriteMessage(w, type, <<<<f>>>>).last = w.last + (5 + Len(FieldBytes(f)))
<1>. DEFINE groups == <<<<f>>>>
            body == FieldBytes(f)
<1>1. groups \in Seq(Seq(Field)) /\ Len(groups) = 1 /\ groups[1] = <<f>>
  <2>1. <<f>> \in Seq(Field)
    OBVIOUS
  <2>. QED  BY <2>1
<1>2. \A b \in Seq(Byte) : GroupsHold(groups, b) => b = body
  BY GroupsOne
<1>3. Copied(<<f>>)
  BY DEF Copied
<1>. HIDE DEF groups, body
<1>4. \A k \in 1..Len(groups) : Copied(groups[k])
  BY <1>1, <1>3
<1>5. /\ Adds(w, WriteMessage(w, type, groups), <<[type |-> type, body |-> body]>>)
      /\ WriteMessage(w, type, groups).last = w.last + (5 + Len(body))
  BY <1>1, <1>2, <1>4, MessageFits DEF body
<1>. QED  BY <1>5 DEF groups, body

\* A message that may be there
Optional(on, type, body) == IF on THEN <<[type |-> type, body |-> body]>> ELSE <<>>

\* A buffer that is left alone adds no message.
LEMMA NothingAdded ==
  ASSUME NEW w \in Writers, ~w.full, w.written = w.last
  PROVE  Adds(w, w, <<>>)
<1>1. Kept(w) \in Seq(Byte)
  BY WriterType
<1>. DEFINE e == <<>>
<1>2. Kept(w) = Kept(w) \o e
  BY <1>1
<1>3. Reads(e, <<>>)
  BY EmptyReads
<1>. HIDE DEF e
<1>. QED  BY <1>2, <1>3 DEF Adds

\* ReadyForQuery is added behind an answer to a query (WriteSync).
LEMMA SyncAdds ==
  ASSUME NEW w \in Writers, ~w.full, w.written = w.last, NEW sync \in BOOLEAN, sync => w.last + 6 <= Size
  PROVE  Adds(w, WriteSync(w, sync), Optional(sync, Z, <<I>>))
<1>1. CASE ~sync
  <2>1. WriteSync(w, sync) = w /\ Optional(sync, Z, <<I>>) = <<>>
    BY <1>1 DEF WriteSync, Optional
  <2>. QED  BY <2>1, NothingAdded
<1>2. CASE sync
  <2>. DEFINE b == <<I>>
              f == Bytes(b)
  <2>1. Z \in Byte /\ I \in Byte
    BY SMT DEF Z, I, Byte
  <2>2. b \in Seq(Byte) /\ Len(b) = 1
    BY <2>1
  <2>3. WriteSync(w, sync) = WriteMessage(w, Z, <<<<f>>>>)
    BY <1>2 DEF WriteSync
  <2>. HIDE DEF b
  <2>4. f \in Field /\ f.by = "copy" /\ FieldBytes(f) = b
    BY <2>2, CopyField
  <2>. HIDE DEF f
  <2>5. w.last + (5 + Len(FieldBytes(f))) <= Size
    <3>1. Len(FieldBytes(f)) = 1
      BY <2>2, <2>4
    <3>2. w.last \in Nat /\ w.last + 6 <= Size
      BY <1>2, WriterType
    <3>3. w.last + (5 + 1) = w.last + 6
      BY <3>2
    <3>. QED  BY <3>1, <3>2, <3>3
  <2>6. Adds(w, WriteMessage(w, Z, <<<<f>>>>), <<[type |-> Z, body |-> FieldBytes(f)]>>)
    BY <2>1, <2>4, <2>5, FieldFits
  <2>7. Optional(sync, Z, b) = <<[type |-> Z, body |-> b]>>
    BY <1>2 DEF Optional
  <2>. QED  BY <2>3, <2>4, <2>6, <2>7 DEF b
<1>. QED  BY <1>1, <1>2

\* An acknowledgement is added if it is asked for.
LEMMA AckAdds ==
  ASSUME NEW w \in Writers, ~w.full, w.written = w.last, NEW on \in BOOLEAN, NEW type \in Byte,
         w.last + OptionalSize(on, 5) <= Size
  PROVE  LET v == IF on THEN WriteMessage(w, type, <<>>) ELSE w
         IN Adds(w, v, Optional(on, type, <<>>)) /\ v.last = w.last + OptionalSize(on, 5)
<1>. DEFINE v == IF on THEN WriteMessage(w, type, <<>>) ELSE w
<1>0. w.last \in Nat
  BY WriterType
<1>1. CASE ~on
  <2>1. v = w /\ Optional(on, type, <<>>) = <<>> /\ OptionalSize(on, 5) = 0
    BY <1>1 DEF Optional, OptionalSize
  <2>. HIDE DEF v
  <2>2. Adds(w, v, Optional(on, type, <<>>)) /\ v.last = w.last + OptionalSize(on, 5)
    BY <1>0, <2>1, NothingAdded
  <2>. QED  BY <2>2 DEF v
<1>2. CASE on
  <2>1. v = WriteMessage(w, type, <<>>) /\ Optional(on, type, <<>>) = <<[type |-> type, body |-> <<>>]>>
        /\ OptionalSize(on, 5) = 5
    BY <1>2 DEF Optional, OptionalSize
  <2>2. w.last + 5 <= Size
    BY <2>1
  <2>. HIDE DEF v
  <2>3. Adds(w, v, Optional(on, type, <<>>)) /\ v.last = w.last + OptionalSize(on, 5)
    BY <2>1, <2>2, EmptyFits
  <2>. QED  BY <2>3 DEF v
<1>. QED  BY <1>1, <1>2

\* The end of an execution
DoneMessages(s) ==
  ((Optional(s.parsed, One, <<>>) \o Optional(s.bound, Two, <<>>)) \o <<[type |-> C, body |-> s.info \o <<0>>]>>)
  \o Optional(s.sync, Z, <<I>>)

\* The end of an execution that fits is added whole (buildExecutionDone).
LEMMA DoneAdds ==
  ASSUME NEW data \in Buffers, NEW s, s.parsed \in BOOLEAN, s.bound \in BOOLEAN, s.sync \in BOOLEAN,
         s.info \in Seq(Byte), DoneSize(s) <= Size
  PROVE  Adds(On(data, NewWriter), BuildExecutionDone(data, s), DoneMessages(s))
<1>. DEFINE u == On(data, NewWriter)
            parsed == IF s.parsed THEN WriteMessage(u, One, <<>>) ELSE u
            bound == IF s.bound THEN WriteMessage(parsed, Two, <<>>) ELSE parsed
            f == ZeroEnd(s.info)
            done == WriteMessage(bound, C, <<<<f>>>>)
            x == OptionalSize(s.parsed, 5)
            y == OptionalSize(s.bound, 5)
            n == Len(s.info)
            z == OptionalSize(s.sync, 6)
<1>1. BuildExecutionDone(data, s) = WriteSync(done, s.sync)
  BY DEF BuildExecutionDone
<1>2. One \in Byte /\ Two \in Byte /\ C \in Byte
  BY SMT DEF One, Two, C, Byte
<1>3. /\ x \in Nat /\ y \in Nat /\ n \in Nat /\ z \in Nat /\ Size \in Nat
      /\ ((x + y) + (5 + (n + 1))) + z <= Size
      /\ s.sync => z = 6
  <2>1. x \in Nat
    BY DEF OptionalSize
  <2>2. y \in Nat
    BY DEF OptionalSize
  <2>3. z \in Nat /\ (s.sync => z = 6)
    BY DEF OptionalSize
  <2>4. n \in Nat /\ Size \in Nat
    BY SizeType
  <2>5. ((x + y) + (5 + (n + 1))) + z <= Size
    BY DEF DoneSize
  <2>. QED  BY <2>1, <2>2, <2>3, <2>4, <2>5
<1>4. u \in Writers /\ ~u.full /\ u.written = u.last /\ u.last = 0
  BY NewWriterType
<1>. HIDE DEF u, x, y, n, z
<1>5. u.last + x <= Size
  BY <1>3, <1>4
<1>6. Adds(u, parsed, Optional(s.parsed, One, <<>>)) /\ parsed.last = u.last + x
  BY <1>2, <1>4, <1>5, AckAdds DEF x
<1>. HIDE DEF parsed
<1>7. parsed \in Writers /\ ~parsed.full /\ parsed.written = parsed.last /\ parsed.last = x
  BY <1>3, <1>4, <1>6 DEF Adds
<1>8. parsed.last + y <= Size
  BY <1>3, <1>7
<1>9. Adds(parsed, bound, Optional(s.bound, Two, <<>>)) /\ bound.last = parsed.last + y
  BY <1>2, <1>7, <1>8, AckAdds DEF y
<1>. HIDE DEF bound
<1>10. bound \in Writers /\ ~bound.full /\ bound.written = bound.last /\ bound.last = x + y
  BY <1>3, <1>7, <1>9 DEF Adds
<1>. DEFINE body == s.info \o <<0>>
<1>11. f \in Field /\ f.by = "copy" /\ FieldBytes(f) = body
  BY ZeroEndType
<1>12. Len(body) = n + 1
  <2>. DEFINE e == <<0>>
  <2>1. e \in Seq(Byte) /\ Len(e) = 1
    <3>1. 0 \in Byte
      BY SMT DEF Byte
    <3>. QED  BY <3>1
  <2>. HIDE DEF e
  <2>2. e \in Seq(Byte)
    BY <2>1
  <2>3. Len(s.info \o e) = Len(s.info) + Len(e)
    BY <2>2, Joined
  <2>. QED  BY <2>1, <2>3 DEF e, n
<1>. HIDE DEF f, body
<1>13. bound.last + (5 + Len(FieldBytes(f))) <= Size
  BY <1>3, <1>10, <1>11, <1>12
<1>14. Adds(bound, done, <<[type |-> C, body |-> body]>>) /\ done.last = bound.last + (5 + Len(body))
  BY <1>2, <1>10, <1>11, <1>13, FieldFits
<1>. HIDE DEF done
<1>15. done \in Writers /\ ~done.full /\ done.written = done.last /\ (s.sync => done.last + 6 <= Size)
  BY <1>3, <1>10, <1>12, <1>14 DEF Adds
<1>16. Adds(done, WriteSync(done, s.sync), Optional(s.sync, Z, <<I>>))
  BY <1>15, SyncAdds
<1>17. Adds(u, bound, Optional(s.parsed, One, <<>>) \o Optional(s.bound, Two, <<>>))
  BY <1>4, <1>6, <1>9, AddsOn
<1>18. Adds(u, done, (Optional(s.parsed, One, <<>>) \o Optional(s.bound, Two, <<>>)) \o <<[type |-> C, body |-> body]>>)
  BY <1>4, <1>14, <1>17, AddsOn
<1>19. Adds(u, WriteSync(done, s.sync), DoneMessages(s))
  BY <1>4, <1>16, <1>18, AddsOn DEF DoneMessages, body
<1>. QED  BY <1>1, <1>19 DEF u

-----------------------------------------------------------------------------
(* Errors                                                                   *)

\* The characters of an error response are bytes.
LEMMA ConstantBytes ==
  /\ <<S>> \in Seq(Byte) /\ <<C>> \in Seq(Byte) /\ <<M>> \in Seq(Byte) /\ <<P>> \in Seq(Byte) /\ <<0>> \in Seq(Byte)
  /\ ERROR \in Seq(Byte) /\ Len(ERROR) = 5 /\ SqlState \in Seq(Byte) /\ Len(SqlState) = 5
<1>1. S \in Byte /\ C \in Byte /\ M \in Byte /\ P \in Byte /\ 0 \in Byte
  BY SMT DEF S, C, M, P, Byte
<1>2. 69 \in Byte /\ 82 \in Byte /\ 79 \in Byte /\ 48 \in Byte
  BY SMT DEF Byte
<1>3. ERROR \in Seq(Byte) /\ Len(ERROR) = 5
  BY <1>2 DEF ERROR
<1>4. SqlState \in Seq(Byte) /\ Len(SqlState) = 5
  BY <1>2 DEF SqlState
<1>. QED  BY <1>1, <1>3, <1>4

\* Fields that end with a zero, put together
Chained(y, z, c, s) == (y \o z) \o (c \o (s \o z)) = ((y \o (z \o c)) \o s) \o z

\* The parts of an error response may be joined in the order in which they are
\* grouped, or one after the other.
LEMMA Regrouped ==
  ASSUME NEW y \in Seq(Byte), NEW z \in Seq(Byte), NEW c \in Seq(Byte), NEW s \in Seq(Byte)
  PROVE  Chained(y, z, c, s)
<1>. DEFINE u == y \o z
            v == s \o z
            x == y \o (z \o c)
<1>1. u \in Seq(Byte) /\ v \in Seq(Byte) /\ x \in Seq(Byte)
  <2>1. z \o c \in Seq(Byte)
    OBVIOUS
  <2>. QED  BY <2>1
<1>2. u \o c = x
  BY Associative
<1>3. x \o v = (x \o s) \o z
  <2>1. (x \o s) \o z = x \o (s \o z)
    <3>. HIDE DEF x
    <3>1. x \in Seq(Byte) /\ s \in Seq(Byte) /\ z \in Seq(Byte)
      BY <1>1
    <3>. QED  BY <3>1, Associative
  <2>. QED  BY <2>1
<1>. HIDE DEF u, v, x
<1>4. u \o (c \o v) = (u \o c) \o v
  BY <1>1
<1>5. u \o (c \o v) = (x \o s) \o z
  BY <1>2, <1>3, <1>4
<1>. QED  BY <1>5 DEF u, v, x, Chained

\* Five pieces
Ends(b, m, n, piece) == \E a \in Seq(Byte) : Together(a, n, piece) /\ b = a \o piece[m]

\* The last of some pieces, by its number
LEMMA TogetherMoreAt ==
  ASSUME NEW n \in Nat, NEW m, m = n + 1, NEW b, NEW piece, Together(b, m, piece)
  PROVE  Ends(b, m, n, piece)
BY TogetherMore DEF Ends

\* Five pieces are joined.
LEMMA TogetherFive ==
  ASSUME NEW b, NEW p, p[1] \in Seq(Byte), p[2] \in Seq(Byte), Together(b, 5, p)
  PROVE  b = (((p[1] \o p[2]) \o p[3]) \o p[4]) \o p[5]
<1>1. PICK x4 \in Seq(Byte) : Together(x4, 4, p) /\ b = x4 \o p[5]
  <2>1. 4 \in Nat /\ 5 = 4 + 1
    OBVIOUS
  <2>2. Ends(b, 5, 4, p)
    BY <2>1, TogetherMoreAt
  <2>. QED  BY <2>2, Zenon DEF Ends
<1>2. PICK x3 \in Seq(Byte) : Together(x3, 3, p) /\ x4 = x3 \o p[4]
  <2>1. 3 \in Nat /\ 4 = 3 + 1
    OBVIOUS
  <2>2. Ends(x4, 4, 3, p)
    BY <1>1, <2>1, TogetherMoreAt
  <2>. QED  BY <2>2, Zenon DEF Ends
<1>3. PICK x2 \in Seq(Byte) : Together(x2, 2, p) /\ x3 = x2 \o p[3]
  <2>1. 2 \in Nat /\ 3 = 2 + 1
    OBVIOUS
  <2>2. Ends(x3, 3, 2, p)
    BY <1>2, <2>1, TogetherMoreAt
  <2>. QED  BY <2>2, Zenon DEF Ends
<1>4. x2 = p[1] \o p[2]
  BY <1>3, TogetherTwo
<1>. QED  BY <1>1, <1>2, <1>3, <1>4

\* A field of an error: a letter, and a text with a zero behind it
LEMMA LetterAndText ==
  ASSUME NEW a \in Seq(Byte), NEW s \in Seq(Byte)
  PROVE  /\ <<Bytes(a), ZeroEnd(s)>> \in Seq(Field) /\ Copied(<<Bytes(a), ZeroEnd(s)>>)
         /\ \A b : Holds(<<Bytes(a), ZeroEnd(s)>>, b) => b = a \o (s \o <<0>>)
<1>. DEFINE f == Bytes(a)
            g == ZeroEnd(s)
<1>1. f \in Field /\ f.by = "copy" /\ FieldBytes(f) = a
  BY CopyField
<1>2. g \in Field /\ g.by = "copy" /\ FieldBytes(g) = s \o <<0>>
  BY ZeroEndType
<1>. HIDE DEF f, g
<1>3. <<f, g>> \in Seq(Field)
  BY <1>1, <1>2
<1>4. Copied(<<f, g>>)
  BY <1>1, <1>2 DEF Copied
<1>5. ASSUME NEW b, Holds(<<f, g>>, b) PROVE b = a \o (s \o <<0>>)
  <2>1. b = FieldBytes(f) \o FieldBytes(g)
    BY <1>1, <1>2, <1>5, HoldsTwo
  <2>. QED  BY <1>1, <1>2, <2>1
<1>. QED  BY <1>3, <1>4, <1>5 DEF f, g

\* The fields of an error, as buildException writes them
PositionFields(pos) == IF pos = <<>> THEN <<>> ELSE <<Bytes(<<P>>), ZeroEnd(pos)>>
PositionBytes(pos)  == IF pos = <<>> THEN <<>> ELSE (<<P>> \o pos) \o <<0>>
ErrorGroups(msg, pos) ==
  <<<<Bytes(<<S>>), ZeroEnd(ERROR)>>, <<Bytes(<<C>>), ZeroEnd(SqlState)>>, <<Bytes(<<M>>), ZeroEnd(msg)>>,
    PositionFields(pos), <<Bytes(<<0>>)>>>>

\* The field of the position, or nothing where there is none
LEMMA PositionRight ==
  ASSUME NEW pos \in Seq(Byte)
  PROVE  /\ PositionFields(pos) \in Seq(Field) /\ Copied(PositionFields(pos)) /\ PositionBytes(pos) \in Seq(Byte)
         /\ \A b : Holds(PositionFields(pos), b) => b = PositionBytes(pos)
<1>1. CASE pos = <<>>
  <2>. DEFINE e == <<>>
  <2>1. e \in Seq(Field) /\ e \in Seq(Byte) /\ Len(e) = 0
    OBVIOUS
  <2>2. PositionFields(pos) = e /\ PositionBytes(pos) = e
    BY <1>1 DEF PositionFields, PositionBytes
  <2>3. \A b : Holds(e, b) => b = e
    BY HoldsNone
  <2>. HIDE DEF e
  <2>4. Copied(e)
    BY <2>1 DEF Copied
  <2>. QED  BY <2>1, <2>2, <2>3, <2>4
<1>2. CASE pos # <<>>
  <2>. DEFINE a == <<P>>
              z == <<0>>
              fields == <<Bytes(a), ZeroEnd(pos)>>
  <2>1. a \in Seq(Byte) /\ z \in Seq(Byte)
    BY ConstantBytes
  <2>2. PositionFields(pos) = fields /\ PositionBytes(pos) = (a \o pos) \o z
    BY <1>2 DEF PositionFields, PositionBytes
  <2>3. fields \in Seq(Field) /\ Copied(fields) /\ \A b : Holds(fields, b) => b = a \o (pos \o z)
    <3>. HIDE DEF a
    <3>. QED  BY <2>1, LetterAndText
  <2>. HIDE DEF a, z, fields
  <2>4. (a \o pos) \o z = a \o (pos \o z)
    BY <2>1, Associative
  <2>5. (a \o pos) \o z \in Seq(Byte)
    <3>1. a \o pos \in Seq(Byte)
      BY <2>1, Joined
    <3>. QED  BY <2>1, <3>1, Joined
  <2>. QED  BY <2>2, <2>3, <2>4, <2>5
<1>. QED  BY <1>1, <1>2

\* Five groups, one behind the other
FiveHeld(g1, g2, g3, g4, g5, b) ==
  \E p \in [1..5 -> Seq(Byte)] :
    /\ Holds(g1, p[1]) /\ Holds(g2, p[2]) /\ Holds(g3, p[3]) /\ Holds(g4, p[4]) /\ Holds(g5, p[5])
    /\ b = (((p[1] \o p[2]) \o p[3]) \o p[4]) \o p[5]

\* Five groups of fields are joined.
LEMMA GroupsFive ==
  ASSUME NEW g1 \in Seq(Field), NEW g2 \in Seq(Field), NEW g3 \in Seq(Field), NEW g4 \in Seq(Field), NEW g5 \in Seq(Field),
         NEW b, GroupsHold(<<g1, g2, g3, g4, g5>>, b)
  PROVE  FiveHeld(g1, g2, g3, g4, g5, b)
<1>. DEFINE groups == <<g1, g2, g3, g4, g5>>
<1>1. Len(groups) = 5 /\ groups[1] = g1 /\ groups[2] = g2 /\ groups[3] = g3 /\ groups[4] = g4 /\ groups[5] = g5
  OBVIOUS
<1>. HIDE DEF groups
<1>2. PICK p \in [1..5 -> Seq(Byte)] : Together(b, 5, p) /\ \A k \in 1..5 : Holds(groups[k], p[k])
  BY <1>1 DEF GroupsHold, groups
<1>3. 1 \in 1..5 /\ 2 \in 1..5 /\ 3 \in 1..5 /\ 4 \in 1..5 /\ 5 \in 1..5
  OBVIOUS
<1>4. Holds(g1, p[1]) /\ Holds(g2, p[2]) /\ Holds(g3, p[3]) /\ Holds(g4, p[4]) /\ Holds(g5, p[5])
  BY <1>1, <1>2, <1>3
<1>5. p[1] \in Seq(Byte) /\ p[2] \in Seq(Byte)
  BY <1>2, <1>3
<1>6. b = (((p[1] \o p[2]) \o p[3]) \o p[4]) \o p[5]
  BY <1>2, <1>5, TogetherFive
<1>. QED  BY <1>2, <1>4, <1>6 DEF FiveHeld

\* The groups of fields of buildException are the body of an error response.
LEMMA ErrorRead ==
  ASSUME NEW msg \in Seq(Byte), NEW pos \in Seq(Byte), NEW b, GroupsHold(ErrorGroups(msg, pos), b)
  PROVE  b = ErrorBody(msg, pos)
<1>. DEFINE z == <<0>>
            s == <<S>>
            c == <<C>>
            m == <<M>>
            g1 == <<Bytes(s), ZeroEnd(ERROR)>>
            g2 == <<Bytes(c), ZeroEnd(SqlState)>>
            g3 == <<Bytes(m), ZeroEnd(msg)>>
            g4 == PositionFields(pos)
            g5 == <<Bytes(z)>>
            q == PositionBytes(pos)
<1>1. z \in Seq(Byte) /\ s \in Seq(Byte) /\ c \in Seq(Byte) /\ m \in Seq(Byte) /\ ERROR \in Seq(Byte) /\ SqlState \in Seq(Byte)
  BY ConstantBytes
<1>2. ErrorGroups(msg, pos) = <<g1, g2, g3, g4, g5>>
  BY DEF ErrorGroups
<1>3. <<0, C>> = z \o c /\ <<0, M>> = z \o m
  OBVIOUS
<1>4. ErrorBody(msg, pos) =
        (((((((s \o ERROR) \o (z \o c)) \o SqlState) \o (z \o m)) \o msg) \o z) \o q) \o z
  BY <1>3, Zenon DEF ErrorBody, PositionBytes
<1>. HIDE DEF z, s, c, m, q
<1>0. (s \o ERROR) \o z = s \o (ERROR \o z)
  <2>1. s \in Seq(Byte) /\ ERROR \in Seq(Byte) /\ z \in Seq(Byte)
    BY <1>1
  <2>. QED  BY <2>1, Associative
<1>5. g1 \in Seq(Field) /\ \A e : Holds(g1, e) => e = s \o (ERROR \o z)
  BY <1>1, LetterAndText DEF z
<1>6. g2 \in Seq(Field) /\ \A e : Holds(g2, e) => e = c \o (SqlState \o z)
  BY <1>1, LetterAndText DEF z
<1>7. g3 \in Seq(Field) /\ \A e : Holds(g3, e) => e = m \o (msg \o z)
  BY <1>1, LetterAndText DEF z
<1>8. g4 \in Seq(Field) /\ \A e : Holds(g4, e) => e = q
  BY PositionRight DEF q
<1>9. g5 \in Seq(Field) /\ \A e : Holds(g5, e) => e = z
  <2>. DEFINE f == Bytes(z)
  <2>1. f \in Field /\ FieldBytes(f) = z
    BY <1>1, CopyField
  <2>. HIDE DEF f
  <2>2. <<f>> \in Seq(Field) /\ \A e : Holds(<<f>>, e) => e = z
    BY <2>1, HoldsOne
  <2>. QED  BY <2>2 DEF f
<1>. HIDE DEF g1, g2, g3, g4, g5
<1>10. PICK p \in [1..5 -> Seq(Byte)] :
         /\ Holds(g1, p[1]) /\ Holds(g2, p[2]) /\ Holds(g3, p[3]) /\ Holds(g4, p[4]) /\ Holds(g5, p[5])
         /\ b = (((p[1] \o p[2]) \o p[3]) \o p[4]) \o p[5]
  <2>1. g1 \in Seq(Field) /\ g2 \in Seq(Field) /\ g3 \in Seq(Field) /\ g4 \in Seq(Field) /\ g5 \in Seq(Field)
    BY <1>5, <1>6, <1>7, <1>8, <1>9
  <2>2. GroupsHold(<<g1, g2, g3, g4, g5>>, b)
    BY <1>2
  <2>3. FiveHeld(g1, g2, g3, g4, g5, b)
    BY <2>1, <2>2, GroupsFive
  <2>. QED  BY <2>3, Zenon DEF FiveHeld
<1>11. p[1] = s \o (ERROR \o z) /\ p[2] = c \o (SqlState \o z) /\ p[3] = m \o (msg \o z) /\ p[4] = q /\ p[5] = z
  BY <1>5, <1>6, <1>7, <1>8, <1>9, <1>10
<1>. DEFINE x == s \o ERROR
            y == (x \o (z \o c)) \o SqlState
<1>12. s \o (ERROR \o z) = x \o z /\ x \in Seq(Byte)
  <2>1. s \o ERROR \in Seq(Byte)
    BY <1>1, Joined
  <2>. QED  BY <1>0, <2>1
<1>. HIDE DEF x
<1>13. (x \o z) \o (c \o (SqlState \o z)) = y \o z
  <2>1. x \in Seq(Byte) /\ z \in Seq(Byte) /\ c \in Seq(Byte) /\ SqlState \in Seq(Byte)
    BY <1>1, <1>12
  <2>2. Chained(x, z, c, SqlState)
    BY <2>1, Regrouped
  <2>. QED  BY <2>2 DEF Chained
<1>14. y \in Seq(Byte)
  <2>1. z \o c \in Seq(Byte)
    BY <1>1, Joined
  <2>2. x \o (z \o c) \in Seq(Byte)
    BY <1>12, <2>1, Joined
  <2>. QED  BY <1>1, <2>2, Joined
<1>. HIDE DEF y
<1>15. (y \o z) \o (m \o (msg \o z)) = ((y \o (z \o m)) \o msg) \o z
  <2>1. y \in Seq(Byte) /\ z \in Seq(Byte) /\ m \in Seq(Byte) /\ msg \in Seq(Byte)
    BY <1>1, <1>14
  <2>2. Chained(y, z, m, msg)
    BY <2>1, Regrouped
  <2>. QED  BY <2>2 DEF Chained
<1>16. b = ((((y \o (z \o m)) \o msg) \o z) \o q) \o z
  BY <1>10, <1>11, <1>12, <1>13, <1>15, Zenon
<1>. QED  BY <1>4, <1>16, Zenon DEF y, x

\* The room that a position takes
LEMMA PositionLength ==
  ASSUME NEW pos \in Seq(Byte)
  PROVE  Len(PositionBytes(pos)) = PositionSize(pos) /\ PositionSize(pos) \in Nat
<1>1. CASE pos = <<>>
  <2>1. PositionBytes(pos) = <<>> /\ PositionSize(pos) = 0
    BY <1>1 DEF PositionBytes, PositionSize
  <2>. QED  BY <2>1
<1>2. CASE pos # <<>>
  <2>. DEFINE a == <<P>>
              z == <<0>>
              n == Len(pos)
  <2>1. a \in Seq(Byte) /\ z \in Seq(Byte) /\ Len(a) = 1 /\ Len(z) = 1 /\ n \in Nat
    BY ConstantBytes
  <2>2. PositionBytes(pos) = (a \o pos) \o z /\ PositionSize(pos) = 2 + n
    BY <1>2 DEF PositionBytes, PositionSize
  <2>. HIDE DEF a, z, n
  <2>3. a \o pos \in Seq(Byte) /\ Len(a \o pos) = 1 + n
    <3>1. a \o pos \in Seq(Byte) /\ Len(a \o pos) = Len(a) + Len(pos)
      BY <2>1, Joined
    <3>. QED  BY <2>1, <3>1 DEF n
  <2>. DEFINE u == a \o pos
  <2>. HIDE DEF u
  <2>4. Len(u \o z) = (1 + n) + 1
    <3>1. u \in Seq(Byte) /\ Len(u) = 1 + n
      BY <2>3 DEF u
    <3>2. Len(u \o z) = Len(u) + Len(z)
      BY <2>1, <3>1, Joined
    <3>. QED  BY <2>1, <3>1, <3>2
  <2>. QED  BY <2>1, <2>2, <2>4 DEF u
<1>. QED  BY <1>1, <1>2

\* The length of the body of an error response
LEMMA ErrorLength ==
  ASSUME NEW msg \in Seq(Byte), NEW pos \in Seq(Byte)
  PROVE  Len(ErrorBody(msg, pos)) = (17 + Len(msg)) + PositionSize(pos)
<1>. DEFINE z == <<0>>
            s == <<S>>
            zc == <<0, C>>
            zm == <<0, M>>
            q == PositionBytes(pos)
            n == Len(msg)
            k == PositionSize(pos)
            e == ERROR
            t == SqlState
            b1 == s \o e
            b2 == b1 \o zc
            b3 == b2 \o t
            b4 == b3 \o zm
            b5 == b4 \o msg
            b6 == b5 \o z
            b7 == b6 \o q
<1>1. ErrorBody(msg, pos) = b7 \o z
  BY Zenon DEF ErrorBody, PositionBytes
<1>2. z \in Seq(Byte) /\ s \in Seq(Byte) /\ Len(z) = 1 /\ Len(s) = 1
  BY ConstantBytes
<1>3. e \in Seq(Byte) /\ Len(e) = 5 /\ t \in Seq(Byte) /\ Len(t) = 5
  BY ConstantBytes
<1>4. zc \in Seq(Byte) /\ Len(zc) = 2 /\ zm \in Seq(Byte) /\ Len(zm) = 2
  <2>1. C \in Byte /\ M \in Byte /\ 0 \in Byte
    BY SMT DEF C, M, Byte
  <2>. QED  BY <2>1
<1>5. q \in Seq(Byte) /\ Len(q) = k /\ k \in Nat
  BY PositionRight, PositionLength
<1>6. n \in Nat
  OBVIOUS
<1>. HIDE DEF z, s, zc, zm, q, k, e, t
<1>7. b1 \in Seq(Byte) /\ Len(b1) = 6
  <2>1. b1 \in Seq(Byte) /\ Len(b1) = Len(s) + Len(e)
    BY <1>2, <1>3, Joined
  <2>. QED  BY <1>2, <1>3, <2>1
<1>. HIDE DEF b1
<1>8. b2 \in Seq(Byte) /\ Len(b2) = 8
  <2>1. b2 \in Seq(Byte) /\ Len(b2) = Len(b1) + Len(zc)
    BY <1>4, <1>7, Joined
  <2>. QED  BY <1>4, <1>7, <2>1
<1>. HIDE DEF b2
<1>9. b3 \in Seq(Byte) /\ Len(b3) = 13
  <2>1. b3 \in Seq(Byte) /\ Len(b3) = Len(b2) + Len(t)
    BY <1>3, <1>8, Joined
  <2>. QED  BY <1>3, <1>8, <2>1
<1>. HIDE DEF b3
<1>10. b4 \in Seq(Byte) /\ Len(b4) = 15
  <2>1. b4 \in Seq(Byte) /\ Len(b4) = Len(b3) + Len(zm)
    BY <1>4, <1>9, Joined
  <2>. QED  BY <1>4, <1>9, <2>1
<1>. HIDE DEF b4
<1>11. b5 \in Seq(Byte) /\ Len(b5) = 15 + n
  <2>1. b5 \in Seq(Byte) /\ Len(b5) = Len(b4) + Len(msg)
    BY <1>10, Joined
  <2>. QED  BY <1>10, <2>1
<1>. HIDE DEF b5, n
<1>12. b6 \in Seq(Byte) /\ Len(b6) = (15 + n) + 1
  <2>1. b6 \in Seq(Byte) /\ Len(b6) = Len(b5) + Len(z)
    BY <1>2, <1>11, Joined
  <2>. QED  BY <1>2, <1>11, <2>1
<1>. HIDE DEF b6
<1>13. b7 \in Seq(Byte) /\ Len(b7) = ((15 + n) + 1) + k
  <2>1. b7 \in Seq(Byte) /\ Len(b7) = Len(b6) + Len(q)
    BY <1>5, <1>12, Joined
  <2>. QED  BY <1>5, <1>12, <2>1
<1>. HIDE DEF b7
<1>14. Len(b7 \o z) = (((15 + n) + 1) + k) + 1
  <2>1. Len(b7 \o z) = Len(b7) + Len(z)
    BY <1>2, <1>13, Joined
  <2>. QED  BY <1>2, <1>13, <2>1
<1>15. (((15 + n) + 1) + k) + 1 = (17 + n) + k
  BY <1>5, <1>6
<1>. QED  BY <1>1, <1>14, <1>15 DEF n, k

\* The fields of an error response are all copied.
LEMMA ErrorGroupsType ==
  ASSUME NEW msg \in Seq(Byte), NEW pos \in Seq(Byte)
  PROVE  /\ ErrorGroups(msg, pos) \in Seq(Seq(Field))
         /\ \A k \in 1..Len(ErrorGroups(msg, pos)) : Copied(ErrorGroups(msg, pos)[k])
<1>. DEFINE z == <<0>>
            s == <<S>>
            c == <<C>>
            m == <<M>>
            f == Bytes(z)
            g1 == <<Bytes(s), ZeroEnd(ERROR)>>
            g2 == <<Bytes(c), ZeroEnd(SqlState)>>
            g3 == <<Bytes(m), ZeroEnd(msg)>>
            g4 == PositionFields(pos)
            g5 == <<f>>
            groups == <<g1, g2, g3, g4, g5>>
<1>1. z \in Seq(Byte) /\ s \in Seq(Byte) /\ c \in Seq(Byte) /\ m \in Seq(Byte) /\ ERROR \in Seq(Byte) /\ SqlState \in Seq(Byte)
  BY ConstantBytes
<1>2. ErrorGroups(msg, pos) = groups
  BY DEF ErrorGroups
<1>. HIDE DEF z, s, c, m
<1>3. g1 \in Seq(Field) /\ Copied(g1)
  BY <1>1, LetterAndText
<1>4. g2 \in Seq(Field) /\ Copied(g2)
  BY <1>1, LetterAndText
<1>5. g3 \in Seq(Field) /\ Copied(g3)
  BY <1>1, LetterAndText
<1>6. g4 \in Seq(Field) /\ Copied(g4)
  BY PositionRight
<1>7. g5 \in Seq(Field) /\ Copied(g5)
  <2>1. f \in Field /\ f.by = "copy"
    BY <1>1, CopyField
  <2>. HIDE DEF f
  <2>. QED  BY <2>1 DEF Copied
<1>. HIDE DEF g1, g2, g3, g4, g5
<1>8. groups \in Seq(Seq(Field)) /\ Len(groups) = 5
  BY <1>3, <1>4, <1>5, <1>6, <1>7
<1>9. \A k \in 1..5 : Copied(groups[k])
  BY <1>3, <1>4, <1>5, <1>6, <1>7
<1>. QED  BY <1>2, <1>8, <1>9

\* What is written behind nothing is all that there is.
LEMMA FirstAdds ==
  ASSUME NEW w \in Writers, Kept(w) = <<>>, NEW v, NEW ms, Adds(w, v, ms)
  PROVE  v \in Writers /\ ~v.full /\ v.written = v.last /\ Reads(Kept(v), ms)
<1>1. PICK e : Reads(e, ms) /\ Kept(v) = Kept(w) \o e
  BY DEF Adds
<1>2. Kept(v) = e
  BY <1>1 DEF Reads
<1>. QED  BY <1>1, <1>2 DEF Adds

ErrorMessage(msg, pos) == [type |-> E, body |-> ErrorBody(msg, pos)]

\* An error response that fits
LEMMA ErrorFits ==
  ASSUME NEW data \in Buffers, NEW msg \in Seq(Byte), NEW pos \in Seq(Byte), NEW sync \in BOOLEAN,
         ErrorSize(Len(msg), pos) + OptionalSize(sync, 6) <= Size
  PROVE  /\ ErrorMessage(msg, pos) \in Message
         /\ Adds(On(data, NewWriter), TryException(data, msg, pos, sync),
                 <<ErrorMessage(msg, pos)>> \o Optional(sync, Z, <<I>>))
<1>. DEFINE u == On(data, NewWriter)
            groups == ErrorGroups(msg, pos)
            body == ErrorBody(msg, pos)
            v == WriteMessage(u, E, groups)
            n == Len(msg)
            k == PositionSize(pos)
            z == OptionalSize(sync, 6)
<1>1. TryException(data, msg, pos, sync) = WriteSync(v, sync)
  BY DEF TryException, ErrorGroups, PositionFields
<1>2. u \in Writers /\ u.written = u.last /\ u.last = 0
  BY NewWriterType
<1>3. groups \in Seq(Seq(Field)) /\ \A i \in 1..Len(groups) : Copied(groups[i])
  BY ErrorGroupsType
<1>4. \A b \in Seq(Byte) : GroupsHold(groups, b) => b = body
  BY ErrorRead
<1>5. E \in Byte
  BY SMT DEF E, Byte
<1>6. Len(body) = (17 + n) + k
  BY ErrorLength
<1>7. n \in Nat /\ k \in Nat /\ Size \in Nat
  BY PositionLength, SizeType
<1>8. z \in Nat /\ (sync => z = 6)
  BY DEF OptionalSize
<1>9. ((22 + n) + k) + z <= Size
  BY DEF ErrorSize
<1>. HIDE DEF u, groups, body, n, k, z
<1>10. u.last + (5 + Len(body)) <= Size
  BY <1>2, <1>6, <1>7, <1>8, <1>9
<1>11. /\ [type |-> E, body |-> body] \in Message
       /\ Adds(u, v, <<[type |-> E, body |-> body]>>) /\ v.last = u.last + (5 + Len(body))
  BY <1>2, <1>3, <1>4, <1>5, <1>10, MessageFits
<1>. HIDE DEF v
<1>12. v \in Writers /\ ~v.full /\ v.written = v.last
  BY <1>11 DEF Adds
<1>13. sync => v.last + 6 <= Size
  BY <1>2, <1>6, <1>7, <1>8, <1>9, <1>11
<1>14. Adds(v, WriteSync(v, sync), Optional(sync, Z, <<I>>))
  BY <1>12, <1>13, SyncAdds
<1>15. Adds(u, WriteSync(v, sync), <<[type |-> E, body |-> body]>> \o Optional(sync, Z, <<I>>))
  BY <1>2, <1>11, <1>14, AddsOn
<1>. QED  BY <1>1, <1>11, <1>15 DEF u, body, ErrorMessage

\* The attempt of an extended query, which no message follows
LEMMA ErrorTried ==
  ASSUME NEW data \in Buffers, NEW msg \in Seq(Byte), NEW pos \in Seq(Byte)
  PROVE  /\ TryException(data, msg, pos, FALSE) \in Writers
         /\ ~TryException(data, msg, pos, FALSE).full =>
              /\ ErrorMessage(msg, pos) \in Message
              /\ Adds(On(data, NewWriter), TryException(data, msg, pos, FALSE), <<ErrorMessage(msg, pos)>>)
         /\ TryException(data, msg, pos, FALSE).full => ErrorSize(Len(msg), pos) > Size
<1>. DEFINE u == On(data, NewWriter)
            groups == ErrorGroups(msg, pos)
            v == WriteMessage(u, E, groups)
            no == FALSE
            n == Len(msg)
            k == PositionSize(pos)
<1>1. TryException(data, msg, pos, no) = v
  BY DEF TryException, ErrorGroups, PositionFields, WriteSync
<1>2. u \in Writers /\ u.written = u.last /\ u.last = 0
  BY NewWriterType
<1>3. groups \in Seq(Seq(Field)) /\ \A i \in 1..Len(groups) : Copied(groups[i])
  BY ErrorGroupsType
<1>4. E \in Byte
  BY SMT DEF E, Byte
<1>5. \A b \in Seq(Byte) : GroupsHold(groups, b) => b = ErrorBody(msg, pos)
  BY ErrorRead
<1>6. n \in Nat /\ k \in Nat /\ Size \in Nat
  BY PositionLength, SizeType
<1>. HIDE DEF u, groups
<1>7. PICK b \in Seq(Byte) :
        /\ GroupsHold(groups, b) /\ Wrote(u, v, E, b)
        /\ (\A i \in 1..Len(groups) : Copied(groups[i])) /\ u.last + (5 + Len(b)) <= Size => ~v.full
  BY <1>2, <1>3, <1>4, MessageWritten
<1>. HIDE DEF v
<1>8. b = ErrorBody(msg, pos)
  BY <1>5, <1>7
<1>9. v \in Writers
  BY <1>7 DEF Wrote
<1>10. ~v.full => /\ ErrorMessage(msg, pos) \in Message /\ Adds(u, v, <<ErrorMessage(msg, pos)>>)
  <2>. SUFFICES ASSUME ~v.full
                PROVE  ErrorMessage(msg, pos) \in Message /\ Adds(u, v, <<ErrorMessage(msg, pos)>>)
    OBVIOUS
  <2>1. Adds(u, v, <<[type |-> E, body |-> b]>>)
    BY <1>2, <1>4, <1>7, WroteAdds
  <2>2. [type |-> E, body |-> b] \in Message
    BY <1>4 DEF Message
  <2>. QED  BY <1>8, <2>1, <2>2 DEF ErrorMessage
<1>11. v.full => ErrorSize(n, pos) > Size
  <2>1. Len(b) = (17 + n) + k
    BY <1>8, ErrorLength
  <2>2. v.full => ~(u.last + (5 + Len(b)) <= Size)
    BY <1>3, <1>7
  <2>3. ErrorSize(n, pos) = (22 + n) + k
    BY DEF ErrorSize
  <2>. HIDE DEF n, k
  <2>. QED  BY <1>2, <1>6, <2>1, <2>2, <2>3
<1>. QED  BY <1>1, <1>9, <1>10, <1>11 DEF u

\* The error response, and what follows it, with as much of its text as fits
ErrorSent(w, msg, pos, sync) ==
  /\ w \in Writers
  /\ \E n \in 0..Len(msg) :
       /\ n = Len(msg) \/ n = Size - Reserve
       /\ ErrorMessage(SubSeq(msg, 1, n), pos) \in Message
       /\ Reads(Kept(w), <<ErrorMessage(SubSeq(msg, 1, n), pos)>> \o Optional(sync, Z, <<I>>))

\* buildException writes an error response with as much of its text as fits, if
\* there is room for it at all.
LEMMA ErrorWritten ==
  ASSUME NEW data \in Buffers, NEW msg \in Seq(Byte), NEW pos \in Seq(Byte), NEW sync \in BOOLEAN,
         ErrorRoom(msg, pos, sync)
  PROVE  ErrorSent(BuildException(data, msg, pos, sync), msg, pos, sync)
<1>. DEFINE u == On(data, NewWriter)
            w == TryException(data, msg, pos, sync)
            v == BuildException(data, msg, pos, sync)
<1>1. v = IF w.full THEN TryException(w.data, SubSeq(msg, 1, Size - Reserve), pos, sync) ELSE w
  BY DEF BuildException
<1>2. u \in Writers /\ Kept(u) = <<>>
  BY NewWriterType
<1>3. Len(msg) \in Nat /\ Len(msg) \in 0..Len(msg) /\ SubSeq(msg, 1, Len(msg)) = msg
  BY WholePart
<1>. DEFINE m == ErrorMessage(msg, pos)
            rest == Optional(sync, Z, <<I>>)
<1>4. ASSUME NEW x, m \in Message, Adds(u, x, <<m>> \o rest), v = x
      PROVE  ErrorSent(v, msg, pos, sync)
  <2>. HIDE DEF v, u, w, rest
  <2>1. x \in Writers /\ Reads(Kept(x), <<m>> \o rest)
    BY <1>2, <1>4, FirstAdds
  <2>. QED  BY <1>3, <1>4, <2>1 DEF ErrorSent, rest
<1>5. CASE sync
  <2>1. ErrorSize(Len(msg), pos) + OptionalSize(sync, 6) <= Size
    BY <1>5 DEF ErrorRoom, OptionalSize
  <2>2. m \in Message /\ Adds(u, w, <<m>> \o rest)
    BY <2>1, ErrorFits
  <2>3. ~w.full
    BY <2>2 DEF Adds
  <2>4. v = w
    BY <1>1, <2>3
  <2>. HIDE DEF v, u, w, rest, m
  <2>5. ErrorSent(v, msg, pos, sync)
    BY <1>4, <2>2, <2>4
  <2>. QED  BY <2>5 DEF v
<1>6. CASE ~sync
  <2>. DEFINE t == TryException(data, msg, pos, FALSE)
  <2>1. w = t /\ rest = <<>>
    BY <1>6 DEF Optional
  <2>2. CASE ~w.full
    <3>1. m \in Message /\ Adds(u, t, <<m>>)
      BY <2>1, <2>2, ErrorTried
    <3>2. <<m>> \o rest = <<m>>
      BY <2>1
    <3>3. v = t
      BY <1>1, <2>1, <2>2
    <3>. HIDE DEF v, u, w, rest, m, t
    <3>4. ErrorSent(v, msg, pos, sync)
      BY <1>4, <3>1, <3>2, <3>3
    <3>. QED  BY <3>4 DEF v
  <2>3. CASE w.full
    <3>. DEFINE n == Size - Reserve
                s == SubSeq(msg, 1, n)
                x == On(w.data, NewWriter)
                e == ErrorMessage(s, pos)
                l == Len(msg)
                k == PositionSize(pos)
    <3>1. t \in Writers /\ ErrorSize(Len(msg), pos) > Size
      BY <2>1, <2>3, ErrorTried
    <3>2. n \in Nat /\ Size \in Nat
      BY WriterAssumption, SMT
    <3>3. k \in Nat /\ l \in Nat
      BY PositionLength
    <3>4. ErrorSize(n, pos) <= Size
      <4>1. ErrorSize(Len(msg), pos) <= Size \/ ErrorSize(Size - Reserve, pos) <= Size
        BY <1>6 DEF ErrorRoom
      <4>2. ErrorSize(Len(msg), pos) \in Nat
        <5>1. ErrorSize(Len(msg), pos) = (22 + l) + k
          BY DEF ErrorSize
        <5>. HIDE DEF l, k
        <5>. QED  BY <3>3, <5>1
      <4>3. ~(ErrorSize(Len(msg), pos) <= Size)
        BY <3>1, <3>2, <4>2
      <4>. QED  BY <4>1, <4>3
    <3>5. n \in 0..Len(msg)
      <4>1. (22 + n) + k <= Size /\ (22 + l) + k > Size
        BY <3>1, <3>4 DEF ErrorSize
      <4>. HIDE DEF l, k, n
      <4>2. n \in 0..l
        BY <3>2, <3>3, <4>1
      <4>. QED  BY <4>2 DEF l
    <3>. HIDE DEF n
    <3>6. s \in Seq(Byte) /\ Len(s) = n
      BY <3>5, HeadPart
    <3>7. w.data \in Buffers
      BY <2>1, <3>1, WriterType
    <3>. HIDE DEF s, l, k, t
    <3>8. v = TryException(w.data, s, pos, sync)
      BY <1>1, <2>3 DEF s, n
    <3>9. ErrorSize(Len(s), pos) + OptionalSize(sync, 6) <= Size
      <4>1. OptionalSize(sync, 6) = 0
        BY <1>6 DEF OptionalSize
      <4>2. ErrorSize(n, pos) = (22 + n) + k
        BY DEF ErrorSize, k
      <4>3. ErrorSize(n, pos) \in Nat
        BY <3>2, <3>3, <4>2
      <4>. QED  BY <3>2, <3>4, <3>6, <4>1, <4>3
    <3>. HIDE DEF w
    <3>10. e \in Message /\ Adds(x, TryException(w.data, s, pos, sync), <<e>> \o rest)
      BY <3>6, <3>7, <3>9, ErrorFits
    <3>. HIDE DEF v, rest
    <3>11. x \in Writers /\ Kept(x) = <<>>
      BY <3>7, NewWriterType
    <3>. HIDE DEF x
    <3>12. v \in Writers /\ Reads(Kept(v), <<e>> \o rest)
      BY <3>8, <3>10, <3>11, FirstAdds
    <3>. HIDE DEF s
    <3>13. ErrorMessage(s, pos) \in Message /\ Reads(Kept(v), <<ErrorMessage(s, pos)>> \o Optional(sync, Z, <<I>>))
      BY <3>10, <3>12 DEF e, rest
    <3>14. n = Size - Reserve /\ s = SubSeq(msg, 1, n)
      BY DEF n, s
    <3>15. ErrorSent(v, msg, pos, sync)
      BY <3>5, <3>12, <3>13, <3>14 DEF ErrorSent
    <3>. QED  BY <3>15 DEF v
  <2>. QED  BY <2>2, <2>3
<1>. QED  BY <1>5, <1>6

-----------------------------------------------------------------------------
(* The messages of an answer                                                *)

\* The description or not, and then the first rows
Framed(ms, s, d, n) ==
  /\ ms \in Seq(Message) /\ d \in {0, 1} /\ n \in 0..Len(s.rows) /\ Len(ms) = d + n
  /\ d = 1 => ms[1].type = T
  /\ \A k \in 1..n : ms[d + k].type = D /\ RowOf(ms[d + k].body) = RowTexts(s.rows[k], Len(s.rows[k]))

\* What may follow them
EndTypes == {One, Two, C, E, Z}
Ending(ts) == ts \in Seq(Message) /\ \A k \in 1..Len(ts) : ts[k].type \in EndTypes

TypesOf(ms) == [k \in 1..Len(ms) |-> ms[k].type]

\* The types of the messages are different.
LEMMA TypeCodes ==
  /\ T \notin EndTypes /\ D \notin EndTypes /\ T # D /\ T # E /\ T # C /\ D # E /\ D # C /\ E # C
  /\ \A t \in Byte : t # -1
  /\ One # E /\ Two # E /\ Z # E /\ One # C /\ Two # C /\ Z # C /\ T # Z /\ D # Z
<1>1. /\ T \notin EndTypes /\ D \notin EndTypes /\ T # D /\ T # E /\ T # C /\ D # E /\ D # C /\ E # C
  BY SMT DEF T, D, E, C, One, Two, Z, EndTypes
<1>2. \A t \in Byte : t # -1
  BY SMT DEF Byte
<1>3. One # E /\ Two # E /\ Z # E /\ One # C /\ Two # C /\ Z # C /\ T # Z /\ D # Z
  BY SMT DEF T, D, E, C, One, Two, Z
<1>. QED  BY <1>1, <1>2, <1>3

\* The types of messages are bytes, one for each.
LEMMA TypesType ==
  ASSUME NEW ms \in Seq(Message)
  PROVE  TypesOf(ms) \in Seq(Byte) /\ Len(TypesOf(ms)) = Len(ms)
<1>1. \A k \in 1..Len(ms) : ms[k].type \in Byte
  <2>1. \A m \in Message : m.type \in Byte
    BY DEF Message
  <2>. QED  BY <2>1
<1>2. Len(ms) \in Nat
  OBVIOUS
<1>. QED  BY <1>1, <1>2 DEF TypesOf

\* The types of messages behind messages
LEMMA TypesJoined ==
  ASSUME NEW a \in Seq(Message), NEW b \in Seq(Message)
  PROVE  TypesOf(a \o b) = TypesOf(a) \o TypesOf(b)
<1>. DEFINE x == TypesOf(a)
            y == TypesOf(b)
            z == TypesOf(a \o b)
            ab == a \o b
            m == Len(a)
            n == Len(b)
<1>1. ab \in Seq(Message) /\ Len(ab) = m + n
  BY Joined
<1>2. \A i \in 1..m : ab[i] = a[i]
  BY Joined
<1>3. \A i \in 1..n : ab[m + i] = b[i]
  BY JoinedEnd
<1>4. m \in Nat /\ n \in Nat
  OBVIOUS
<1>5. x \in Seq(Byte) /\ Len(x) = m /\ y \in Seq(Byte) /\ Len(y) = n
  BY TypesType
<1>6. z \in Seq(Byte) /\ Len(z) = m + n
  BY <1>1, TypesType
<1>7. (\A i \in 1..m : x[i] = a[i].type) /\ (\A i \in 1..n : y[i] = b[i].type)
  BY DEF TypesOf
<1>8. \A i \in 1..(m + n) : z[i] = ab[i].type
  BY <1>1 DEF TypesOf
<1>. HIDE DEF x, y, z, ab, m, n
<1>9. x \o y \in Seq(Byte) /\ Len(x \o y) = m + n /\ \A i \in 1..m : (x \o y)[i] = x[i]
  BY <1>5, Joined
<1>10. \A i \in 1..n : (x \o y)[m + i] = y[i]
  BY <1>5, JoinedEnd
<1>. DEFINE xy == x \o y
<1>. HIDE DEF xy
<1>11. ASSUME NEW i \in 1..(m + n) PROVE z[i] = xy[i]
  <2>1. CASE i \in 1..m
    BY <1>2, <1>7, <1>8, <1>9, <2>1 DEF xy
  <2>2. CASE i \notin 1..m
    <3>. DEFINE j == i - m
    <3>1. j \in 1..n /\ i = m + j
      BY <1>4, <2>2
    <3>. HIDE DEF j
    <3>2. z[m + j] = b[j].type
      BY <1>3, <1>8, <3>1
    <3>3. xy[m + j] = b[j].type
      BY <1>7, <1>10, <3>1 DEF xy
    <3>. QED  BY <3>1, <3>2, <3>3
  <2>. QED  BY <2>1, <2>2
<1>12. xy \in Seq(Byte) /\ Len(xy) = Len(z) /\ \A i \in 1..Len(z) : z[i] = xy[i]
  BY <1>6, <1>9, <1>11 DEF xy
<1>13. z = xy
  BY <1>6, <1>12, SameElements
<1>. QED  BY <1>13 DEF xy, x, y, z, ab

\* The messages of an answer by their place: description, rows, end
LEMMA Joints ==
  ASSUME NEW s, NEW d, NEW n, NEW ms, Framed(ms, s, d, n), NEW ts, Ending(ts)
  PROVE  /\ ms \o ts \in Seq(Message) /\ Len(ms \o ts) = (d + n) + Len(ts) /\ Len(ts) \in Nat /\ n \in Nat /\ d \in {0, 1}
         /\ d = 1 => (ms \o ts)[1].type = T
         /\ \A k \in 1..n : (ms \o ts)[d + k].type = D /\ (ms \o ts)[d + k] = ms[d + k]
         /\ \A k \in 1..Len(ts) : (ms \o ts)[(d + n) + k] = ts[k] /\ ts[k].type \in EndTypes
<1>. DEFINE all == ms \o ts
            l == Len(ts)
            N == Len(s.rows)
<1>1. ms \in Seq(Message) /\ ts \in Seq(Message) /\ d \in {0, 1} /\ Len(ms) = d + n /\ n \in 0..N
  BY DEF Framed, Ending
<1>2. n \in Nat
  BY <1>1
<1>3. all \in Seq(Message) /\ Len(all) = Len(ms) + l /\ \A i \in 1..Len(ms) : all[i] = ms[i]
  BY <1>1, Joined
<1>4. \A k \in 1..l : all[Len(ms) + k] = ts[k]
  BY <1>1, JoinedEnd
<1>5. l \in Nat
  BY <1>1
<1>6. (d = 1 => ms[1].type = T) /\ \A k \in 1..n : ms[d + k].type = D
  BY DEF Framed
<1>7. \A k \in 1..l : ts[k].type \in EndTypes
  BY DEF Ending
<1>. HIDE DEF all, l, N
<1>8. (d = 1 => 1 \in 1..(d + n)) /\ \A k \in 1..n : d + k \in 1..(d + n)
  BY <1>1, <1>2
<1>9. \A i \in 1..(d + n) : all[i] = ms[i]
  BY <1>1, <1>3
<1>10. d = 1 => all[1].type = T
  BY <1>6, <1>8, <1>9
<1>11. \A k \in 1..n : all[d + k].type = D /\ all[d + k] = ms[d + k]
  BY <1>6, <1>8, <1>9
<1>12. \A k \in 1..l : all[(d + n) + k] = ts[k]
  BY <1>1, <1>4
<1>. QED  BY <1>1, <1>2, <1>3, <1>5, <1>7, <1>10, <1>11, <1>12 DEF all, l

\* Where the messages of a type are
LEMMA PlacesRight ==
  ASSUME NEW s, NEW d, NEW n, NEW ms, Framed(ms, s, d, n), NEW ts, Ending(ts)
  PROVE  /\ Places(ms \o ts, T) = (IF d = 1 THEN {1} ELSE {})
         /\ Places(ms \o ts, D) = (d + 1)..(d + n)
         /\ ~Has(ms \o ts, -1)
         /\ \A t \in {C, E} : Has(ms \o ts, t) <=> \E k \in 1..Len(ts) : ts[k].type = t
<1>. DEFINE all == ms \o ts
            l == Len(ts)
<1>1. /\ all \in Seq(Message) /\ Len(all) = (d + n) + l /\ l \in Nat /\ n \in Nat /\ d \in {0, 1}
      /\ d = 1 => all[1].type = T
      /\ \A k \in 1..n : all[d + k].type = D
      /\ \A k \in 1..l : all[(d + n) + k] = ts[k] /\ ts[k].type \in EndTypes
  BY Joints
<1>. HIDE DEF all, l
<1>2. \A i \in 1..Len(all) : all[i].type \in Byte
  <2>1. \A m \in Message : m.type \in Byte
    BY DEF Message
  <2>. QED  BY <1>1, <2>1
<1>3. Places(all, -1) = {}
  BY <1>2, TypeCodes DEF Places
<1>4. \A i \in 1..Len(all) : \/ d = 1 /\ i = 1 /\ all[i].type = T
                             \/ i \in (d + 1)..(d + n) /\ all[i].type = D
                             \/ /\ i \notin (d + 1)..(d + n) /\ (d = 1 => i # 1)
                                /\ i - (d + n) \in 1..l /\ all[i].type \in EndTypes
                                /\ all[i].type = ts[i - (d + n)].type
  <2>. SUFFICES ASSUME NEW i \in 1..Len(all)
                PROVE  \/ d = 1 /\ i = 1 /\ all[i].type = T
                       \/ i \in (d + 1)..(d + n) /\ all[i].type = D
                       \/ /\ i \notin (d + 1)..(d + n) /\ (d = 1 => i # 1)
                          /\ i - (d + n) \in 1..l /\ all[i].type \in EndTypes
                          /\ all[i].type = ts[i - (d + n)].type
    OBVIOUS
  <2>1. CASE d = 1 /\ i = 1
    BY <1>1, <2>1
  <2>2. CASE i \in (d + 1)..(d + n)
    <3>. DEFINE k == i - d
    <3>1. k \in 1..n /\ i = d + k
      BY <1>1, <2>2
    <3>. HIDE DEF k
    <3>2. all[i].type = D
      BY <1>1, <3>1
    <3>. QED  BY <2>2, <3>2
  <2>3. CASE ~(d = 1 /\ i = 1) /\ i \notin (d + 1)..(d + n)
    <3>. DEFINE k == i - (d + n)
    <3>1. k \in 1..l /\ i = (d + n) + k
      BY <1>1, <2>3
    <3>. HIDE DEF k
    <3>2. all[(d + n) + k] = ts[k] /\ ts[k].type \in EndTypes
      BY <1>1, <3>1
    <3>3. k \in 1..l /\ all[i].type \in EndTypes /\ all[i].type = ts[k].type
      BY <3>1, <3>2
    <3>. QED  BY <2>3, <3>3 DEF k
  <2>. QED  BY <2>1, <2>2, <2>3
<1>5. T \notin EndTypes /\ D \notin EndTypes /\ T # D /\ T # E /\ T # C /\ D # E /\ D # C
  BY TypeCodes
<1>6. (d = 1 => 1 \in 1..Len(all)) /\ (d + 1)..(d + n) \subseteq 1..Len(all)
  BY <1>1
<1>7. Places(all, D) = (d + 1)..(d + n)
  <2>1. DOMAIN all = 1..Len(all)
    BY <1>1
  <2>2. \A i \in 1..Len(all) : all[i].type = D <=> i \in (d + 1)..(d + n)
    <3>1. \A i \in 1..Len(all) : d = 1 /\ i = 1 => i \notin (d + 1)..(d + n)
      BY <1>1
    <3>. QED  BY <1>4, <1>5, <3>1, Zenon
  <2>. QED  BY <1>6, <2>1, <2>2 DEF Places
<1>8. Places(all, T) = IF d = 1 THEN {1} ELSE {}
  <2>1. DOMAIN all = 1..Len(all)
    BY <1>1
  <2>2. \A i \in 1..Len(all) : all[i].type = T <=> d = 1 /\ i = 1
    <3>1. d = 1 => all[1].type = T
      BY <1>1
    <3>. QED  BY <1>4, <1>5, <3>1, Zenon
  <2>. QED  BY <1>6, <2>1, <2>2 DEF Places
<1>9. ASSUME NEW t \in {C, E}
      PROVE  Has(all, t) <=> \E k \in 1..l : ts[k].type = t
  <2>1. DOMAIN all = 1..Len(all)
    BY <1>1
  <2>2. ASSUME NEW i \in 1..Len(all), all[i].type = t PROVE \E k \in 1..l : ts[k].type = t
    BY <1>4, <1>5, <2>2
  <2>3. ASSUME NEW k \in 1..l, ts[k].type = t PROVE \E i \in 1..Len(all) : all[i].type = t
    <3>1. (d + n) + k \in 1..Len(all)
      BY <1>1
    <3>2. all[(d + n) + k].type = t
      BY <1>1, <2>3
    <3>. QED  BY <3>1, <3>2
  <2>. QED  BY <2>1, <2>2, <2>3 DEF Has, Places
<1>. QED  BY <1>3, <1>7, <1>8, <1>9 DEF all, l, Has

\* The k-th row of an answer
LEMMA NthRow ==
  ASSUME NEW d \in {0, 1}, NEW n \in Nat, NEW k \in 1..n
  PROVE  Nth((d + 1)..(d + n), k) = d + k
<1>. DEFINE places == (d + 1)..(d + n)
<1>1. ASSUME NEW p \in places PROVE Cardinality({q \in places : q <= p}) = p - d
  <2>1. {q \in places : q <= p} = (d + 1)..p
    OBVIOUS
  <2>2. d + 1 \in Int /\ p \in Int /\ ~(d + 1 > p) /\ p - (d + 1) + 1 = p - d
    OBVIOUS
  <2>3. Cardinality((d + 1)..p) = p - (d + 1) + 1
    BY <2>2, FS_Interval
  <2>. QED  BY <2>1, <2>2, <2>3
<1>2. d + k \in places /\ (d + k) - d = k
  OBVIOUS
<1>3. \A p \in places : p - d = k => p = d + k
  OBVIOUS
<1>. HIDE DEF places
<1>4. Nth(places, k) = CHOOSE p \in places : Cardinality({q \in places : q <= p}) = k
  BY DEF Nth
<1>. DEFINE Here(p) == Cardinality({q \in places : q <= p}) = k
<1>5. Here(d + k) /\ \A p \in places : Here(p) => p = d + k
  BY <1>1, <1>2, <1>3
<1>6. Nth(places, k) = CHOOSE p \in places : Here(p)
  BY <1>4
<1>. HIDE DEF Here
<1>7. Nth(places, k) = d + k
  BY <1>2, <1>5, <1>6
<1>. QED  BY <1>7 DEF places

\* The rows that the client has
RowsOf(s, n) == [k \in 1..n |-> RowTexts(s.rows[k], Len(s.rows[k]))]

\* The client finds the rows that were written.
LEMMA DeliveredRight ==
  ASSUME NEW s, NEW d, NEW n, NEW ms, Framed(ms, s, d, n), NEW ts, Ending(ts)
  PROVE  Delivered(ms \o ts) = RowsOf(s, n)
<1>. DEFINE all == ms \o ts
            places == (d + 1)..(d + n)
            Rows(p) == [k \in 1..Cardinality(p) |-> RowOf(all[Nth(p, k)].body)]
            Some == {Rows(p) : p \in {places}}
<1>1. Places(all, D) = places /\ ~Has(all, -1)
  BY PlacesRight
<1>2. d \in {0, 1} /\ n \in Nat /\ \A k \in 1..n : all[d + k] = ms[d + k]
  BY Joints
<1>3. \A k \in 1..n : RowOf(ms[d + k].body) = RowTexts(s.rows[k], Len(s.rows[k]))
  BY DEF Framed
<1>. HIDE DEF all
<1>4. Cardinality(places) = n
  <2>1. d + 1 \in Int /\ d + n \in Int /\ (d + 1 > d + n <=> n = 0) /\ d + n - (d + 1) + 1 = n
    BY <1>2
  <2>. QED  BY <1>2, <2>1, FS_Interval
<1>5. \A k \in 1..n : Nth(places, k) = d + k
  BY <1>2, NthRow
<1>. HIDE DEF places
<1>6. Rows(places) = RowsOf(s, n)
  BY <1>2, <1>3, <1>4, <1>5 DEF RowsOf
<1>7. Rows(places) \in Some /\ \A x \in Some : x = Rows(places)
  OBVIOUS
<1>8. Delivered(all) = CHOOSE x \in Some : TRUE
  BY <1>1 DEF Delivered, Then
<1>. HIDE DEF Some, Rows
<1>9. Delivered(all) = Rows(places)
  BY <1>7, <1>8, OneChosen, Zenon
<1>. QED  BY <1>6, <1>9 DEF all

-----------------------------------------------------------------------------
(* The ends of an answer                                                    *)

Every(ts, X) == ts \in Seq(Message) /\ \A k \in 1..Len(ts) : ts[k].type \in X
HasType(ts, t) == \E k \in 1..Len(ts) : ts[k].type = t

\* Messages of some types behind others of these types
LEMMA EveryJoined ==
  ASSUME NEW a, NEW b, NEW X, Every(a, X), Every(b, X)
  PROVE  Every(a \o b, X)
<1>. DEFINE ab == a \o b
            m == Len(a)
            n == Len(b)
<1>1. /\ a \in Seq(Message) /\ b \in Seq(Message)
      /\ (\A k \in 1..m : a[k].type \in X) /\ \A k \in 1..n : b[k].type \in X
  BY DEF Every
<1>2. ab \in Seq(Message) /\ Len(ab) = m + n /\ \A i \in 1..m : ab[i] = a[i]
  BY <1>1, Joined
<1>3. \A i \in 1..n : ab[m + i] = b[i]
  BY <1>1, JoinedEnd
<1>4. m \in Nat /\ n \in Nat
  BY <1>1
<1>. HIDE DEF ab, m, n
<1>5. ASSUME NEW i \in 1..Len(ab) PROVE ab[i].type \in X
  <2>1. CASE i \in 1..m
    BY <1>1, <1>2, <2>1
  <2>2. CASE i \notin 1..m
    <3>. DEFINE j == i - m
    <3>1. j \in 1..n /\ i = m + j
      BY <1>2, <1>4, <2>2
    <3>. HIDE DEF j
    <3>2. ab[m + j] = b[j] /\ b[j].type \in X
      BY <1>1, <1>3, <3>1
    <3>. QED  BY <3>1, <3>2
  <2>. QED  BY <2>1, <2>2
<1>. QED  BY <1>2, <1>5 DEF Every, ab

\* A message of a type is among the messages if it is in one of their parts.
LEMMA HasTypeJoined ==
  ASSUME NEW a \in Seq(Message), NEW b \in Seq(Message), NEW t, HasType(a, t) \/ HasType(b, t)
  PROVE  HasType(a \o b, t)
<1>. DEFINE ab == a \o b
            m == Len(a)
            n == Len(b)
<1>1. Len(ab) = m + n /\ \A i \in 1..m : ab[i] = a[i]
  BY Joined
<1>2. \A i \in 1..n : ab[m + i] = b[i]
  BY JoinedEnd
<1>3. m \in Nat /\ n \in Nat
  OBVIOUS
<1>4. (\E k \in 1..m : a[k].type = t) \/ (\E k \in 1..n : b[k].type = t)
  BY DEF HasType
<1>. HIDE DEF ab, m, n
<1>5. (\A k \in 1..m : k \in 1..Len(ab)) /\ \A k \in 1..n : m + k \in 1..Len(ab)
  BY <1>1, <1>3
<1>6. CASE \E k \in 1..m : a[k].type = t
  BY <1>1, <1>5, <1>6 DEF HasType, ab
<1>7. CASE \E k \in 1..n : b[k].type = t
  BY <1>2, <1>5, <1>7 DEF HasType, ab
<1>. QED  BY <1>4, <1>6, <1>7

\* A message alone, and one that may be there
LEMMA SingleMessage ==
  ASSUME NEW m \in Message
  PROVE  <<m>> \in Seq(Message) /\ Every(<<m>>, {m.type}) /\ HasType(<<m>>, m.type) /\ TypesOf(<<m>>) = <<m.type>>
<1>. DEFINE s == <<m>>
<1>1. s \in Seq(Message) /\ Len(s) = 1 /\ s[1] = m
  OBVIOUS
<1>2. 1 \in 1..1 /\ \A k \in 1..1 : k = 1
  OBVIOUS
<1>. HIDE DEF s
<1>3. Every(s, {m.type}) /\ HasType(s, m.type)
  BY <1>1, <1>2 DEF Every, HasType
<1>4. TypesOf(s) = [k \in 1..1 |-> m.type]
  BY <1>1, <1>2 DEF TypesOf
<1>5. [k \in 1..1 |-> m.type] = <<m.type>>
  OBVIOUS
<1>. QED  BY <1>1, <1>3, <1>4, <1>5 DEF s

\* No messages have no types.
LEMMA NoMessage ==
  /\ <<>> \in Seq(Message) /\ TypesOf(<<>>) = <<>>
  /\ \A X : Every(<<>>, X)
  /\ \A t : ~HasType(<<>>, t)
<1>1. <<>> \in Seq(Message) /\ Len(<<>>) = 0 /\ 1..0 = {}
  OBVIOUS
<1>2. TypesOf(<<>>) = <<>>
  BY <1>1 DEF TypesOf
<1>. QED  BY <1>1, <1>2 DEF Every, HasType

\* A message that may be there
LEMMA OptionalMessage ==
  ASSUME NEW on \in BOOLEAN, NEW type \in Byte, NEW body \in Seq(Byte)
  PROVE  /\ Optional(on, type, body) \in Seq(Message) /\ Every(Optional(on, type, body), {type})
         /\ TypesOf(Optional(on, type, body)) = If(on, type)
<1>. DEFINE m == [type |-> type, body |-> body]
            o == Optional(on, type, body)
<1>1. m \in Message /\ m.type = type
  BY DEF Message
<1>2. CASE on
  <2>1. o = <<m>> /\ If(on, type) = <<type>>
    BY <1>2 DEF Optional, If
  <2>. HIDE DEF o, m
  <2>2. o \in Seq(Message) /\ Every(o, {type}) /\ TypesOf(o) = If(on, type)
    BY <1>1, <2>1, SingleMessage
  <2>. QED  BY <2>2 DEF o
<1>3. CASE ~on
  <2>1. o = <<>> /\ If(on, type) = <<>>
    BY <1>3 DEF Optional, If
  <2>. HIDE DEF o, m
  <2>2. o \in Seq(Message) /\ Every(o, {type}) /\ TypesOf(o) = If(on, type)
    BY <2>1, NoMessage
  <2>. QED  BY <2>2 DEF o
<1>. QED  BY <1>2, <1>3

\* Messages of some types are of these types and others.
LEMMA EveryMore ==
  ASSUME NEW a, NEW X, NEW Y, X \subseteq Y, Every(a, X)
  PROVE  Every(a, Y)
BY DEF Every

\* The characters of the message types are bytes.
LEMMA Codes ==
  /\ One \in Byte /\ Two \in Byte /\ C \in Byte /\ D \in Byte /\ E \in Byte /\ T \in Byte /\ Z \in Byte
  /\ <<I>> \in Seq(Byte) /\ <<>> \in Seq(Byte)
<1>1. One \in Byte /\ Two \in Byte /\ C \in Byte /\ D \in Byte /\ E \in Byte /\ T \in Byte /\ Z \in Byte /\ I \in Byte
  BY SMT DEF One, Two, C, D, E, T, Z, I, Byte
<1>. QED  BY <1>1

\* What ends an execution has a CommandComplete and no error.
LEMMA DoneEnding ==
  ASSUME NEW s, s.parsed \in BOOLEAN, s.bound \in BOOLEAN, s.sync \in BOOLEAN, s.info \in Seq(Byte)
  PROVE  /\ DoneMessages(s) \in Seq(Message) /\ Ending(DoneMessages(s))
         /\ HasType(DoneMessages(s), C) /\ ~HasType(DoneMessages(s), E)
         /\ TypesOf(DoneMessages(s)) = ((If(s.parsed, One) \o If(s.bound, Two)) \o <<C>>) \o If(s.sync, Z)
<1>. DEFINE p == Optional(s.parsed, One, <<>>)
            b == Optional(s.bound, Two, <<>>)
            m == [type |-> C, body |-> s.info \o <<0>>]
            z == Optional(s.sync, Z, <<I>>)
            X == {One, Two, C, Z}
            pb == p \o b
            pbm == pb \o <<m>>
            all == pbm \o z
<1>1. DoneMessages(s) = all
  BY DEF DoneMessages
<1>2. p \in Seq(Message) /\ Every(p, {One}) /\ TypesOf(p) = If(s.parsed, One)
  BY Codes, OptionalMessage
<1>3. b \in Seq(Message) /\ Every(b, {Two}) /\ TypesOf(b) = If(s.bound, Two)
  BY Codes, OptionalMessage
<1>4. z \in Seq(Message) /\ Every(z, {Z}) /\ TypesOf(z) = If(s.sync, Z)
  BY Codes, OptionalMessage
<1>5. m \in Message /\ m.type = C
  <2>1. <<0>> \in Seq(Byte)
    BY ConstantBytes
  <2>2. s.info \o <<0>> \in Seq(Byte)
    BY <2>1, Joined
  <2>. QED  BY <2>2, Codes DEF Message
<1>. HIDE DEF p, b, z, m
<1>6. <<m>> \in Seq(Message) /\ Every(<<m>>, {C}) /\ HasType(<<m>>, C) /\ TypesOf(<<m>>) = <<C>>
  BY <1>5, SingleMessage
<1>. DEFINE c == <<m>>
<1>. HIDE DEF c
<1>7. Every(p, X) /\ Every(b, X) /\ Every(c, X) /\ Every(z, X)
  <2>1. {One} \subseteq X /\ {Two} \subseteq X /\ {C} \subseteq X /\ {Z} \subseteq X
    OBVIOUS
  <2>. HIDE DEF X
  <2>. QED  BY <1>2, <1>3, <1>4, <1>6, <2>1, EveryMore DEF c
<1>8. pb \in Seq(Message) /\ Every(pb, X)
  <2>. HIDE DEF X
  <2>1. Every(pb, X)
    BY <1>7, EveryJoined
  <2>. QED  BY <2>1 DEF Every
<1>9. TypesOf(pb) = If(s.parsed, One) \o If(s.bound, Two)
  BY <1>2, <1>3, TypesJoined
<1>. HIDE DEF pb
<1>10. pbm \in Seq(Message) /\ Every(pbm, X) /\ HasType(pbm, C)
  <2>. HIDE DEF X
  <2>1. Every(pb \o c, X)
    BY <1>7, <1>8, EveryJoined
  <2>2. HasType(pb \o c, C)
    BY <1>6, <1>8, HasTypeJoined DEF c
  <2>. QED  BY <2>1, <2>2 DEF Every, c
<1>11. TypesOf(pbm) = (If(s.parsed, One) \o If(s.bound, Two)) \o <<C>>
  BY <1>6, <1>8, <1>9, TypesJoined
<1>. HIDE DEF pbm
<1>12. all \in Seq(Message) /\ Every(all, X) /\ HasType(all, C)
  <2>. HIDE DEF X
  <2>1. Every(all, X)
    BY <1>7, <1>10, EveryJoined
  <2>2. HasType(all, C)
    BY <1>4, <1>10, HasTypeJoined
  <2>. QED  BY <2>1, <2>2 DEF Every
<1>13. TypesOf(all) = ((If(s.parsed, One) \o If(s.bound, Two)) \o <<C>>) \o If(s.sync, Z)
  BY <1>4, <1>10, <1>11, TypesJoined
<1>. HIDE DEF all
<1>14. Ending(all)
  BY <1>12 DEF Every, Ending, EndTypes
<1>15. ~HasType(all, E)
  BY <1>12, TypeCodes DEF Every, HasType
<1>. QED  BY <1>1, <1>12, <1>13, <1>14, <1>15

\* What an exception writes has one error, its first message, and no
\* CommandComplete.
LEMMA ErrorEnding ==
  ASSUME NEW m \in Message, m.type = E, NEW sync \in BOOLEAN
  PROVE  /\ <<m>> \o Optional(sync, Z, <<I>>) \in Seq(Message) /\ Ending(<<m>> \o Optional(sync, Z, <<I>>))
         /\ HasType(<<m>> \o Optional(sync, Z, <<I>>), E) /\ ~HasType(<<m>> \o Optional(sync, Z, <<I>>), C)
         /\ TypesOf(<<m>> \o Optional(sync, Z, <<I>>)) = <<E>> \o If(sync, Z)
         /\ \A k \in 1..Len(<<m>> \o Optional(sync, Z, <<I>>)) :
              (<<m>> \o Optional(sync, Z, <<I>>))[k].type = E => (<<m>> \o Optional(sync, Z, <<I>>))[k] = m
<1>. DEFINE z == Optional(sync, Z, <<I>>)
            X == {E, Z}
            c == <<m>>
            all == c \o z
<1>1. z \in Seq(Message) /\ Every(z, {Z}) /\ TypesOf(z) = If(sync, Z)
  BY Codes, OptionalMessage
<1>2. c \in Seq(Message) /\ Every(c, {E}) /\ HasType(c, E) /\ TypesOf(c) = <<E>>
  BY SingleMessage
<1>3. Len(c) = 1 /\ c[1] = m
  OBVIOUS
<1>. HIDE DEF z, c
<1>4. Every(c, X) /\ Every(z, X)
  <2>1. {E} \subseteq X /\ {Z} \subseteq X
    OBVIOUS
  <2>. HIDE DEF X
  <2>. QED  BY <1>1, <1>2, <2>1, EveryMore
<1>5. all \in Seq(Message) /\ Every(all, X) /\ HasType(all, E)
  <2>. HIDE DEF X
  <2>1. Every(all, X)
    BY <1>4, EveryJoined
  <2>2. HasType(all, E)
    BY <1>1, <1>2, HasTypeJoined
  <2>. QED  BY <2>1, <2>2 DEF Every
<1>6. TypesOf(all) = <<E>> \o If(sync, Z)
  BY <1>1, <1>2, TypesJoined
<1>7. Len(all) = 1 + Len(z) /\ all[1] = m /\ Len(z) \in Nat
  <2>1. Len(all) = Len(c) + Len(z) /\ \A i \in 1..Len(c) : all[i] = c[i]
    BY <1>1, <1>2, Joined
  <2>2. 1 \in 1..Len(c) /\ Len(z) \in Nat
    BY <1>1, <1>3
  <2>. HIDE DEF all
  <2>. QED  BY <1>3, <2>1, <2>2
<1>8. \A i \in 1..Len(z) : all[1 + i] = z[i] /\ z[i].type = Z
  <2>1. \A i \in 1..Len(z) : all[Len(c) + i] = z[i]
    BY <1>1, <1>2, JoinedEnd
  <2>2. \A i \in 1..Len(z) : z[i].type = Z
    BY <1>1 DEF Every
  <2>. HIDE DEF all
  <2>. QED  BY <1>3, <2>1, <2>2
<1>. HIDE DEF all
<1>9. ASSUME NEW k \in 1..Len(all), all[k].type = E PROVE all[k] = m
  <2>1. CASE k = 1
    BY <1>7, <2>1
  <2>2. CASE k # 1
    <3>. DEFINE j == k - 1
    <3>1. j \in 1..Len(z) /\ k = 1 + j
      BY <1>7, <2>2
    <3>. HIDE DEF j
    <3>2. all[k].type = Z
      BY <1>8, <3>1
    <3>. QED  BY <1>9, <3>2, TypeCodes
  <2>. QED  BY <2>1, <2>2
<1>10. Ending(all)
  BY <1>5 DEF Every, Ending, EndTypes
<1>11. ~HasType(all, C)
  BY <1>5, TypeCodes DEF Every, HasType
<1>. QED  BY <1>5, <1>6, <1>9, <1>10, <1>11 DEF all, c, z

HeadOf(d, n) == If(d = 1, T) \o [k \in 1..n |-> D]

\* The types of what comes before the end: the description and one for each row
LEMMA HeadTypes ==
  ASSUME NEW s, NEW d, NEW n, NEW ms, Framed(ms, s, d, n)
  PROVE  TypesOf(ms) = HeadOf(d, n)
<1>. DEFINE a == If(d = 1, T)
            b == [k \in 1..n |-> D]
            x == TypesOf(ms)
            ab == a \o b
            N == Len(s.rows)
<1>1. /\ ms \in Seq(Message) /\ d \in {0, 1} /\ Len(ms) = d + n /\ n \in 0..N
      /\ (d = 1 => ms[1].type = T) /\ \A k \in 1..n : ms[d + k].type = D
  BY DEF Framed
<1>2. n \in Nat
  BY <1>1
<1>3. a \in Seq(Byte) /\ Len(a) = d /\ (d = 1 => a[1] = T)
  <2>1. CASE d = 1
    <3>1. a = <<T>>
      BY <2>1 DEF If
    <3>. HIDE DEF a
    <3>. QED  BY <2>1, <3>1, Codes
  <2>2. CASE d = 0
    <3>1. a = <<>>
      BY <2>2 DEF If
    <3>. HIDE DEF a
    <3>. QED  BY <2>2, <3>1
  <2>. QED  BY <1>1, <2>1, <2>2
<1>4. b \in Seq(Byte) /\ Len(b) = n /\ \A k \in 1..n : b[k] = D
  BY <1>2, Codes
<1>5. x \in Seq(Byte) /\ Len(x) = d + n /\ \A i \in 1..(d + n) : x[i] = ms[i].type
  <2>1. x \in Seq(Byte) /\ Len(x) = Len(ms)
    BY <1>1, TypesType
  <2>2. \A i \in 1..Len(ms) : x[i] = ms[i].type
    BY DEF TypesOf
  <2>. HIDE DEF x
  <2>. QED  BY <1>1, <2>1, <2>2
<1>. HIDE DEF a, b, x, N
<1>6. ab \in Seq(Byte) /\ Len(ab) = d + n /\ \A i \in 1..d : ab[i] = a[i]
  <2>1. a \o b \in Seq(Byte) /\ Len(a \o b) = Len(a) + Len(b) /\ \A i \in 1..Len(a) : (a \o b)[i] = a[i]
    BY <1>3, <1>4, Joined
  <2>. QED  BY <1>3, <1>4, <2>1
<1>7. \A k \in 1..n : ab[d + k] = D
  <2>1. \A k \in 1..Len(b) : (a \o b)[Len(a) + k] = b[k]
    BY <1>3, <1>4, JoinedEnd
  <2>. QED  BY <1>3, <1>4, <2>1
<1>. HIDE DEF ab
<1>8. ASSUME NEW i \in 1..(d + n) PROVE x[i] = ab[i]
  <2>1. CASE d = 1 /\ i = 1
    BY <1>1, <1>3, <1>5, <1>6, <2>1
  <2>2. CASE ~(d = 1 /\ i = 1)
    <3>. DEFINE k == i - d
    <3>1. k \in 1..n /\ i = d + k
      BY <1>1, <1>2, <2>2
    <3>. HIDE DEF k
    <3>2. x[i] = D
      BY <1>1, <1>5, <3>1
    <3>3. ab[i] = D
      BY <1>7, <3>1
    <3>. QED  BY <3>2, <3>3
  <2>. QED  BY <2>1, <2>2
<1>9. Len(x) = Len(ab) /\ \A i \in 1..Len(x) : x[i] = ab[i]
  BY <1>5, <1>6, <1>8
<1>10. x = ab
  BY <1>5, <1>6, <1>9, SameElements
<1>. QED  BY <1>10 DEF x, ab, a, b, HeadOf

\* What the client concludes from the messages
LEMMA StatusRight ==
  ASSUME NEW s, NEW d, NEW n, NEW ms, Framed(ms, s, d, n), NEW ts, Ending(ts)
  PROVE  /\ HasType(ts, E) => StatusOf(ms \o ts) = "failed"
         /\ ~HasType(ts, E) /\ HasType(ts, C) => StatusOf(ms \o ts) = "complete"
         /\ ~HasType(ts, E) /\ ~HasType(ts, C) => StatusOf(ms \o ts) = "rows"
<1>1. \A t \in {C, E} : Has(ms \o ts, t) <=> HasType(ts, t)
  BY PlacesRight DEF HasType
<1>. QED  BY <1>1 DEF StatusOf

\* The wire holds the description or not, and the first n rows.
Sent(w, s, d, n) == \E ms : Reads(w, ms) /\ Framed(ms, s, d, n)

\* Behind them it holds an end.
Ended(w, s, d, n, ts) == \E ms : Framed(ms, s, d, n) /\ Reads(w, ms \o ts) /\ Ending(ts)

Rows(w)   == Then(Messages(w), Delivered)
Status(w) == Then(Messages(w), StatusOf)

\* What the client makes of the messages that it reads
LEMMA ThenRows ==
  ASSUME NEW w, NEW ms, Reads(w, ms)
  PROVE  Rows(w) = Delivered(ms) /\ Status(w) = StatusOf(ms) /\ Messages(w) = ms
<1>1. Messages(w) = ms
  BY ReadsWhole
<1>. DEFINE X == {Delivered(v) : v \in {ms}}
            Y == {StatusOf(v) : v \in {ms}}
<1>2. Delivered(ms) \in X /\ (\A x \in X : x = Delivered(ms)) /\ StatusOf(ms) \in Y /\ \A y \in Y : y = StatusOf(ms)
  OBVIOUS
<1>3. Rows(w) = (CHOOSE x \in X : TRUE) /\ Status(w) = CHOOSE y \in Y : TRUE
  BY <1>1 DEF Rows, Status, Then
<1>. HIDE DEF X, Y
<1>4. Rows(w) = Delivered(ms)
  BY <1>2, <1>3, OneChosen, Zenon
<1>5. Status(w) = StatusOf(ms)
  BY <1>2, <1>3, OneChosen, Zenon
<1>. QED  BY <1>1, <1>4, <1>5

\* Of an answer with an end the client has the rows, and knows how it ended.
LEMMA EndedRight ==
  ASSUME NEW w, NEW s, NEW d, NEW n, NEW ts, Ended(w, s, d, n, ts)
  PROVE  /\ Rows(w) = RowsOf(s, n)
         /\ HasType(ts, E) => Status(w) = "failed"
         /\ ~HasType(ts, E) /\ HasType(ts, C) => Status(w) = "complete"
         /\ ~HasType(ts, E) /\ ~HasType(ts, C) => Status(w) = "rows"
<1>1. PICK ms : Framed(ms, s, d, n) /\ Reads(w, ms \o ts) /\ Ending(ts)
  BY DEF Ended
<1>2. Rows(w) = Delivered(ms \o ts) /\ Status(w) = StatusOf(ms \o ts)
  BY <1>1, ThenRows
<1>3. Delivered(ms \o ts) = RowsOf(s, n)
  BY <1>1, DeliveredRight
<1>. QED  BY <1>1, <1>2, <1>3, StatusRight

\* Of an answer without an end the client has the rows so far.
LEMMA SentRight ==
  ASSUME NEW w, NEW s, NEW d, NEW n, Sent(w, s, d, n)
  PROVE  Rows(w) = RowsOf(s, n) /\ Status(w) = "rows"
<1>. DEFINE e == <<>>
<1>1. PICK ms : Reads(w, ms) /\ Framed(ms, s, d, n)
  BY DEF Sent
<1>2. ms \o e = ms
  BY <1>1 DEF Reads
<1>3. e \in Seq(Message) /\ Len(e) = 0 /\ 1..0 = {}
  OBVIOUS
<1>. HIDE DEF e
<1>4. Ending(e) /\ ~HasType(e, E) /\ ~HasType(e, C)
  BY <1>3 DEF Ending, HasType
<1>5. Reads(w, ms \o e)
  BY <1>1, <1>2
<1>6. Ended(w, s, d, n, e)
  BY <1>1, <1>4, <1>5 DEF Ended
<1>. QED  BY <1>4, <1>6, EndedRight

\* A query that has a result begins with its description.
Described(s) == IF s.sync /\ s.names # <<>> THEN 1 ELSE 0

ErrorMessages(s, ts) ==
  \E k \in 0..Len(s.msg), pos \in {<<>>, s.pos} :
    /\ k = Len(s.msg) \/ k = Size - Reserve
    /\ ErrorMessage(SubSeq(s.msg, 1, k), pos) \in Message
    /\ ts = <<ErrorMessage(SubSeq(s.msg, 1, k), pos)>> \o Optional(s.sync, Z, <<I>>)

\* The parts of a statement
LEMMA StatementType ==
  ASSUME NEW s \in Statements
  PROVE  /\ s.sync \in BOOLEAN /\ s.parsed \in BOOLEAN /\ s.bound \in BOOLEAN
         /\ s.names \in Seq(Seq(Byte)) /\ s.rows \in Seq(Seq(Cell)) /\ s.msg \in Seq(Byte) /\ s.pos \in Seq(Byte)
         /\ s.info \in Seq(Byte) /\ \A r \in 1..Len(s.rows) : Len(s.rows[r]) = Len(s.names) /\ s.rows[r] \in Narrow
<1>1. StatementOK(s) /\ Len(s.names) < 65536
  BY WriterAssumption
<1>2. /\ s.sync \in BOOLEAN /\ s.parsed \in BOOLEAN /\ s.bound \in BOOLEAN
      /\ s.names \in Seq(Seq(Byte)) /\ s.rows \in Seq(Seq(Cell)) /\ s.msg \in Seq(Byte) /\ s.pos \in Seq(Byte)
      /\ s.info \in Seq(Byte) /\ \A r \in 1..Len(s.rows) : Len(s.rows[r]) = Len(s.names)
  BY <1>1 DEF StatementOK
<1>3. ASSUME NEW r \in 1..Len(s.rows) PROVE s.rows[r] \in Narrow
  <2>1. s.rows[r] \in Seq(Cell) /\ Len(s.rows[r]) = Len(s.names)
    BY <1>2
  <2>. QED  BY <1>1, <2>1 DEF Narrow
<1>. QED  BY <1>2, <1>3

\* The messages by their place
LEMMA ErrorPlaces ==
  ASSUME NEW s, NEW d, NEW n, NEW ms, Framed(ms, s, d, n), NEW ts, Ending(ts),
         NEW k \in 1..Len(ms \o ts), (ms \o ts)[k].type = E
  PROVE  \E j \in 1..Len(ts) : ts[j].type = E /\ (ms \o ts)[k] = ts[j]
<1>. DEFINE all == ms \o ts
            l == Len(ts)
<1>1. /\ Len(all) = (d + n) + l /\ l \in Nat /\ n \in Nat /\ d \in {0, 1}
      /\ d = 1 => all[1].type = T
      /\ \A i \in 1..n : all[d + i].type = D
      /\ \A i \in 1..l : all[(d + n) + i] = ts[i]
  BY Joints
<1>2. k \in 1..Len(all) /\ all[k].type = E
  OBVIOUS
<1>. HIDE DEF all, l
<1>3. CASE d = 1 /\ k = 1
  BY <1>1, <1>2, <1>3, TypeCodes
<1>4. CASE k \in (d + 1)..(d + n)
  <2>. DEFINE i == k - d
  <2>1. i \in 1..n /\ k = d + i
    BY <1>1, <1>4
  <2>. HIDE DEF i
  <2>2. all[k].type = D
    BY <1>1, <2>1
  <2>. QED  BY <1>2, <2>2, TypeCodes
<1>5. CASE ~(d = 1 /\ k = 1) /\ k \notin (d + 1)..(d + n)
  <2>. DEFINE i == k - (d + n)
  <2>1. i \in 1..l /\ k = (d + n) + i
    BY <1>1, <1>2, <1>5
  <2>. HIDE DEF i
  <2>2. all[k] = ts[i]
    BY <1>1, <2>1
  <2>. QED  BY <1>2, <2>1, <2>2 DEF all, l
<1>. QED  BY <1>3, <1>4, <1>5

\* An answer that is complete is framed.
LEMMA AnswerRight ==
  ASSUME stmt \in Statements, NEW d, NEW n, NEW ts, Ended(wire, stmt, d, n, ts), d = 1 => stmt.sync,
         \/ ts = DoneMessages(stmt) /\ d = Described(stmt)
         \/ ErrorMessages(stmt, ts)
  PROVE  AnswerFramed
<1>. DEFINE s == stmt
            done == (If(s.parsed, One) \o If(s.bound, Two)) \o <<C>>
            end == If(s.sync, Z)
<1>1. PICK ms : Framed(ms, s, d, n) /\ Reads(wire, ms \o ts) /\ Ending(ts)
  BY DEF Ended
<1>. DEFINE all == ms \o ts
            types == TypesOf(all)
            head == TypesOf(ms)
<1>2. Received = all
  BY <1>1, ReadsWhole DEF Received
<1>3. ms \in Seq(Message) /\ ts \in Seq(Message) /\ d \in {0, 1} /\ n \in Nat
  BY <1>1, Joints DEF Framed, Ending
<1>4. types = head \o TypesOf(ts)
  BY <1>3, TypesJoined
<1>5. head = If(Has(all, T), T) \o [k \in 1..Cardinality(Places(all, D)) |-> D] /\ (Has(all, T) <=> d = 1)
  <2>1. Has(all, T) <=> d = 1
    BY <1>1, PlacesRight DEF Has
  <2>2. Cardinality(Places(all, D)) = n
    <3>1. Places(all, D) = (d + 1)..(d + n)
      BY <1>1, PlacesRight
    <3>2. d + 1 \in Int /\ d + n \in Int /\ (d + 1 > d + n <=> n = 0) /\ d + n - (d + 1) + 1 = n
      BY <1>3
    <3>. QED  BY <1>3, <3>1, <3>2, FS_Interval
  <2>3. head = If(d = 1, T) \o [k \in 1..n |-> D]
    <3>1. TypesOf(ms) = HeadOf(d, n)
      BY <1>1, HeadTypes
    <3>. QED  BY <3>1 DEF HeadOf
  <2>4. If(d = 1, T) = If(Has(all, T), T)
    BY <2>1 DEF If
  <2>. QED  BY <2>1, <2>2, <2>3, <2>4
<1>6. Has(all, C) => HasType(ts, C)
  BY <1>1, PlacesRight DEF HasType
<1>7. head \in Seq(Byte) /\ If(s.parsed, One) \in Seq(Byte) /\ If(s.bound, Two) \in Seq(Byte) /\ <<C>> \in Seq(Byte)
      /\ <<E>> \in Seq(Byte) /\ end \in Seq(Byte) /\ done \in Seq(Byte)
  <2>1. head \in Seq(Byte)
    BY <1>3, TypesType
  <2>2. <<One>> \in Seq(Byte) /\ <<Two>> \in Seq(Byte) /\ <<Z>> \in Seq(Byte) /\ <<C>> \in Seq(Byte) /\ <<E>> \in Seq(Byte)
    BY Codes
  <2>3. If(s.parsed, One) \in Seq(Byte) /\ If(s.bound, Two) \in Seq(Byte) /\ end \in Seq(Byte)
    BY <2>2, Codes DEF If
  <2>4. If(s.parsed, One) \o If(s.bound, Two) \in Seq(Byte)
    BY <2>3, Joined
  <2>5. done \in Seq(Byte)
    BY <2>2, <2>4, Joined
  <2>. QED  BY <2>1, <2>2, <2>3, <2>5
<1>8. /\ types \in {(head \o done) \o end, (head \o <<E>>) \o end}
      /\ Has(all, C) /\ s.sync /\ s.names # <<>> => d = 1
      /\ \A k \in 1..Len(all) : all[k].type = E =>
           \E m \in 0..Len(s.msg), pos \in {<<>>, s.pos} :
             /\ all[k].body = ErrorBody(SubSeq(s.msg, 1, m), pos)
             /\ m = Len(s.msg) \/ m = Size - Reserve
  <2>1. CASE ts = DoneMessages(stmt) /\ d = Described(stmt)
    <3>1. ~HasType(ts, E) /\ TypesOf(ts) = done \o end
      BY <2>1, StatementType, DoneEnding
    <3>2. head \o (done \o end) = (head \o done) \o end
      <4>. HIDE DEF head, done, end
      <4>1. head \in Seq(Byte) /\ done \in Seq(Byte) /\ end \in Seq(Byte)
        BY <1>7
      <4>. QED  BY <4>1, Associative
    <3>3. s.sync /\ s.names # <<>> => d = 1
      BY <2>1 DEF Described
    <3>4. \A k \in 1..Len(all) : all[k].type # E
      <4>1. ASSUME NEW k \in 1..Len(all), all[k].type = E PROVE FALSE
        <5>1. \E j \in 1..Len(ts) : ts[j].type = E /\ all[k] = ts[j]
          BY <1>1, <4>1, ErrorPlaces
        <5>. QED  BY <3>1, <5>1 DEF HasType
      <4>. QED  BY <4>1
    <3>. HIDE DEF all, types, head, done, end
    <3>. QED  BY <1>4, <3>1, <3>2, <3>3, <3>4
  <2>2. CASE ErrorMessages(stmt, ts)
    <3>1. PICK k \in 0..Len(s.msg), pos \in {<<>>, s.pos} :
            /\ k = Len(s.msg) \/ k = Size - Reserve
            /\ ErrorMessage(SubSeq(s.msg, 1, k), pos) \in Message
            /\ ts = <<ErrorMessage(SubSeq(s.msg, 1, k), pos)>> \o Optional(s.sync, Z, <<I>>)
      BY <2>2 DEF ErrorMessages
    <3>. DEFINE m == ErrorMessage(SubSeq(s.msg, 1, k), pos)
    <3>2. m.type = E /\ m.body = ErrorBody(SubSeq(s.msg, 1, k), pos)
      BY DEF ErrorMessage
    <3>3. s.sync \in BOOLEAN
      BY StatementType
    <3>. HIDE DEF m
    <3>4. m \in Message /\ ts = <<m>> \o Optional(s.sync, Z, <<I>>)
      BY <3>1 DEF m
    <3>5. /\ ~HasType(ts, C) /\ TypesOf(ts) = <<E>> \o end
          /\ \A j \in 1..Len(ts) : ts[j].type = E => ts[j] = m
      BY <3>2, <3>3, <3>4, ErrorEnding
    <3>6. head \o (<<E>> \o end) = (head \o <<E>>) \o end
      <4>. DEFINE e == <<E>>
      <4>. HIDE DEF head, end, e
      <4>1. head \in Seq(Byte) /\ e \in Seq(Byte) /\ end \in Seq(Byte)
        BY <1>7 DEF e
      <4>2. head \o (e \o end) = (head \o e) \o end
        BY <4>1, Associative
      <4>. QED  BY <4>2 DEF e
    <3>7. \A i \in 1..Len(all) : all[i].type = E => all[i] = m
      BY <1>1, <3>5, ErrorPlaces
    <3>. HIDE DEF all, types, head, done, end
    <3>8. types = (head \o <<E>>) \o end
      BY <1>4, <3>5, <3>6
    <3>. QED  BY <1>6, <3>1, <3>2, <3>5, <3>7, <3>8
  <2>. QED  BY <2>1, <2>2
<1>9. (head \o done) \o end = (head \o ((If(s.parsed, One) \o If(s.bound, Two)) \o <<C>>)) \o end
  OBVIOUS
<1>10. types = [k \in 1..Len(Received) |-> Received[k].type]
  BY <1>2 DEF TypesOf
<1>11. Len(types) = Len(all) /\ \A k \in 1..Len(all) : types[k] = all[k].type
  <2>1. Len(types) = Len(all)
    <3>1. ms \o ts \in Seq(Message)
      BY <1>3, Joined
    <3>. QED  BY <3>1, TypesType
  <2>. QED  BY <2>1 DEF TypesOf
<1>. HIDE DEF all, types, head, end, s
<1>. QED
  <2>. DEFINE H == If(Has(Received, T), T) \o [k \in 1..Cardinality(Places(Received, D)) |-> D]
  <2>1. H = head
    BY <1>2, <1>5
  <2>2. /\ types \in {(H \o done) \o end, (H \o <<E>>) \o end}
        /\ Has(Received, T) => stmt.sync
        /\ Has(Received, C) /\ stmt.sync /\ stmt.names # <<>> => Has(Received, T)
        /\ \A k \in 1..Len(types) : types[k] = E =>
             \E m \in 0..Len(stmt.msg), pos \in {<<>>, stmt.pos} :
               /\ Received[k].body = ErrorBody(SubSeq(stmt.msg, 1, m), pos)
               /\ m = Len(stmt.msg) \/ m = Size - Reserve
    BY <1>2, <1>5, <1>8, <1>11, <2>1 DEF s
  <2>. QED  BY <1>10, <2>2, Zenon DEF AnswerFramed, end, s

-----------------------------------------------------------------------------
(* The buffer and the wire                                                  *)

Ready(w) == w \in Writers /\ w.written = w.last

\* The buffer holds the rows behind the n-th, up to the m-th.
RowAt(x, s, k) == x.type = D /\ RowOf(x.body) = RowTexts(s.rows[k], Len(s.rows[k]))
Pending(w, s, n, m) ==
  /\ n \in Nat /\ m \in n..Len(s.rows)
  /\ \E rs : /\ rs \in Seq(Message) /\ Reads(Kept(w), rs) /\ Len(rs) = m - n
             /\ \A k \in 1..(m - n) : RowAt(rs[k], s, n + k)

\* An empty buffer holds no rows.
LEMMA PendingNone ==
  ASSUME NEW w, Kept(w) = <<>>, NEW s, NEW n \in 0..Len(s.rows), Len(s.rows) \in Nat
  PROVE  Pending(w, s, n, n)
<1>. DEFINE e == <<>>
            N == Len(s.rows)
<1>1. e \in Seq(Message) /\ Len(e) = 0 /\ Reads(Kept(w), e)
  BY EmptyReads
<1>2. n \in Nat /\ n \in n..N /\ n - n = 0 /\ 1..0 = {}
  OBVIOUS
<1>. HIDE DEF e
<1>. QED  BY <1>1, <1>2 DEF Pending

\* A row that is added is the next one in the buffer.
LEMMA PendingMore ==
  ASSUME NEW w, NEW s, NEW n, NEW m, Pending(w, s, n, m), Len(s.rows) \in Nat, m < Len(s.rows),
         NEW v, NEW x \in Message, Adds(w, v, <<x>>), RowAt(x, s, m + 1)
  PROVE  Pending(v, s, n, m + 1)
<1>. DEFINE N == Len(s.rows)
            i == m + 1
            one == <<x>>
            l == m - n
<1>1. n \in Nat /\ m \in n..N /\ N \in Nat /\ m < N
  BY DEF Pending
<1>2. PICK rs : /\ rs \in Seq(Message) /\ Reads(Kept(w), rs) /\ Len(rs) = l
                /\ \A k \in 1..l : RowAt(rs[k], s, n + k)
  BY DEF Pending
<1>3. PICK e : Reads(e, one) /\ Kept(v) = Kept(w) \o e
  BY DEF Adds
<1>. DEFINE all == rs \o one
<1>4. Reads(Kept(v), all)
  BY <1>2, <1>3, ReadsOn
<1>5. one \in Seq(Message) /\ Len(one) = 1 /\ one[1] = x /\ 1 \in 1..Len(one)
  OBVIOUS
<1>. HIDE DEF one, N, i
<1>6. all \in Seq(Message) /\ Len(all) = l + 1 /\ \A k \in 1..l : all[k] = rs[k]
  <2>1. all \in Seq(Message) /\ Len(all) = Len(rs) + Len(one) /\ \A k \in 1..Len(rs) : all[k] = rs[k]
    BY <1>2, <1>5, Joined
  <2>. HIDE DEF all, l
  <2>. QED  BY <1>2, <1>5, <2>1
<1>7. all[l + 1] = x
  <2>1. all[Len(rs) + 1] = one[1]
    BY <1>2, <1>5, JoinedEnd
  <2>. HIDE DEF all, l
  <2>. QED  BY <1>2, <1>5, <2>1
<1>. HIDE DEF all
<1>8. l \in Nat /\ i \in n..N /\ i - n = l + 1 /\ n + (l + 1) = i /\ \A k \in 1..(l + 1) : k \in 1..l \/ k = l + 1
  BY <1>1 DEF i
<1>. HIDE DEF l
<1>9. RowAt(x, s, i)
  BY DEF i
<1>10. \A k \in 1..(i - n) : RowAt(all[k], s, n + k)
  BY <1>2, <1>6, <1>7, <1>8, <1>9
<1>11. Pending(v, s, n, i)
  BY <1>1, <1>4, <1>6, <1>8, <1>10 DEF Pending, N
<1>. QED  BY <1>11 DEF i

\* The rows that are pending go behind those that were sent.
LEMMA Flushed ==
  ASSUME NEW q, NEW s, NEW d, NEW n, NEW m, NEW w, Sent(q, s, d, n), Pending(w, s, n, m)
  PROVE  Sent(q \o Kept(w), s, d, m)
<1>. DEFINE N == Len(s.rows)
            l == m - n
<1>1. PICK ms : Reads(q, ms) /\ Framed(ms, s, d, n)
  BY DEF Sent
<1>2. n \in Nat /\ m \in n..N
  BY DEF Pending
<1>3. PICK rs : /\ rs \in Seq(Message) /\ Reads(Kept(w), rs) /\ Len(rs) = l
                /\ \A k \in 1..l : RowAt(rs[k], s, n + k)
  BY DEF Pending
<1>. DEFINE all == ms \o rs
<1>4. Reads(q \o Kept(w), all)
  BY <1>1, <1>3, ReadsOn
<1>5. /\ ms \in Seq(Message) /\ d \in {0, 1} /\ n \in 0..N /\ Len(ms) = d + n /\ (d = 1 => ms[1].type = T)
      /\ \A k \in 1..n : RowAt(ms[d + k], s, k)
  BY <1>1 DEF Framed, RowAt
<1>6. all \in Seq(Message) /\ Len(all) = Len(ms) + Len(rs) /\ \A i \in 1..Len(ms) : all[i] = ms[i]
  BY <1>3, <1>5, Joined
<1>7. \A i \in 1..Len(rs) : all[Len(ms) + i] = rs[i]
  BY <1>3, <1>5, JoinedEnd
<1>. HIDE DEF all, N, l
<1>8. /\ l \in Nat /\ n + l = m /\ m \in 0..N /\ (d + n) + l = d + m
      /\ \A k \in 1..m : k \in 1..n \/ k - n \in 1..l
      /\ \A k \in 1..m : n + (k - n) = k /\ (d + n) + (k - n) = d + k
  BY <1>2, <1>5 DEF l
<1>9. Len(all) = d + m
  BY <1>3, <1>5, <1>6, <1>8
<1>10. d = 1 => all[1].type = T
  <2>1. d = 1 => 1 \in 1..Len(ms)
    BY <1>2, <1>5
  <2>. QED  BY <1>5, <1>6, <2>1
<1>11. ASSUME NEW k \in 1..m PROVE RowAt(all[d + k], s, k)
  <2>1. CASE k \in 1..n
    <3>1. d + k \in 1..Len(ms)
      BY <1>2, <1>5, <2>1
    <3>. QED  BY <1>5, <1>6, <2>1, <3>1
  <2>2. CASE k - n \in 1..l
    <3>. DEFINE j == k - n
    <3>1. j \in 1..l /\ n + j = k /\ (d + n) + j = d + k
      BY <1>8, <2>2
    <3>. HIDE DEF j
    <3>2. all[(d + n) + j] = rs[j] /\ RowAt(rs[j], s, n + j)
      BY <1>3, <1>5, <1>7, <3>1
    <3>. QED  BY <3>1, <3>2
  <2>. QED  BY <1>8, <2>1, <2>2
<1>12. Framed(all, s, d, m)
  <2>1. \A k \in 1..m : all[d + k].type = D /\ RowOf(all[d + k].body) = RowTexts(s.rows[k], Len(s.rows[k]))
    BY <1>11 DEF RowAt
  <2>. QED  BY <1>5, <1>6, <1>8, <1>9, <1>10, <2>1 DEF Framed, N
<1>. QED  BY <1>4, <1>12 DEF Sent

\* The end goes behind what was sent.
LEMMA SentEnds ==
  ASSUME NEW q, NEW s, NEW d, NEW n, NEW w, NEW ts, Sent(q, s, d, n), Reads(Kept(w), ts), Ending(ts)
  PROVE  Ended(q \o Kept(w), s, d, n, ts)
<1>1. PICK ms : Reads(q, ms) /\ Framed(ms, s, d, n)
  BY DEF Sent
<1>2. Reads(q \o Kept(w), ms \o ts)
  BY <1>1, ReadsOn
<1>. QED  BY <1>1, <1>2 DEF Ended

\* Before anything is written the answer has no description and no rows.
LEMMA SentNothing ==
  ASSUME NEW s, Len(s.rows) \in Nat
  PROVE  Sent(<<>>, s, 0, 0)
<1>. DEFINE e == <<>>
            d == 0
<1>1. Reads(e, e) /\ e \in Seq(Message) /\ Len(e) = d + d /\ d \in 0..Len(s.rows) /\ 1..d = {} /\ d \in {0, 1} /\ d # 1
  BY EmptyReads
<1>. HIDE DEF e, d
<1>2. Framed(e, s, d, d)
  BY <1>1 DEF Framed
<1>. QED  BY <1>1, <1>2 DEF Sent, e, d

\* A description is the first of an answer.
LEMMA SentDescription ==
  ASSUME NEW s, Len(s.rows) \in Nat, NEW b, NEW m \in Message, m.type = T, Reads(b, <<m>>)
  PROVE  Sent(b, s, 1, 0)
<1>. DEFINE e == <<m>>
            d == 1
            n == 0
<1>1. /\ e \in Seq(Message) /\ Len(e) = d + n /\ e[1] = m /\ n \in 0..Len(s.rows) /\ 1..n = {} /\ d \in {0, 1}
      /\ Reads(b, e)
  OBVIOUS
<1>. HIDE DEF e, d, n
<1>2. Framed(e, s, d, n)
  BY <1>1 DEF Framed
<1>. QED  BY <1>1, <1>2 DEF Sent, e, d, n

\* What is sent is bytes, and the rows are rows of the result.
LEMMA SentRange ==
  ASSUME NEW q, NEW s, NEW d, NEW n, Sent(q, s, d, n)
  PROVE  q \in Seq(Byte) /\ d \in {0, 1} /\ n \in 0..Len(s.rows)
BY DEF Sent, Framed, Reads

\* A writer is restored from its state and the buffer.
LEMMA OnOf ==
  ASSUME NEW w \in Writers
  PROVE  On(w.data, Of(w)) = w /\ w.data \in Buffers
<1>1. w = [data |-> w.data, written |-> w.written, last |-> w.last, full |-> w.full]
  BY DEF Writers
<1>. QED  BY <1>1, WriterType DEF On, Of

-----------------------------------------------------------------------------
(* The invariant                                                            *)

\* Only a result with columns has rows for the client.
Counted(s, k) == IF s.names = <<>> THEN 0 ELSE k
Total(s)      == Counted(s, Len(s.rows))
Buffer        == On(m_pData, writer)

IResult == \E n \in Nat : /\ Sent(wire, stmt, Described(stmt), n)
                          /\ Pending(Buffer, stmt, n, Counted(stmt, cur - 1))
IError  == \E d, n : /\ Sent(wire, stmt, d, n)
                     /\ d = 1 => stmt.sync
                     /\ n <= Total(stmt)
IRead   == \E d, n, ts : /\ Ended(wire, stmt, d, n, ts)
                         /\ d = 1 => stmt.sync
                         /\ n <= Total(stmt)
                         /\ \/ ts = DoneMessages(stmt) /\ d = Described(stmt) /\ n = Total(stmt)
                            \/ ErrorMessages(stmt, ts)

WriterInvariant ==
  /\ stmt \in Statements /\ m_pData \in Buffers
  /\ pc \in {"query", "begin", "result", "done", "error", "read"}
  /\ pc = "query" => stmt.sync /\ wire = <<>> /\ writer = NewWriter
  /\ pc = "begin" => Sent(wire, stmt, Described(stmt), 0) /\ writer = NewWriter
  /\ pc = "result" => cur \in 1..Len(stmt.rows) /\ Ready(Buffer) /\ IResult
  /\ pc = "done" => Sent(wire, stmt, Described(stmt), Total(stmt))
  /\ pc = "error" => IError
  /\ pc = "read" => IRead

\* The variables in a state of the invariant
LEMMA InvariantType ==
  ASSUME WriterInvariant
  PROVE  stmt \in Statements /\ m_pData \in Buffers /\ pc \in {"query", "begin", "result", "done", "error", "read"}
BY DEF WriterInvariant

\* The rows are numbered.
LEMMA Totals ==
  ASSUME NEW s \in Statements
  PROVE  /\ Len(s.rows) \in Nat /\ Total(s) \in 0..Len(s.rows) /\ Described(s) \in {0, 1}
         /\ Described(s) = 1 => s.sync
         /\ s.names = <<>> => Total(s) = 0 /\ Described(s) = 0
         /\ s.names # <<>> => Total(s) = Len(s.rows)
<1>1. s.rows \in Seq(Seq(Cell))
  BY StatementType
<1>2. Len(s.rows) \in Nat
  BY <1>1
<1>. QED  BY <1>2 DEF Total, Counted, Described

-----------------------------------------------------------------------------
(* The steps as ResultStream sees them                                      *)

\* What the client has read stays, or more rows are there, or the stream ends.
StreamStep ==
  \/ Rows(wire)' = Rows(wire) /\ Status(wire)' = Status(wire)
  \/ /\ Status(wire) = "rows" /\ Status(wire)' = "rows"
     /\ \E n, m \in Nat : /\ n < m /\ m <= Total(stmt)
                          /\ Rows(wire) = RowsOf(stmt, n) /\ Rows(wire)' = RowsOf(stmt, m)
  \/ /\ Status(wire) = "rows" /\ Status(wire)' = "complete"
     /\ Rows(wire) = RowsOf(stmt, Total(stmt)) /\ Rows(wire)' = Rows(wire)
  \/ /\ Status(wire) = "rows" /\ Status(wire)' = "failed"
     /\ Rows(wire)' = Rows(wire)

\* A step that writes nothing is no step of the stream.
LEMMA SameWire ==
  ASSUME wire' = wire
  PROVE  StreamStep
BY DEF StreamStep, Rows, Status

\* A write of rows, or of none, is a step of the stream that delivers them.
LEMMA MoreSent ==
  ASSUME stmt \in Statements, NEW d, NEW n, Sent(wire, stmt, d, n), NEW e, NEW m, Sent(wire', stmt, e, m),
         n <= m, m <= Total(stmt)
  PROVE  StreamStep
<1>1. n \in Nat /\ m \in Nat
  <2>1. n \in 0..Len(stmt.rows) /\ m \in 0..Len(stmt.rows)
    BY SentRange
  <2>2. Len(stmt.rows) \in Nat
    BY Totals
  <2>. QED  BY <2>1, <2>2
<1>2. Rows(wire) = RowsOf(stmt, n) /\ Status(wire) = "rows"
  BY SentRight
<1>3. Rows(wire') = RowsOf(stmt, m) /\ Status(wire') = "rows"
  BY SentRight
<1>4. Rows(wire)' = Rows(wire') /\ Status(wire)' = Status(wire')
  BY DEF Rows, Status
<1>5. CASE n = m
  BY <1>2, <1>3, <1>4, <1>5 DEF StreamStep
<1>6. CASE n # m
  <2>1. n < m
    BY <1>1, <1>6
  <2>. QED  BY <1>1, <1>2, <1>3, <1>4, <2>1, Zenon DEF StreamStep
<1>. QED  BY <1>5, <1>6

\* A write of the end is a step of the stream that ends it.
LEMMA EndSent ==
  ASSUME stmt \in Statements, NEW d, NEW n, Sent(wire, stmt, d, n), NEW ts, Ended(wire', stmt, d, n, ts),
         \/ HasType(ts, E)
         \/ ~HasType(ts, E) /\ HasType(ts, C) /\ n = Total(stmt)
  PROVE  StreamStep
<1>1. Rows(wire) = RowsOf(stmt, n) /\ Status(wire) = "rows"
  BY SentRight
<1>2. /\ Rows(wire') = RowsOf(stmt, n)
      /\ HasType(ts, E) => Status(wire') = "failed"
      /\ ~HasType(ts, E) /\ HasType(ts, C) => Status(wire') = "complete"
  BY EndedRight
<1>3. Rows(wire)' = Rows(wire') /\ Status(wire)' = Status(wire')
  BY DEF Rows, Status
<1>. QED  BY <1>1, <1>2, <1>3 DEF StreamStep

-----------------------------------------------------------------------------
(* The initial states                                                       *)

\* The invariant holds at first.
LEMMA InitInvariant ==
  Init => WriterInvariant
<1>. SUFFICES ASSUME Init PROVE WriterInvariant
  OBVIOUS
<1>1. /\ stmt \in Statements /\ pc = (IF stmt.sync THEN "query" ELSE "begin")
      /\ m_pData = [k \in 1..Size |-> 255] /\ writer = NewWriter /\ wire = <<>>
  BY DEF Init
<1>2. m_pData \in Buffers
  <2>1. 255 \in Byte
    BY SMT DEF Byte
  <2>. QED  BY <1>1, <2>1 DEF Buffers
<1>3. stmt.sync \in BOOLEAN
  BY <1>1, StatementType
<1>4. Sent(wire, stmt, 0, 0)
  BY <1>1, Totals, SentNothing
<1>5. CASE stmt.sync
  <2>1. pc = "query"
    BY <1>1, <1>5
  <2>. QED  BY <1>1, <1>2, <1>5, <2>1 DEF WriterInvariant
<1>6. CASE ~stmt.sync
  <2>1. pc = "begin" /\ Described(stmt) = 0
    BY <1>1, <1>6 DEF Described
  <2>. QED  BY <1>1, <1>2, <1>4, <2>1 DEF WriterInvariant
<1>. QED  BY <1>3, <1>5, <1>6

-----------------------------------------------------------------------------
(* The steps                                                                *)

\* After doWrite the prepared bytes are on the wire and the buffer is empty.
LEMMA Written ==
  ASSUME NEW w \in Writers, NEW h, DoWrite(w, h)
  PROVE  /\ wire' = wire \o Kept(w) /\ m_pData' \in Buffers /\ writer' = NewWriter /\ pc' = h
         /\ Ready(Buffer') /\ Kept(Buffer') = <<>>
<1>1. wire' = wire \o SubSeq(w.data, 1, w.last) /\ m_pData' = w.data /\ writer' = NewWriter /\ pc' = h
  BY DEF DoWrite
<1>2. w.data \in Buffers
  BY WriterType
<1>3. Buffer' = On(w.data, NewWriter)
  BY <1>1 DEF Buffer
<1>4. On(w.data, NewWriter) \in Writers /\ Kept(On(w.data, NewWriter)) = <<>>
      /\ On(w.data, NewWriter).written = On(w.data, NewWriter).last
  BY <1>2, NewWriterType
<1>. QED  BY <1>1, <1>2, <1>3, <1>4 DEF Kept, Ready

\* An exception leaves what was sent as it is.
LEMMA Thrown ==
  ASSUME WriterInvariant, Throw, stmt' = stmt,
         NEW d, NEW n, Sent(wire, stmt, d, n), d = 1 => stmt.sync, n <= Total(stmt)
  PROVE  WriterInvariant' /\ StreamStep
<1>1. stmt \in Statements /\ m_pData \in Buffers
  BY InvariantType
<1>2. pc' = "error" /\ m_pData' = m_pData /\ wire' = wire
  BY DEF Throw
<1>3. IError'
  BY <1>2 DEF IError
<1>. QED  BY <1>1, <1>2, <1>3, SameWire DEF WriterInvariant

\* The description of a query is written, unless it does not fit.
LEMMA QueryStep ==
  ASSUME WriterInvariant, HandleQuery
  PROVE  WriterInvariant' /\ StreamStep
<1>1. stmt \in Statements /\ m_pData \in Buffers /\ stmt.sync /\ wire = <<>> /\ writer = NewWriter
  BY DEF WriterInvariant, HandleQuery
<1>2. stmt' = stmt /\ cur' = cur
  BY DEF HandleQuery
<1>3. Len(stmt.rows) \in Nat /\ Total(stmt) \in 0..Len(stmt.rows)
  BY <1>1, Totals
<1>4. Sent(wire, stmt, 0, 0)
  BY <1>1, <1>3, SentNothing
<1>5. ASSUME Throw PROVE WriterInvariant' /\ StreamStep
  <2>1. 0 <= Total(stmt) /\ (0 = 1 => stmt.sync)
    BY <1>3
  <2>. QED  BY <1>2, <1>4, <1>5, <2>1, Thrown
<1>6. CASE stmt.names = <<>> /\ pc' = "begin" /\ UNCHANGED <<m_pData, writer, wire>>
  <2>1. pc' = "begin" /\ m_pData' = m_pData /\ writer' = writer /\ wire' = wire
    BY <1>6
  <2>2. Described(stmt) = 0
    BY <1>6 DEF Described
  <2>3. Sent(wire', stmt', Described(stmt'), 0)
    BY <1>2, <1>4, <2>1, <2>2
  <2>4. WriterInvariant'
    BY <1>1, <1>2, <2>1, <2>3 DEF WriterInvariant, Described
  <2>. QED  BY <2>1, <2>4, SameWire
<1>7. CASE /\ stmt.names # <<>>
           /\ \E w \in {BuildColumnDescription(m_pData, stmt.names, Types)} :
                (w.full /\ Throw) \/ (~w.full /\ DoWrite(w, "begin"))
  <2>. DEFINE w == BuildColumnDescription(m_pData, stmt.names, Types)
  <2>1. (w.full /\ Throw) \/ (~w.full /\ DoWrite(w, "begin"))
    BY <1>7
  <2>2. \A i \in 1..Len(stmt.names) : Types[i] \in Int
    <3>1. \A v : PgDataType(v) \in Int
      BY DEF PgDataType
    <3>. QED  BY <3>1 DEF Types
  <2>3. stmt.names \in Seq(Seq(Byte))
    BY <1>1, StatementType
  <2>4. w \in Writers /\ (~w.full => \E m \in Message : m.type = T /\ Reads(Kept(w), <<m>>))
    BY <1>1, <2>2, <2>3, DescriptionWritten
  <2>. HIDE DEF w
  <2>5. CASE ~w.full /\ DoWrite(w, "begin")
    <3>1. PICK m \in Message : m.type = T /\ Reads(Kept(w), <<m>>)
      BY <2>4, <2>5
    <3>2. wire' = wire \o Kept(w) /\ m_pData' \in Buffers /\ writer' = NewWriter /\ pc' = "begin"
      BY <2>4, <2>5, Written
    <3>3. wire' = Kept(w)
      <4>1. Kept(w) \in Seq(Byte)
        BY <3>1 DEF Reads
      <4>. QED  BY <1>1, <3>2, <4>1
    <3>4. Sent(wire', stmt, 1, 0)
      BY <1>3, <3>1, <3>3, SentDescription
    <3>5. Described(stmt) = 1
      BY <1>1, <1>7 DEF Described
    <3>6. Sent(wire', stmt', Described(stmt'), 0)
      BY <1>2, <3>4, <3>5
    <3>7. WriterInvariant'
      BY <1>1, <1>2, <3>2, <3>6 DEF WriterInvariant, Described
    <3>8. StreamStep
      <4>. DEFINE z == 0
      <4>1. z <= z /\ z <= Total(stmt) /\ Sent(wire, stmt, 0, z) /\ Sent(wire', stmt, 1, z)
        BY <1>3, <1>4, <3>4
      <4>. HIDE DEF z
      <4>. QED  BY <1>1, <4>1, MoreSent
    <3>. QED  BY <3>7, <3>8
  <2>. QED  BY <1>5, <2>1, <2>5
<1>. QED  BY <1>5, <1>6, <1>7 DEF HandleQuery

\* The first next(), which finds a row or the end
LEMMA BeginStep ==
  ASSUME WriterInvariant, HandleExecutionBegin
  PROVE  WriterInvariant' /\ StreamStep
<1>1. stmt \in Statements /\ m_pData \in Buffers /\ Sent(wire, stmt, Described(stmt), 0) /\ writer = NewWriter
  BY DEF WriterInvariant, HandleExecutionBegin
<1>2. stmt' = stmt
  BY DEF HandleExecutionBegin
<1>3. /\ Len(stmt.rows) \in Nat /\ Total(stmt) \in 0..Len(stmt.rows) /\ (Described(stmt) = 1 => stmt.sync)
      /\ stmt.rows \in Seq(Seq(Cell))
  BY <1>1, Totals, StatementType
<1>4. CASE Throw
  <2>1. 0 <= Total(stmt)
    BY <1>3
  <2>. QED  BY <1>1, <1>2, <1>3, <1>4, <2>1, Thrown
<1>5. CASE /\ pc' = (IF stmt.rows = <<>> THEN "done" ELSE "result")
           /\ cur' = 1 /\ UNCHANGED <<m_pData, writer, wire>>
  <2>1. m_pData' = m_pData /\ writer' = writer /\ wire' = wire /\ cur' = 1
    BY <1>5
  <2>2. CASE stmt.rows = <<>>
    <3>1. pc' = "done" /\ Total(stmt) = 0
      <4>1. Len(stmt.rows) = 0
        BY <2>2
      <4>. QED  BY <1>3, <1>5, <2>2, <4>1
    <3>2. Sent(wire', stmt', Described(stmt'), Total(stmt'))
      BY <1>1, <1>2, <2>1, <3>1
    <3>3. WriterInvariant'
      BY <1>1, <1>2, <2>1, <3>1, <3>2 DEF WriterInvariant, Described, Total, Counted
    <3>. QED  BY <2>1, <3>3, SameWire
  <2>3. CASE stmt.rows # <<>>
    <3>1. pc' = "result"
      BY <1>5, <2>3
    <3>2. 1 \in 1..Len(stmt.rows)
      <4>1. Len(stmt.rows) # 0
        BY <1>3, <2>3
      <4>. QED  BY <1>3, <4>1
    <3>3. Ready(Buffer') /\ Kept(Buffer') = <<>>
      <4>1. Buffer' = On(m_pData, NewWriter)
        BY <1>1, <2>1 DEF Buffer
      <4>. QED  BY <1>1, <4>1, NewWriterType DEF Ready
    <3>4. Counted(stmt, cur' - 1) = 0
      BY <2>1 DEF Counted
    <3>5. Pending(Buffer', stmt, 0, 0)
      <4>1. 0 \in 0..Len(stmt.rows)
        BY <1>3
      <4>. QED  BY <1>3, <3>3, <4>1, PendingNone
    <3>6. IResult'
      <4>1. 0 \in Nat /\ Sent(wire', stmt', Described(stmt'), 0) /\ Pending(Buffer', stmt', 0, Counted(stmt', cur' - 1))
        BY <1>1, <1>2, <2>1, <3>4, <3>5
      <4>. QED  BY <4>1 DEF IResult, Described, Counted
    <3>7. WriterInvariant'
      BY <1>1, <1>2, <2>1, <3>1, <3>2, <3>3, <3>6 DEF WriterInvariant
    <3>. QED  BY <2>1, <3>7, SameWire
  <2>. QED  BY <2>2, <2>3
<1>. QED  BY <1>4, <1>5 DEF HandleExecutionBegin

\* The row that the plan is at is in the buffer, or has no columns.
LEMMA NextStep ==
  ASSUME stmt \in Statements, stmt' = stmt, cur \in 1..Len(stmt.rows), m_pData \in Buffers,
         pc = "result", WriterInvariant,
         NEW v \in Writers, Ready(v), NEW n \in Nat, Sent(wire, stmt, Described(stmt), n),
         Pending(v, stmt, n, Counted(stmt, cur)), NextRow(v)
  PROVE  WriterInvariant' /\ StreamStep
<1>. DEFINE d == Described(stmt)
            N == Len(stmt.rows)
            j == Counted(stmt, cur)
            t == Total(stmt)
<1>1. N \in Nat /\ t \in 0..N /\ (d = 1 => stmt.sync)
  BY Totals
<1>2. j <= t /\ (cur = N => j = t) /\ n <= j /\ j \in Nat
  <2>1. n \in Nat /\ j \in n..N
    BY DEF Pending
  <2>2. j <= t /\ (cur = N => j = t)
    BY <1>1 DEF Counted, Total
  <2>. HIDE DEF j, t, N
  <2>. QED  BY <1>1, <2>1, <2>2
<1>3. CASE Throw
  <2>1. n <= Total(stmt)
    <3>. HIDE DEF j
    <3>1. n <= t
      BY <1>1, <1>2
    <3>. QED  BY <3>1
  <2>. QED  BY <1>1, <1>3, <2>1, Thrown
<1>4. CASE /\ cur < Len(stmt.rows) /\ cur' = cur + 1
           /\ m_pData' = v.data /\ writer' = Of(v)
           /\ UNCHANGED <<pc, wire>>
  <2>1. pc' = "result" /\ wire' = wire /\ cur' = cur + 1
    BY <1>4
  <2>2. Buffer' = v /\ m_pData' \in Buffers
    <3>1. Buffer' = On(v.data, Of(v))
      BY <1>4 DEF Buffer
    <3>2. On(v.data, Of(v)) = v /\ v.data \in Buffers
      BY OnOf
    <3>. QED  BY <1>4, <3>1, <3>2
  <2>3. cur' \in 1..Len(stmt.rows) /\ cur' - 1 = cur
    BY <1>1, <1>4, <2>1
  <2>4. IResult'
    <3>1. Pending(Buffer', stmt', n, Counted(stmt', cur' - 1)) /\ Sent(wire', stmt', Described(stmt'), n)
      BY <2>1, <2>2, <2>3
    <3>. QED  BY <3>1 DEF IResult, Described, Counted
  <2>5. Ready(Buffer')
    BY <2>2
  <2>6. WriterInvariant'
    BY <2>1, <2>2, <2>3, <2>4, <2>5 DEF WriterInvariant
  <2>. QED  BY <2>1, <2>6, SameWire
<1>5. CASE cur = Len(stmt.rows) /\ DoWrite(v, "done")
  <2>1. wire' = wire \o Kept(v) /\ m_pData' \in Buffers /\ pc' = "done"
    BY <1>5, Written
  <2>2. Sent(wire', stmt, d, j)
    BY <2>1, Flushed
  <2>3. j = Total(stmt)
    BY <1>2, <1>5
  <2>4. Sent(wire', stmt', Described(stmt'), Total(stmt'))
    BY <2>2, <2>3
  <2>5. WriterInvariant'
    BY <2>1, <2>4 DEF WriterInvariant, Described, Total, Counted
  <2>6. StreamStep
    <3>1. n <= j /\ j <= Total(stmt)
      BY <1>2
    <3>. HIDE DEF j, d
    <3>2. Sent(wire, stmt, d, n)
      BY DEF d
    <3>. QED  BY <2>2, <3>1, <3>2, MoreSent
  <2>. QED  BY <2>5, <2>6
<1>. QED  BY <1>3, <1>4, <1>5 DEF NextRow

\* A row is put behind the others; one that does not fit is built again behind
\* what has then been written.
LEMMA ResultStep ==
  ASSUME WriterInvariant, HandleExecutionResult
  PROVE  WriterInvariant' /\ StreamStep
<1>1. stmt \in Statements /\ m_pData \in Buffers /\ cur \in 1..Len(stmt.rows) /\ Ready(Buffer) /\ IResult /\ pc = "result"
  BY DEF WriterInvariant, HandleExecutionResult
<1>2. stmt' = stmt
  BY DEF HandleExecutionResult
<1>. DEFINE u == Buffer
            N == Len(stmt.rows)
            d == Described(stmt)
            j == Counted(stmt, cur - 1)
<1>3. PICK n \in Nat : Sent(wire, stmt, d, n) /\ Pending(u, stmt, n, j)
  BY <1>1 DEF IResult
<1>4. u \in Writers /\ u.written = u.last
  BY <1>1 DEF Ready
<1>5. N \in Nat /\ Total(stmt) \in 0..N /\ (d = 1 => stmt.sync)
  BY <1>1, Totals
<1>6. j \in Nat /\ n <= j /\ j <= Total(stmt)
  <2>1. j \in n..N
    BY <1>3 DEF Pending
  <2>2. j <= Total(stmt)
    BY <1>1, <1>5 DEF Counted, Total
  <2>. HIDE DEF j, N
  <2>. QED  BY <1>5, <2>1, <2>2
<1>7. ASSUME Throw PROVE WriterInvariant' /\ StreamStep
  <2>1. n <= Total(stmt)
    <3>. HIDE DEF j, N
    <3>. QED  BY <1>5, <1>6
  <2>. QED  BY <1>2, <1>3, <1>5, <1>7, <2>1, Thrown
<1>8. CASE stmt.names = <<>> /\ NextRow(On(m_pData, writer))
  <2>1. NextRow(u)
    BY <1>8 DEF Buffer
  <2>2. Pending(u, stmt, n, Counted(stmt, cur))
    BY <1>3, <1>8 DEF Counted
  <2>. HIDE DEF u
  <2>3. Ready(u)
    BY <1>1 DEF u
  <2>. QED  BY <1>1, <1>2, <1>3, <1>4, <2>1, <2>2, <2>3, NextStep
<1>9. CASE /\ stmt.names # <<>>
           /\ \E w \in {BuildData(On(m_pData, writer), stmt.rows[cur])} :
                (w.full /\ DoWrite(w, "result") /\ Rebuilt) \/ (~w.full /\ NextRow(w))
  <2>. DEFINE row == stmt.rows[cur]
              w == BuildData(u, row)
  <2>1. (w.full /\ DoWrite(w, "result") /\ Rebuilt) \/ (~w.full /\ NextRow(w))
    BY <1>9 DEF Buffer
  <2>2. row \in Narrow
    BY <1>1, StatementType
  <2>3. j = cur - 1 /\ Counted(stmt, cur) = cur /\ Total(stmt) = N
    BY <1>9 DEF Counted, Total
  <2>. HIDE DEF u, row
  <2>4. /\ w \in Writers
        /\ w.full => Kept(w) = Kept(u) /\ w.last = u.last
        /\ ~w.full => \E m \in Message : /\ m.type = D /\ RowOf(m.body) = RowTexts(row, Len(row))
                                         /\ Adds(u, w, <<m>>)
    BY <1>4, <2>2, DataWritten
  <2>. HIDE DEF w
  <2>5. CASE w.full /\ DoWrite(w, "result") /\ Rebuilt
    <3>1. /\ wire' = wire \o Kept(u) /\ m_pData' \in Buffers /\ pc' = "result"
          /\ Ready(Buffer') /\ Kept(Buffer') = <<>>
      BY <2>4, <2>5, Written
    <3>2. cur' = cur
      BY <2>5 DEF Rebuilt
    <3>3. Sent(wire', stmt, d, j)
      BY <1>3, <3>1, Flushed
    <3>4. Pending(Buffer', stmt, j, j)
      <4>1. j \in 0..N
        <5>. HIDE DEF j, N
        <5>. QED  BY <1>5, <1>6
      <4>. QED  BY <1>5, <3>1, <4>1, PendingNone
    <3>5. IResult'
      <4>1. Sent(wire', stmt', Described(stmt'), j) /\ Pending(Buffer', stmt', j, Counted(stmt', cur' - 1))
        BY <1>2, <3>2, <3>3, <3>4
      <4>. HIDE DEF j
      <4>. QED  BY <1>6, <4>1 DEF IResult, Described, Counted
    <3>6. WriterInvariant'
      BY <1>1, <1>2, <3>1, <3>2, <3>5 DEF WriterInvariant
    <3>7. StreamStep
      <4>. HIDE DEF j, d
      <4>. QED  BY <1>1, <1>3, <1>6, <3>3, MoreSent
    <3>. QED  BY <3>6, <3>7
  <2>6. CASE ~w.full /\ NextRow(w)
    <3>1. PICK m \in Message : m.type = D /\ RowOf(m.body) = RowTexts(row, Len(row)) /\ Adds(u, w, <<m>>)
      BY <2>4, <2>6
    <3>2. j < N /\ j + 1 = cur
      BY <1>1, <1>5, <2>3
    <3>3. RowAt(m, stmt, j + 1)
      BY <3>1, <3>2 DEF RowAt, row
    <3>4. Pending(w, stmt, n, j + 1)
      <4>. HIDE DEF j
      <4>. QED  BY <1>3, <1>5, <3>1, <3>2, <3>3, PendingMore
    <3>5. Pending(w, stmt, n, Counted(stmt, cur))
      BY <2>3, <3>2, <3>4
    <3>6. Ready(w)
      BY <2>4, <3>1 DEF Adds, Ready
    <3>. QED  BY <1>1, <1>2, <1>3, <2>4, <2>6, <3>5, <3>6, NextStep
  <2>. QED  BY <2>1, <2>5, <2>6
<1>10. CASE Throw
  BY <1>7, <1>10
<1>. QED  BY <1>8, <1>9, <1>10 DEF HandleExecutionResult

\* The end of the execution
LEMMA DoneStep ==
  ASSUME MessagesFit, WriterInvariant, HandleExecutionDone
  PROVE  WriterInvariant' /\ StreamStep
<1>. DEFINE d == Described(stmt)
            t == Total(stmt)
            u == On(m_pData, NewWriter)
            w == BuildExecutionDone(m_pData, stmt)
            ts == DoneMessages(stmt)
<1>1. stmt \in Statements /\ m_pData \in Buffers /\ Sent(wire, stmt, d, t)
  BY DEF WriterInvariant, HandleExecutionDone
<1>2. stmt' = stmt /\ DoWrite(w, "read")
  BY DEF HandleExecutionDone
<1>3. Adds(u, w, ts)
  <2>1. DoneSize(stmt) <= Size
    BY <1>1 DEF MessagesFit
  <2>. QED  BY <1>1, <2>1, StatementType, DoneAdds
<1>4. u \in Writers /\ Kept(u) = <<>>
  BY <1>1, NewWriterType
<1>5. Ending(ts) /\ HasType(ts, C) /\ ~HasType(ts, E)
  BY <1>1, StatementType, DoneEnding
<1>6. t <= Total(stmt) /\ t \in Nat /\ (d = 1 => stmt.sync)
  <2>1. Len(stmt.rows) \in Nat /\ t \in 0..Len(stmt.rows) /\ (d = 1 => stmt.sync)
    BY <1>1, Totals
  <2>. QED  BY <2>1
<1>7. ts = DoneMessages(stmt) /\ d = Described(stmt) /\ t = Total(stmt)
  OBVIOUS
<1>. HIDE DEF u, w, ts, d, t
<1>8. w \in Writers /\ Reads(Kept(w), ts)
  BY <1>3, <1>4, FirstAdds
<1>9. wire' = wire \o Kept(w) /\ m_pData' \in Buffers /\ pc' = "read"
  BY <1>2, <1>8, Written
<1>10. Ended(wire', stmt, d, t, ts)
  BY <1>1, <1>5, <1>8, <1>9, SentEnds
<1>11. IRead'
  BY <1>2, <1>6, <1>7, <1>10 DEF IRead, Described, DoneMessages, Total, Counted
<1>12. WriterInvariant'
  BY <1>1, <1>2, <1>9, <1>11 DEF WriterInvariant
<1>13. StreamStep
  BY <1>1, <1>5, <1>7, <1>10, EndSent
<1>. QED  BY <1>12, <1>13

\* An error ends what was sent.
LEMMA ExceptionStep ==
  ASSUME MessagesFit, WriterInvariant, HandleException
  PROVE  WriterInvariant' /\ StreamStep
<1>1. stmt \in Statements /\ m_pData \in Buffers /\ IError
  BY DEF WriterInvariant, HandleException
<1>2. stmt' = stmt
  BY DEF HandleException
<1>3. PICK pos \in {<<>>} \cup (IF wire = <<>> THEN {stmt.pos} ELSE {}) :
        DoWrite(BuildException(m_pData, stmt.msg, pos, stmt.sync), "read")
  BY DEF HandleException
<1>4. pos \in {<<>>, stmt.pos}
  BY <1>3
<1>5. PICK d, n : Sent(wire, stmt, d, n) /\ (d = 1 => stmt.sync) /\ n <= Total(stmt)
  BY <1>1 DEF IError
<1>. DEFINE w == BuildException(m_pData, stmt.msg, pos, stmt.sync)
<1>6. stmt.msg \in Seq(Byte) /\ stmt.sync \in BOOLEAN /\ pos \in Seq(Byte)
  <2>1. stmt.msg \in Seq(Byte) /\ stmt.sync \in BOOLEAN /\ stmt.pos \in Seq(Byte)
    BY <1>1, StatementType
  <2>2. <<>> \in Seq(Byte)
    OBVIOUS
  <2>. QED  BY <1>4, <2>1, <2>2
<1>7. ErrorSent(w, stmt.msg, pos, stmt.sync)
  <2>1. ErrorRoom(stmt.msg, pos, stmt.sync)
    BY <1>1, <1>4 DEF MessagesFit
  <2>. QED  BY <1>1, <1>6, <2>1, ErrorWritten
<1>8. DoWrite(w, "read")
  BY <1>3
<1>. HIDE DEF w
<1>9. PICK k \in 0..Len(stmt.msg) :
        /\ w \in Writers /\ (k = Len(stmt.msg) \/ k = Size - Reserve)
        /\ ErrorMessage(SubSeq(stmt.msg, 1, k), pos) \in Message
        /\ Reads(Kept(w), <<ErrorMessage(SubSeq(stmt.msg, 1, k), pos)>> \o Optional(stmt.sync, Z, <<I>>))
  BY <1>7 DEF ErrorSent
<1>. DEFINE m == ErrorMessage(SubSeq(stmt.msg, 1, k), pos)
            ts == <<m>> \o Optional(stmt.sync, Z, <<I>>)
<1>10. ErrorMessages(stmt, ts)
  BY <1>4, <1>9 DEF ErrorMessages
<1>11. m.type = E
  BY DEF ErrorMessage
<1>12. m \in Message /\ Reads(Kept(w), ts)
  BY <1>9
<1>. HIDE DEF m
<1>13. Ending(ts) /\ HasType(ts, E)
  BY <1>6, <1>11, <1>12, ErrorEnding
<1>. HIDE DEF ts
<1>14. PICK es : ErrorMessages(stmt, es) /\ Reads(Kept(w), es) /\ Ending(es) /\ HasType(es, E)
  BY <1>10, <1>12, <1>13
<1>15. wire' = wire \o Kept(w) /\ m_pData' \in Buffers /\ pc' = "read"
  BY <1>8, <1>9, Written
<1>16. Ended(wire', stmt, d, n, es)
  BY <1>5, <1>14, <1>15, SentEnds
<1>17. IRead'
  <2>1. ErrorMessages(stmt', es)
    BY <1>2, <1>14
  <2>2. ErrorMessages(stmt, es)'
    BY <2>1 DEF ErrorMessages
  <2>3. Ended(wire', stmt', d, n, es) /\ (d = 1 => stmt'.sync) /\ n <= Total(stmt')
    BY <1>2, <1>5, <1>16
  <2>. QED  BY <2>2, <2>3 DEF IRead, Total, Counted
<1>18. WriterInvariant'
  BY <1>1, <1>2, <1>15, <1>17 DEF WriterInvariant
<1>19. StreamStep
  BY <1>1, <1>5, <1>14, <1>16, EndSent
<1>. QED  BY <1>18, <1>19

\* Every step preserves the invariant and is a step of the stream.
LEMMA WriterSteps ==
  ASSUME MessagesFit, WriterInvariant, [Next]_vars
  PROVE  WriterInvariant' /\ StreamStep /\ stmt' = stmt
<1>1. CASE HandleQuery
  BY <1>1, QueryStep DEF HandleQuery
<1>2. CASE HandleExecutionBegin
  BY <1>2, BeginStep DEF HandleExecutionBegin
<1>3. CASE HandleExecutionResult
  BY <1>3, ResultStep DEF HandleExecutionResult
<1>4. CASE HandleExecutionDone
  BY <1>4, DoneStep DEF HandleExecutionDone
<1>5. CASE HandleException
  BY <1>5, ExceptionStep DEF HandleException
<1>6. CASE UNCHANGED vars
  <2>1. /\ stmt' = stmt /\ pc' = pc /\ m_pData' = m_pData /\ writer' = writer /\ cur' = cur /\ wire' = wire
    BY <1>6 DEF vars
  <2>2. WriterInvariant'
    <3>1. IResult' <=> IResult
      BY <2>1 DEF IResult, Buffer, Described, Counted
    <3>2. IError' <=> IError
      BY <2>1 DEF IError, Counted, Total
    <3>3. \A ts : ErrorMessages(stmt, ts)' <=> ErrorMessages(stmt, ts)
      BY <2>1, Zenon DEF ErrorMessages
    <3>4. DoneMessages(stmt)' = DoneMessages(stmt)
      BY <2>1 DEF DoneMessages
    <3>5. IRead' <=> IRead
      BY <2>1, <3>3, <3>4 DEF IRead, Described, Counted, Total
    <3>. QED  BY <2>1, <3>1, <3>2, <3>5 DEF WriterInvariant, Buffer, Described, Counted, Total
  <2>. QED  BY <2>1, <2>2, SameWire
<1>. QED  BY <1>1, <1>2, <1>3, <1>4, <1>5, <1>6 DEF Next, Answered

\* What has been written is at every point the messages of an answer as far as the
\* handlers have got: the description, the rows up to some row, and at the end the
\* acknowledgements or an error; the buffer holds the rows from there to the row
\* that the plan is at (handleExecutionResult).
THEOREM WriterTheorem ==
  MessagesFit => (Spec => []WriterInvariant)
<1>. SUFFICES ASSUME MessagesFit PROVE Spec => []WriterInvariant
  OBVIOUS
<1>1. WriterInvariant /\ [Next]_vars => WriterInvariant'
  BY WriterSteps
<1>. QED  BY <1>1, InitInvariant, PTL DEF Spec

\* An answer of which this holds is framed when the next message is read.
LEMMA InvariantAnswers ==
  WriterInvariant => AnswerFramed
<1>. SUFFICES ASSUME WriterInvariant PROVE AnswerFramed
  OBVIOUS
<1>1. CASE pc = "read"
  <2>1. stmt \in Statements /\ IRead
    BY <1>1 DEF WriterInvariant
  <2>2. PICK d, n, ts : /\ Ended(wire, stmt, d, n, ts)
                        /\ d = 1 => stmt.sync
                        /\ \/ ts = DoneMessages(stmt) /\ d = Described(stmt)
                           \/ ErrorMessages(stmt, ts)
    BY <2>1 DEF IRead
  <2>. QED  BY <2>1, <2>2, AnswerRight
<1>2. CASE pc # "read"
  BY <1>2 DEF AnswerFramed
<1>. QED  BY <1>1, <1>2

\* Every answer is complete and framed when the next message is read, for every
\* result, text and size of the buffer with room for the ends of an answer: a
\* message is built again where it did not fit, and none is cut or sent twice
\* (buildData, buildExecutionDone, buildException and the handlers).
THEOREM AnswerTheorem ==
  MessagesFit => (Spec => []AnswerFramed)
BY WriterTheorem, InvariantAnswers, PTL

-----------------------------------------------------------------------------
(* The writer implements ResultStream                                       *)

Result(s) ==
  IF s.names = <<>> THEN <<>>
  ELSE [r \in 1..Len(s.rows) |-> [c \in 1..Len(s.names) |-> TextOf(s.rows[r][c])]]

\* The first rows are the beginning of the result.
LEMMA FirstRows ==
  ASSUME NEW s \in Statements
  PROVE  /\ Len(Result(s)) = Total(s) /\ Total(s) \in Nat /\ RowsOf(s, Total(s)) = Result(s) /\ RowsOf(s, 0) = <<>>
         /\ \A n \in 0..Total(s) : RowsOf(s, n) = SubSeq(Result(s), 1, n) /\ Len(RowsOf(s, n)) = n
<1>. DEFINE t == Total(s)
            row(r) == RowTexts(s.rows[r], Len(s.rows[r]))
            A == {row(r) : r \in 1..t}
            x == RowsOf(s, t)
<1>1. t \in Nat /\ Len(s.rows) \in Nat /\ (s.names = <<>> => t = 0) /\ (s.names # <<>> => t = Len(s.rows))
  <2>1. Len(s.rows) \in Nat /\ t \in 0..Len(s.rows)
    BY Totals
  <2>. QED  BY <2>1, Totals
<1>2. x = [r \in 1..t |-> row(r)]
  BY DEF RowsOf
<1>3. \A r \in 1..t : row(r) \in A
  OBVIOUS
<1>4. x = Result(s)
  <2>1. CASE s.names = <<>>
    <3>1. t = 0 /\ 1..0 = {} /\ Result(s) = <<>>
      BY <1>1, <2>1 DEF Result
    <3>. HIDE DEF x, row, t
    <3>2. x = [r \in 1..0 |-> row(r)]
      BY <1>2, <3>1
    <3>3. [r \in 1..0 |-> row(r)] = <<>>
      BY <3>1
    <3>. QED  BY <3>1, <3>2, <3>3
  <2>2. CASE s.names # <<>>
    <3>1. t = Len(s.rows)
      BY <1>1, <2>2
    <3>2. \A r \in 1..t : Len(s.rows[r]) = Len(s.names)
      BY <3>1, StatementType
    <3>3. Result(s) = [r \in 1..t |-> [c \in 1..Len(s.names) |-> TextOf(s.rows[r][c])]]
      BY <2>2, <3>1 DEF Result
    <3>4. \A r \in 1..t : row(r) = [c \in 1..Len(s.names) |-> TextOf(s.rows[r][c])]
      BY <3>2 DEF RowTexts
    <3>. HIDE DEF x, row, t
    <3>. QED  BY <1>2, <3>3, <3>4
  <2>. QED  BY <2>1, <2>2
<1>. HIDE DEF row, A
<1>5. x \in Seq(A) /\ Len(x) = t /\ \A r \in 1..t : x[r] = row(r)
  <2>. HIDE DEF x, t
  <2>. QED  BY <1>1, <1>2, <1>3
<1>6. ASSUME NEW n \in 0..t PROVE RowsOf(s, n) = SubSeq(x, 1, n) /\ Len(RowsOf(s, n)) = n
  <2>1. RowsOf(s, n) = [r \in 1..n |-> row(r)]
    BY DEF RowsOf, row
  <2>. HIDE DEF x, t
  <2>2. n \in Nat /\ n <= t /\ \A r \in 1..n : r \in 1..t
    BY <1>1
  <2>3. SubSeq(x, 1, n) = [r \in 1..n |-> x[r]]
    BY <1>5, <2>2
  <2>4. [r \in 1..n |-> x[r]] = [r \in 1..n |-> row(r)]
    BY <1>5, <2>2
  <2>5. Len([r \in 1..n |-> row(r)]) = n
    BY <2>2
  <2>. QED  BY <2>1, <2>3, <2>4, <2>5
<1>7. RowsOf(s, 0) = <<>>
  <2>1. RowsOf(s, 0) = [r \in 1..0 |-> row(r)] /\ 1..0 = {}
    BY DEF RowsOf, row
  <2>. QED  BY <2>1
<1>. QED  BY <1>1, <1>4, <1>5, <1>6, <1>7

\* The steps of the writer are steps of ResultStream, or leave it alone.
LEMMA StreamRefined ==
  ASSUME stmt \in Statements, stmt' = stmt, StreamStep
  PROVE  [Stream!Next]_(Stream!streamVars)
<1>. DEFINE t == Total(stmt)
            r == Result(stmt)
            rows == Rows(wire)
            status == Status(wire)
            more == Rows(wire)'
            next == Status(wire)'
<1>1. Len(r) = t /\ t \in Nat /\ RowsOf(stmt, t) = r
      /\ \A n \in 0..t : RowsOf(stmt, n) = SubSeq(r, 1, n) /\ Len(RowsOf(stmt, n)) = n
  BY FirstRows
<1>2. Result(stmt)' = r
  BY DEF Result
<1>3. CASE more = rows /\ next = status
  <2>1. UNCHANGED Stream!streamVars
    BY <1>2, <1>3 DEF Stream!streamVars, Rows, Status, Received, Result
  <2>. QED  BY <2>1
<1>4. CASE /\ status = "rows" /\ next = "rows"
           /\ \E n, m \in Nat : n < m /\ m <= t /\ rows = RowsOf(stmt, n) /\ more = RowsOf(stmt, m)
  <2>1. PICK n \in Nat, m \in Nat : n < m /\ m <= t /\ rows = RowsOf(stmt, n) /\ more = RowsOf(stmt, m)
    BY <1>4
  <2>. HIDE DEF t, r, rows, more, status, next
  <2>2. n \in 0..t /\ m \in 0..t
    BY <1>1, <2>1
  <2>3. Len(rows) = n /\ more = SubSeq(r, 1, m) /\ m \in (n + 1)..Len(r)
    BY <1>1, <2>1, <2>2
  <2>4. \E k \in (Len(rows) + 1)..Len(r) : more = SubSeq(r, 1, k)
    BY <2>3
  <2>5. Stream!Deliver
    BY <1>2, <1>4, <2>4 DEF Stream!Deliver, Rows, Status, Received, Result, rows, more, status, next, r
  <2>. QED  BY <2>5 DEF Stream!Next
<1>5. CASE status = "rows" /\ next = "complete" /\ rows = RowsOf(stmt, t) /\ more = rows
  <2>1. rows = r
    BY <1>1, <1>5
  <2>2. Stream!Complete
    BY <1>2, <1>5, <2>1 DEF Stream!Complete, Rows, Status, Received, Result
  <2>. QED  BY <2>2 DEF Stream!Next
<1>6. CASE status = "rows" /\ next = "failed" /\ more = rows
  <2>1. Stream!Fail
    BY <1>2, <1>6 DEF Stream!Fail, Rows, Status, Received, Result
  <2>. QED  BY <2>1 DEF Stream!Next
<1>. QED  BY <1>3, <1>4, <1>5, <1>6 DEF StreamStep

\* At first nothing has been delivered.
LEMMA StreamInit ==
  Init => Stream!Init
<1>. SUFFICES ASSUME Init PROVE Stream!Init
  OBVIOUS
<1>1. stmt \in Statements /\ wire = <<>>
  BY DEF Init
<1>2. Sent(wire, stmt, 0, 0)
  BY <1>1, Totals, SentNothing
<1>3. Rows(wire) = <<>> /\ Status(wire) = "rows"
  BY <1>1, <1>2, SentRight, FirstRows
<1>. QED  BY <1>3 DEF Stream!Init, Rows, Status, Received

\* The client reads the result: every row once, whole and in order, and then that
\* this was all, or an error at any point (the loop of handleExecutionResult).
THEOREM DeliversTheorem ==
  MessagesFit => (Spec => DeliversResult)
<1>. SUFFICES ASSUME MessagesFit PROVE Spec => DeliversResult
  OBVIOUS
<1>1. WriterInvariant /\ [Next]_vars => [Stream!Next]_(Stream!streamVars)
  BY WriterSteps, InvariantType, StreamRefined
<1>. QED  BY <1>1, StreamInit, WriterTheorem, PTL DEF Spec, DeliversResult, Stream!Spec
=============================================================================
