-------------------------- MODULE ParseResult_proofs --------------------------
(***************************************************************************)
(* Proofs about ParseResult, for an arena of any size and statements with  *)
(* any number of parameters: what a plan reads has not been overwritten,   *)
(* and a Bind that fits is not refused for lack of space.                  *)
(***************************************************************************)
EXTENDS ParseResult, FoldLemmas, SequenceTheorems

-----------------------------------------------------------------------------
(* The strings of a Bind.                                                   *)

\* They lie behind one another and behind what is in use.
LEMMA StringEnds ==
  ASSUME m_iCurrent \in Nat, NEW sizes \in Seq(Nat), NEW n \in 0..Len(sizes)
  PROVE  /\ StringEnd(sizes, n) \in Nat /\ StringEnd(sizes, n) >= m_iCurrent
         /\ StringEnd(sizes, 0) = m_iCurrent
<1>. DEFINE t(m) == SubSeq(sizes, 1, m)
<1>1. ASSUME NEW m \in 0..Len(sizes) PROVE t(m) \in Seq(Nat) /\ Len(t(m)) = m
  OBVIOUS
<1>2. 0 \in 0..Len(sizes) /\ n \in 0..Len(sizes)
  OBVIOUS
<1>. HIDE DEF t
<1>3. ASSUME NEW m \in 0..Len(sizes)
      PROVE  /\ FoldLeft(+, m_iCurrent, t(m)) \in Nat /\ FoldLeft(+, m_iCurrent, t(m)) >= m_iCurrent
             /\ m = 0 => FoldLeft(+, m_iCurrent, t(m)) = m_iCurrent
  BY <1>1, SumGrows
<1>4. StringEnd(sizes, n) = FoldLeft(+, m_iCurrent, t(n)) /\ StringEnd(sizes, 0) = FoldLeft(+, m_iCurrent, t(0))
  BY DEF StringEnd, t
<1>. QED  BY <1>2, <1>3, <1>4

\* All of them end where the sum of their sizes says.
LEMMA AllStrings ==
  ASSUME m_iCurrent \in Nat, NEW sizes \in Seq(Nat)
  PROVE  StringEnd(sizes, Len(sizes)) = m_iCurrent + FoldLeft(+, 0, sizes) /\ FoldLeft(+, 0, sizes) \in Nat
<1>1. SubSeq(sizes, 1, Len(sizes)) = sizes
  OBVIOUS
<1>2. StringEnd(sizes, Len(sizes)) = FoldLeft(+, m_iCurrent, sizes)
  BY <1>1 DEF StringEnd
<1>. QED  BY <1>2, SumFromBase

\* Max takes the largest number of strings that fit: there is one, because the
\* arena is not overfull, and it is all of them if they all fit.
LEMMA MostFitting ==
  ASSUME m_iCurrent \in 0..BlockSize, NEW sizes \in Seq(Nat), NEW n, n = Max(Fitting(sizes))
  PROVE  /\ n \in 0..Len(sizes) /\ StringEnd(sizes, n) <= BlockSize
         /\ Len(sizes) \in Fitting(sizes) => n = Len(sizes)
<1>. DEFINE len  == Len(sizes)
            S    == Fitting(sizes)
            T    == {m \in Nat : \A k \in S : k <= m}
<1>1. len \in Nat /\ BlockSize \in Nat /\ m_iCurrent \in Nat
  BY ArenaAssumption
<1>2. StringEnd(sizes, 0) = m_iCurrent
  <2>1. 0 \in 0..Len(sizes)
    OBVIOUS
  <2>. QED  BY <1>1, <2>1, StringEnds
<1>3. /\ \A k \in S : k \in 0..len /\ StringEnd(sizes, k) <= BlockSize
      /\ 0 \in S
  BY <1>1, <1>2 DEF Fitting
<1>. HIDE DEF len, S
<1>4. len \in T
  BY <1>1, <1>3
<1>5. PICK m \in T : \A y \in T : m <= y
  BY <1>4, LeastNatural
<1>6. m \in S
  <2>. SUFFICES ASSUME m \notin S PROVE FALSE
    OBVIOUS
  <2>1. \A k \in S : k <= m /\ k # m /\ k \in Nat
    BY <1>1, <1>3, <1>5
  <2>2. m - 1 \in T
    BY <1>3, <1>5, <2>1
  <2>. QED  BY <1>5, <2>2
<1>7. \E x \in S : \A y \in S : x >= y
  BY <1>3, <1>5, <1>6
<1>8. Max(S) \in S /\ \A y \in S : Max(S) >= y
  BY <1>7 DEF Max
<1>9. n \in S /\ \A y \in S : n >= y
  BY <1>8 DEF S
<1>10. n \in 0..len /\ StringEnd(sizes, n) <= BlockSize
  BY <1>3, <1>9
<1>11. len \in S => n = len
  BY <1>1, <1>9, <1>10
<1>. QED  BY <1>10, <1>11 DEF len, S

-----------------------------------------------------------------------------
(* The inductive invariant.                                                 *)

Object == [lo : Int, hi : Int, intact : BOOLEAN]

\* The statement that the client believes to have been parsed
LastParsed(s) == client.last = <<s>>

Typed ==
  /\ m_iCurrent \in 0..BlockSize /\ m_iMark \in 0..BlockSize
  /\ m_bindParamNodes \in Seq(Object)
  /\ client \in [state : {"idle", "parsed", "bound"}, last : {<<>>} \cup {<<s>> : s \in Statements}]
  /\ client.state = "bound" => client.last # <<>>
  /\ executing => client.state = "bound" \/ client.last = <<>>
\* The tree is that of a statement, and nothing has been written over it.
\* (The parser may have stopped before all of it was there.)
TreeThere == tree = <<>> \/ \E s \in Statements : \E size \in Nat : tree = NewTree(s, size)

\* What is in use when a Bind begins: what the execution of a bound plan will
\* go back to
InUse == IF client.state = "bound" THEN m_iMark ELSE m_iCurrent

\* A statement that can be bound has its tree in use, now and after a restore.
TreeInUse ==
  client.last # <<>> /\ tree # <<>> =>
    tree[1].nodes.hi <= m_iCurrent /\ (client.state = "bound" => tree[1].nodes.hi <= m_iMark)

\* Unless something has failed, nothing but its tree is.
OnlyTree ==
  \A s \in Statements : ~failedSince /\ LastParsed(s) /\ s.kind # "bypassed" => InUse = s.size

PlanThere ==
  executing \/ client.state = "bound" =>
    \A i \in DOMAIN m_pPlan :
      /\ m_pPlan[i].nodes.intact
      /\ \A j \in DOMAIN m_pPlan[i].strings : m_pPlan[i].strings[j].intact
      /\ m_pPlan[i].own

\* There is a plan only if it is bound, being executed, or left by a failure, and
\* it is the last of these if a Describe has read other names than its own.
PlanExpected ==
  /\ DOMAIN m_pPlan = {} \/ executing \/ client.state = "bound" \/ planLeft
  /\ described = "overwritten" => planLeft

ArenaInv == Typed /\ TreeThere /\ TreeInUse /\ OnlyTree /\ PlanThere /\ PlanExpected /\ refused # "space"

\* Putting the strings of a Bind into the arena leaves the tree as it is.
LEMMA StringsKeepTree ==
  ASSUME Typed, TreeThere, TreeInUse, client.last # <<>>,
         NEW sizes \in Seq(Nat), NEW n \in 0..Len(sizes), StringEnd(sizes, n) <= BlockSize,
         SetStrings(sizes, n)
  PROVE  /\ m_iMark' = m_iCurrent /\ m_iCurrent' \in 0..BlockSize /\ m_iCurrent' >= m_iCurrent
         /\ tree' = tree
<1>1. BlockSize \in Nat /\ m_iCurrent \in Nat /\ m_iCurrent \in 0..BlockSize
  BY ArenaAssumption DEF Typed
<1>2. /\ m_iCurrent' = StringEnd(sizes, n) /\ m_iMark' = m_iCurrent
      /\ tree' = OverwriteTree(m_iCurrent + 1, StringEnd(sizes, n))
  BY DEF SetStrings, Mark
<1>3. StringEnd(sizes, n) \in Nat /\ StringEnd(sizes, n) >= m_iCurrent
  BY <1>1, StringEnds
<1>4. CASE tree = <<>>
  <2>1. tree' \in [1..0 -> {}]
    BY <1>2, <1>4 DEF OverwriteTree
  <2>2. tree' \in Seq({}) /\ Len(tree') = 0
    BY <2>1
  <2>3. tree' = <<>>
    BY <2>2, EmptySeq
  <2>. QED  BY <1>1, <1>2, <1>3, <1>4, <2>3
<1>5. CASE tree # <<>>
  <2>. DEFINE end == StringEnd(sizes, n)
  <2>. HIDE DEF end
  <2>1. PICK s \in Statements, size \in Nat : tree = NewTree(s, size)
    BY <1>5 DEF TreeThere
  <2>2. size <= m_iCurrent
    BY <1>5, <2>1 DEF TreeInUse, NewTree
  <2>. DEFINE nodes == [lo |-> 1, hi |-> size, intact |-> TRUE]
  <2>3. Overwrite(nodes, m_iCurrent + 1, end) = nodes
    <3>1. nodes.hi < m_iCurrent + 1 /\ nodes.intact = TRUE
      BY <1>1, <2>2
    <3>2. Overwrite(nodes, m_iCurrent + 1, end) = [nodes EXCEPT !.intact = TRUE]
      BY <3>1 DEF Overwrite
    <3>. QED  BY <3>2
  <2>4. DOMAIN tree = {1} /\ tree[1] = [stmt |-> s, nodes |-> nodes]
    BY <2>1 DEF NewTree
  <2>. HIDE DEF nodes
  <2>. DEFINE rec == [stmt |-> s, nodes |-> nodes]
  <2>5. [tree[1] EXCEPT !.nodes = Overwrite(tree[1].nodes, m_iCurrent + 1, end)] = rec
    BY <2>3, <2>4
  <2>. HIDE DEF rec
  <2>6. tree' = [i \in 1..1 |-> rec]
    BY <1>2, <2>4, <2>5 DEF OverwriteTree, end
  <2>7. tree' \in Seq({rec}) /\ Len(tree') = 1 /\ tree'[1] = rec
    BY <2>6
  <2>8. tree = <<rec>>
    BY <2>1 DEF NewTree, rec, nodes
  <2>9. tree \in Seq({rec}) /\ Len(tree) = 1 /\ tree[1] = rec
    BY <2>8
  <2>10. tree' = tree
    BY <2>7, <2>9, SeqEqual
  <2>. QED  BY <1>1, <1>2, <1>3, <2>10
<1>. QED  BY <1>1, <1>2, <1>3, <1>4, <1>5

\* The first n parameters have their strings.
LEMMA StringsThere ==
  ASSUME Typed,
         NEW sizes \in Seq(Nat), NEW n \in 0..Len(sizes), SetStrings(sizes, n)
  PROVE  /\ m_bindParamNodes' \in Seq(Object) /\ Len(m_bindParamNodes') = Len(m_bindParamNodes)
         /\ \A i \in DOMAIN m_bindParamNodes' : i <= n => m_bindParamNodes'[i].intact
<1>. DEFINE end == StringEnd(sizes, n)
            len == Len(m_bindParamNodes)
            new(i) == [lo |-> StringEnd(sizes, i - 1) + 1, hi |-> StringEnd(sizes, i), intact |-> TRUE]
            old(i) == Overwrite(m_bindParamNodes[i], m_iCurrent + 1, end)
<1>1. BlockSize \in Nat /\ m_iCurrent \in Nat
  BY ArenaAssumption DEF Typed
<1>2. len \in Nat /\ DOMAIN m_bindParamNodes = 1..len /\ \A i \in 1..len : m_bindParamNodes[i] \in Object
  BY DEF Typed
<1>3. m_bindParamNodes' = [i \in 1..len |-> IF i <= n THEN new(i) ELSE old(i)]
  BY <1>2 DEF SetStrings
<1>4. ASSUME NEW i \in 1..len, i <= n PROVE new(i) \in Object /\ new(i).intact
  <2>1. i - 1 \in 0..Len(sizes) /\ i \in 0..Len(sizes)
    BY <1>2, <1>4
  <2>2. StringEnd(sizes, i - 1) \in Nat /\ StringEnd(sizes, i) \in Nat
    BY <1>1, <2>1, StringEnds
  <2>. QED  BY <2>2 DEF Object
<1>5. ASSUME NEW i \in 1..len PROVE old(i) \in Object
  BY <1>2 DEF Overwrite, Object
<1>. HIDE DEF len, new, old
<1>6. \A i \in 1..len : (IF i <= n THEN new(i) ELSE old(i)) \in Object
  BY <1>4, <1>5
<1>7. m_bindParamNodes' \in [1..len -> Object]
  BY <1>3, <1>6
<1>8. m_bindParamNodes' \in Seq(Object) /\ Len(m_bindParamNodes') = len /\ DOMAIN m_bindParamNodes' = 1..len
  BY <1>2, <1>7
<1>. QED  BY <1>3, <1>4, <1>8 DEF len

\* What a Bind of a statement puts into the arena
LEMMA SizesOfStrings ==
  ASSUME NEW s \in Statements, NEW sizes \in [1..s.params -> StringSizes]
  PROVE  sizes \in Seq(Nat) /\ Len(sizes) = s.params
<1>1. s.params \in Nat
  BY ArenaAssumption
<1>2. \A i \in 1..s.params : sizes[i] \in Nat
  BY ArenaAssumption
<1>. HIDE DEF Max
<1>. QED  BY <1>1, <1>2

\* What parse() leaves of the arena
LEMMA ParseLeaves ==
  ASSUME Typed, NEW s \in Statements, NEW throws \in BOOLEAN, ParseSql(s, throws)
  PROVE  /\ m_iCurrent' \in 0..BlockSize
         /\ m_bindParamNodes' \in Seq(Object)
         /\ tree' = <<>> \/ \E size \in Nat : tree' = NewTree(s, size) /\ m_iCurrent' = size
         /\ ~throws /\ s.kind # "bypassed" => tree' # <<>> /\ m_iCurrent' = s.size
         /\ DOMAIN m_pPlan' = DOMAIN m_pPlan
<1>1. /\ BlockSize \in Nat /\ s.size \in Nat /\ s.params \in Nat
      /\ m_iCurrent \in 0..BlockSize /\ m_bindParamNodes \in Seq(Object)
  BY ArenaAssumption DEF Typed
<1>2. \A n \in Nat : [i \in 1..n |-> Unbound] \in Seq(Object)
  BY DEF Unbound, Object
<1>3. CASE s.kind = "bypassed"
  <2>1. tree' = <<>> /\ m_iCurrent' = m_iCurrent /\ m_bindParamNodes' = m_bindParamNodes /\ m_pPlan' = m_pPlan
    BY <1>3 DEF ParseSql, Bypass
  <2>. QED  BY <1>1, <1>3, <2>1
<1>4. CASE s.kind # "bypassed" /\ Stops(s)
  <2>1. throws
    BY <1>4 DEF ParseSql
  <2>2. PICK built \in 0..(IF s.size > BlockSize THEN BlockSize ELSE s.size), n \in 0..s.params :
          \E left \in TreesLeft(s, built) : Parse(InitParse(built, n), left)
    BY <1>4 DEF ParseSql
  <2>3. /\ tree' \in TreesLeft(s, built) /\ m_iCurrent' = built
        /\ m_bindParamNodes' = [i \in 1..n |-> Unbound] /\ DOMAIN m_pPlan' = DOMAIN m_pPlan
    BY <2>2 DEF Parse, InitParse, OverwritePlan
  <2>4. built \in 0..BlockSize /\ built \in Nat /\ n \in Nat
    BY <1>1
  <2>5. tree' = <<>> \/ tree' = NewTree(s, built)
    BY <2>3 DEF TreesLeft
  <2>6. m_bindParamNodes' \in Seq(Object)
    BY <1>2, <2>3, <2>4
  <2>. QED  BY <2>1, <2>3, <2>4, <2>5, <2>6
<1>5. CASE s.kind # "bypassed" /\ ~Stops(s)
  <2>1. Parse(InitParse(s.size, s.params), NewTree(s, s.size))
    BY <1>5 DEF ParseSql
  <2>2. /\ tree' = NewTree(s, s.size) /\ tree' # <<>> /\ m_iCurrent' = s.size
        /\ m_bindParamNodes' = [i \in 1..s.params |-> Unbound] /\ DOMAIN m_pPlan' = DOMAIN m_pPlan
    BY <2>1 DEF Parse, InitParse, NewTree, OverwritePlan
  <2>3. s.size <= BlockSize
    BY <1>1, <1>5 DEF Stops
  <2>4. m_bindParamNodes' \in Seq(Object)
    BY <1>1, <1>2, <2>2
  <2>. QED  BY <1>1, <2>2, <2>3, <2>4
<1>. QED  BY <1>3, <1>4, <1>5

-----------------------------------------------------------------------------
(* Every handler keeps the invariant.                                       *)

\* The client that starts afresh
LEMMA IdleClient ==
  ASSUME Typed
  PROVE  /\ Idle.state = "idle" /\ Idle.last = <<>>
         /\ Idle \in [state : {"idle", "parsed", "bound"}, last : {<<>>} \cup {<<s>> : s \in Statements}]
         /\ \A s : Idle.last # <<s>>
BY DEF Idle

\* A plan that a failure has left stays one as long as nothing is bound.
LEMMA PlanStays ==
  ASSUME PlanExpected, ~executing, client.state # "bound",
         DOMAIN m_pPlan' = DOMAIN m_pPlan, planLeft' = planLeft, described' = "nothing"
  PROVE  PlanExpected'
BY DEF PlanExpected

\* A handler after which nothing is executed and the client starts afresh keeps
\* it if the arena and the tree are well-formed.
LEMMA StartsAfresh ==
  ASSUME Typed, m_iCurrent' \in 0..BlockSize, m_iMark' \in 0..BlockSize, m_bindParamNodes' \in Seq(Object),
         TreeThere', client' = Idle, ~executing', PlanExpected', refused' # "space"
  PROVE  ArenaInv'
<1>1. /\ client'.state = "idle" /\ client'.last = <<>>
      /\ client' \in [state : {"idle", "parsed", "bound"}, last : {<<>>} \cup {<<s>> : s \in Statements}]
      /\ \A s : client'.last # <<s>>
  BY IdleClient
<1>2. Typed'
  BY <1>1 DEF Typed
<1>3. TreeInUse' /\ OnlyTree' /\ PlanThere'
  BY <1>1 DEF TreeInUse, OnlyTree, LastParsed, PlanThere
<1>. QED  BY <1>2, <1>3 DEF ArenaInv

\* handleParse
LEMMA ParseKeeps ==
  ASSUME ArenaInv, HandleParse
  PROVE  ArenaInv'
<1>1. PICK s \in Statements, throws \in BOOLEAN :
        /\ ParseSql(s, throws)
        /\ IF throws \/ Len(m_bindParamNodes') # s.params
           THEN client' = Idle /\ Handled("statement")
           ELSE client' = HasParsed(s) /\ Handled("no")
  BY DEF HandleParse
<1>2. Typed /\ ~executing' /\ m_iMark' = m_iMark
  BY DEF ArenaInv, HandleParse, Typed
<1>3. /\ m_iCurrent' \in 0..BlockSize
      /\ m_bindParamNodes' \in Seq(Object)
      /\ tree' = <<>> \/ \E size \in Nat : tree' = NewTree(s, size) /\ m_iCurrent' = size
      /\ ~throws /\ s.kind # "bypassed" => tree' # <<>> /\ m_iCurrent' = s.size
      /\ DOMAIN m_pPlan' = DOMAIN m_pPlan
  BY <1>1, <1>2, ParseLeaves
<1>4. m_iMark' \in 0..BlockSize
  BY <1>2 DEF Typed
<1>5. TreeThere'
  BY <1>3 DEF TreeThere, NewTree
<1>8. PlanExpected'
  <2>1. ~executing /\ client.state # "bound" /\ planLeft' = planLeft
    BY DEF HandleParse, MayParse
  <2>2. described' = "nothing"
    BY <1>1 DEF Handled
  <2>. QED  BY <1>3, <2>1, <2>2, PlanStays DEF ArenaInv
<1>6. CASE throws \/ Len(m_bindParamNodes') # s.params
  <2>1. client' = Idle /\ refused' = "statement"
    BY <1>1, <1>6 DEF Handled
  <2>. QED  BY <1>2, <1>3, <1>4, <1>5, <1>8, <2>1, StartsAfresh
<1>7. CASE ~(throws \/ Len(m_bindParamNodes') # s.params)
  <2>1. client' = HasParsed(s) /\ refused' = "no"
    BY <1>1, <1>7 DEF Handled
  <2>2. /\ client'.state = "parsed" /\ client'.last = <<s>>
        /\ client' \in [state : {"idle", "parsed", "bound"}, last : {<<>>} \cup {<<x>> : x \in Statements}]
    BY <2>1 DEF HasParsed
  <2>3. Typed'
    BY <1>2, <1>3, <1>4, <2>2 DEF Typed
  <2>4. m_iCurrent' \in Nat
    BY <1>3, ArenaAssumption
  <2>5. tree' # <<>> => tree'[1].nodes.hi = m_iCurrent'
    BY <1>3 DEF NewTree
  <2>6. TreeInUse'
    BY <2>2, <2>4, <2>5 DEF TreeInUse
  <2>8. OnlyTree'
    <3>. SUFFICES ASSUME NEW x \in Statements, client'.last = <<x>>, x.kind # "bypassed"
                  PROVE  m_iCurrent' = x.size
      BY <2>2 DEF OnlyTree, LastParsed, InUse
    <3>1. x = s
      BY <2>2
    <3>. QED  BY <1>3, <1>7, <3>1
  <2>9. PlanThere'
    BY <1>2, <2>2 DEF PlanThere
  <2>. QED  BY <1>5, <1>8, <2>1, <2>3, <2>6, <2>8, <2>9 DEF ArenaInv
<1>. QED  BY <1>6, <1>7

\* handleBind: readBindParam throws.
LEMMA UnmatchedKeeps ==
  ASSUME ArenaInv, BindUnmatched
  PROVE  ArenaInv'
<1>1. Typed /\ m_iCurrent' = m_iCurrent /\ m_iMark' = m_iCurrent /\ m_bindParamNodes' = m_bindParamNodes
      /\ tree' = tree /\ client' = Idle /\ ~executing' /\ refused' = "params"
  BY DEF ArenaInv, BindUnmatched, Mark, Handled
<1>2. TreeThere'
  BY <1>1 DEF ArenaInv, TreeThere, NewTree
<1>3. m_iCurrent' \in 0..BlockSize /\ m_iMark' \in 0..BlockSize /\ m_bindParamNodes' \in Seq(Object)
  BY <1>1 DEF Typed
<1>4. PlanExpected'
  <2>1. ~executing /\ client.state # "bound" /\ planLeft' = planLeft /\ described' = "nothing" /\ m_pPlan' = m_pPlan
    BY DEF BindUnmatched, MayBind, Handled
  <2>. QED  BY <2>1, PlanStays DEF ArenaInv
<1>. QED  BY <1>1, <1>2, <1>3, <1>4, StartsAfresh

\* handleBind: a string does not fit, or no plan can be built.
LEMMA BindFailsKeeps ==
  ASSUME ArenaInv, BindFails
  PROVE  ArenaInv'
<1>0. PICK s \in Statements :
        /\ MayBind(s) /\ Len(m_bindParamNodes) = s.params
        /\ \E sizes \in [1..s.params -> StringSizes] :
             /\ SetStrings(sizes, Max(Fitting(sizes)))
             /\ refused' = CASE Max(Fitting(sizes)) = Len(sizes) \/ s.size + FoldLeft(+, 0, sizes) > BlockSize
                                            -> "statement"
                             [] failedSince -> "leaked"
                             [] OTHER       -> "space"
             /\ described' = "nothing" /\ DOMAIN m_pPlan' = DOMAIN m_pPlan
  BY Zenon DEF BindFails, Handled
<1>1. PICK sizes \in [1..s.params -> StringSizes] :
        /\ SetStrings(sizes, Max(Fitting(sizes)))
        /\ refused' = CASE Max(Fitting(sizes)) = Len(sizes) \/ s.size + FoldLeft(+, 0, sizes) > BlockSize
                                       -> "statement"
                        [] failedSince -> "leaked"
                        [] OTHER       -> "space"
        /\ described' = "nothing" /\ DOMAIN m_pPlan' = DOMAIN m_pPlan
  BY <1>0, Zenon
<1>. DEFINE n   == Max(Fitting(sizes))
            sum == FoldLeft(+, 0, sizes)
<1>2. Typed /\ TreeThere /\ TreeInUse /\ OnlyTree /\ client' = Idle /\ ~executing'
  <2>1. Typed /\ TreeThere /\ TreeInUse /\ OnlyTree
    BY DEF ArenaInv
  <2>2. client' = Idle /\ ~executing /\ UNCHANGED executing
    BY Zenon DEF BindFails
  <2>. QED  BY <2>1, <2>2
<1>3. sizes \in Seq(Nat) /\ Len(sizes) = s.params
  BY SizesOfStrings
<1>4. /\ m_iCurrent \in 0..BlockSize /\ m_iCurrent \in Nat /\ BlockSize \in Nat /\ s.size \in Nat
      /\ client.last = <<s>> /\ client.last # <<>> /\ client.state # "bound"
  <2>1. client.last = <<s>> /\ client.state # "bound"
    BY <1>0, Zenon DEF MayBind
  <2>2. m_iCurrent \in 0..BlockSize /\ BlockSize \in Nat /\ s.size \in Nat
    BY <1>2, ArenaAssumption DEF Typed
  <2>. QED  BY <2>1, <2>2
<1>5. n \in 0..Len(sizes) /\ StringEnd(sizes, n) <= BlockSize /\ (Len(sizes) \in Fitting(sizes) => n = Len(sizes))
  BY <1>3, <1>4, MostFitting
<1>6. StringEnd(sizes, Len(sizes)) = m_iCurrent + sum /\ sum \in Nat
  BY <1>3, <1>4, AllStrings
<1>7. /\ SetStrings(sizes, n)
      /\ refused' = CASE n = Len(sizes) \/ s.size + sum > BlockSize -> "statement"
                      [] failedSince -> "leaked"
                      [] OTHER       -> "space"
  BY <1>1
<1>. HIDE DEF n, sum
<1>8. /\ m_iMark' = m_iCurrent /\ m_iCurrent' \in 0..BlockSize /\ tree' = tree
  BY <1>2, <1>3, <1>4, <1>5, <1>7, StringsKeepTree
<1>9. m_bindParamNodes' \in Seq(Object)
  BY <1>2, <1>3, <1>5, <1>7, StringsThere
<1>10. TreeThere'
  BY <1>2, <1>8 DEF TreeThere, NewTree
<1>11. refused' # "space"
  <2>. SUFFICES ASSUME n # Len(sizes), ~(s.size + sum > BlockSize), ~failedSince PROVE FALSE
    BY <1>7
  <2>1. s.kind # "bypassed"
    BY <1>3, <1>5, ArenaAssumption
  <2>2. m_iCurrent = s.size
    BY <1>2, <1>4, <2>1 DEF OnlyTree, LastParsed, InUse
  <2>3. Len(sizes) \in Fitting(sizes)
    BY <1>3, <1>4, <1>6, <2>2 DEF Fitting
  <2>. QED  BY <1>5, <2>3
<1>12. PlanExpected'
  <2>1. ~executing /\ planLeft' = planLeft
    BY Zenon DEF BindFails
  <2>2. client.state # "bound"
    BY <1>4
  <2>. QED  BY <1>1, <2>1, <2>2, PlanStays DEF ArenaInv
<1>. QED  BY <1>2, <1>4, <1>8, <1>9, <1>10, <1>11, <1>12, StartsAfresh

\* The plan of a statement whose tree is there and whose parameters have their
\* strings
LEMMA NewPlanThere ==
  ASSUME NEW newTree, newTree = <<>> \/ \E s \in Statements, size \in Nat : newTree = NewTree(s, size),
         newTree # <<>> => \A i \in DOMAIN m_bindParamNodes' : m_bindParamNodes'[i].intact,
         m_pPlan' = NewPlan(newTree)
  PROVE  \A i \in DOMAIN m_pPlan' :
           /\ m_pPlan'[i].nodes.intact
           /\ \A j \in DOMAIN m_pPlan'[i].strings : m_pPlan'[i].strings[j].intact
           /\ m_pPlan'[i].own
<1>1. CASE newTree = <<>>
  <2>1. m_pPlan' = <<[nodes |-> Unbound, strings |-> <<>>, own |-> TRUE]>>
    BY <1>1 DEF NewPlan
  <2>. QED  BY <2>1 DEF Unbound
<1>2. CASE newTree # <<>>
  <2>1. m_pPlan' = <<[nodes |-> newTree[1].nodes, strings |-> m_bindParamNodes', own |-> TRUE]>>
    BY <1>2 DEF NewPlan
  <2>2. newTree[1].nodes.intact
    BY <1>2 DEF NewTree
  <2>. QED  BY <1>2, <2>1, <2>2
<1>. QED  BY <1>1, <1>2

\* handleBind
LEMMA BindKeeps ==
  ASSUME ArenaInv, HandleBind
  PROVE  ArenaInv'
<1>1. PICK s \in Statements :
        /\ MayBind(s) /\ Len(m_bindParamNodes) = s.params
        /\ \E sizes \in [1..s.params -> StringSizes] :
             /\ Len(sizes) \in Fitting(sizes)
             /\ SetStrings(sizes, Len(sizes))
             /\ client' = [client EXCEPT !.state = "bound"]
  BY Zenon DEF HandleBind
<1>2. PICK sizes \in [1..s.params -> StringSizes] :
        /\ Len(sizes) \in Fitting(sizes)
        /\ SetStrings(sizes, Len(sizes))
        /\ client' = [client EXCEPT !.state = "bound"]
  BY <1>1, Zenon
<1>3. /\ ~executing' /\ failedSince' = failedSince /\ refused' = "no" /\ described' = "nothing"
      /\ m_pPlan' = NewPlan(tree')
  BY DEF HandleBind, Handled
<1>4. Typed /\ TreeThere /\ TreeInUse /\ OnlyTree
  BY DEF ArenaInv
<1>5. sizes \in Seq(Nat) /\ Len(sizes) = s.params /\ s.params \in Nat /\ Len(sizes) \in 0..Len(sizes)
  BY SizesOfStrings, ArenaAssumption
<1>6. client.last = <<s>> /\ client.last # <<>> /\ client.state # "bound"
  <2>1. client.last = <<s>> /\ client.state # "bound"
    BY <1>1, Zenon DEF MayBind
  <2>. QED  BY <2>1
<1>7. m_iCurrent \in 0..BlockSize /\ BlockSize \in Nat
  BY <1>4, ArenaAssumption DEF Typed
<1>8. StringEnd(sizes, Len(sizes)) <= BlockSize
  BY <1>2 DEF Fitting
<1>9. m_iMark' = m_iCurrent /\ m_iCurrent' \in 0..BlockSize /\ m_iCurrent' >= m_iCurrent /\ tree' = tree
  BY <1>2, <1>4, <1>5, <1>6, <1>8, StringsKeepTree
<1>10. /\ m_bindParamNodes' \in Seq(Object) /\ Len(m_bindParamNodes') = s.params
       /\ \A i \in DOMAIN m_bindParamNodes' : i <= s.params => m_bindParamNodes'[i].intact
  BY <1>1, <1>2, <1>4, <1>5, StringsThere
<1>11. /\ client'.state = "bound" /\ client'.last = client.last
       /\ client' \in [state : {"idle", "parsed", "bound"}, last : {<<>>} \cup {<<x>> : x \in Statements}]
  BY <1>2, <1>4 DEF Typed
<1>12. Typed'
  BY <1>3, <1>6, <1>7, <1>9, <1>10, <1>11 DEF Typed
<1>13. TreeThere'
  BY <1>4, <1>9 DEF TreeThere, NewTree
<1>14. TreeInUse'
  <2>. SUFFICES ASSUME tree # <<>>
                PROVE  tree[1].nodes.hi <= m_iCurrent' /\ tree[1].nodes.hi <= m_iMark'
    BY <1>9 DEF TreeInUse
  <2>1. tree[1].nodes.hi \in Nat
    BY <1>4 DEF TreeThere, NewTree
  <2>2. tree[1].nodes.hi <= m_iCurrent
    BY <1>4, <1>6 DEF TreeInUse
  <2>. QED  BY <1>7, <1>9, <2>1, <2>2
<1>15. OnlyTree'
  <2>1. InUse = m_iCurrent /\ InUse' = m_iCurrent
    BY <1>6, <1>9, <1>11 DEF InUse
  <2>. QED  BY <1>3, <1>4, <1>11, <2>1 DEF OnlyTree, LastParsed
<1>16. PlanThere'
  <2>1. \A i \in DOMAIN m_bindParamNodes' : m_bindParamNodes'[i].intact
    <3>1. DOMAIN m_bindParamNodes' = 1..s.params
      BY <1>10
    <3>. QED  BY <1>5, <1>10, <3>1
  <2>. QED  BY <1>3, <1>13, <2>1, NewPlanThere DEF PlanThere, TreeThere, NewTree
<1>17. PlanExpected'
  BY <1>3, <1>11 DEF PlanExpected
<1>. QED  BY <1>3, <1>12, <1>13, <1>14, <1>15, <1>16, <1>17 DEF ArenaInv

\* handleQuery: parse() or resolve() throws.
LEMMA QueryFailsKeeps ==
  ASSUME ArenaInv, QueryFails
  PROVE  ArenaInv'
<1>1. PICK s \in Queryable, throws \in BOOLEAN : ParseSql(s, throws)
  BY DEF QueryFails
<1>2. Typed /\ ~executing' /\ m_iMark' = m_iMark /\ client' = Idle /\ refused' = "statement"
  BY DEF ArenaInv, QueryFails, Handled
<1>3. s \in Statements
  BY DEF Queryable
<1>4. /\ m_iCurrent' \in 0..BlockSize
      /\ m_bindParamNodes' \in Seq(Object)
      /\ tree' = <<>> \/ \E size \in Nat : tree' = NewTree(s, size)
      /\ DOMAIN m_pPlan' = DOMAIN m_pPlan
  BY <1>1, <1>2, <1>3, ParseLeaves
<1>5. TreeThere'
  BY <1>3, <1>4 DEF TreeThere, NewTree
<1>6. m_iMark' \in 0..BlockSize
  BY <1>2 DEF Typed
<1>7. PlanExpected'
  <2>1. ~executing /\ client.state # "bound" /\ planLeft' = planLeft /\ described' = "nothing"
    BY DEF QueryFails, MayQuery, Handled
  <2>. QED  BY <1>4, <2>1, PlanStays DEF ArenaInv
<1>. QED  BY <1>2, <1>4, <1>5, <1>6, <1>7, StartsAfresh

\* handleQuery
LEMMA QueryKeeps ==
  ASSUME ArenaInv, HandleQuery
  PROVE  ArenaInv'
<1>1. PICK s \in Queryable :
        /\ s.kind = "bypassed" \/ (s.kind = "ok" /\ ~Stops(s))
        /\ tree' = IF s.kind = "bypassed" THEN <<>> ELSE NewTree(s, s.size)
        /\ m_iCurrent' = IF s.kind = "bypassed" THEN m_iCurrent ELSE InitParse(s.size, 0).current
        /\ m_bindParamNodes' = IF s.kind = "bypassed" THEN m_bindParamNodes ELSE InitParse(s.size, 0).params
  BY DEF HandleQuery
<1>2. /\ client' = Idle /\ m_pPlan' = NewPlan(tree') /\ executing' = TRUE /\ refused' = "no" /\ described' = "nothing"
      /\ m_iMark' = m_iMark
  BY DEF HandleQuery, Handled
<1>3. Typed
  BY DEF ArenaInv
<1>4. s \in Statements /\ s.size \in Nat /\ BlockSize \in Nat
  BY ArenaAssumption DEF Queryable
<1>5. InitParse(s.size, 0).current = s.size /\ InitParse(s.size, 0).params = [i \in 1..0 |-> Unbound]
  BY DEF InitParse
<1>6. m_iCurrent' \in 0..BlockSize
  BY <1>1, <1>3, <1>4, <1>5 DEF Typed, Stops
<1>7. [i \in 1..0 |-> Unbound] \in Seq(Object) /\ DOMAIN [i \in 1..0 |-> Unbound] = {}
  BY DEF Unbound, Object
<1>8. m_bindParamNodes' \in Seq(Object)
  BY <1>1, <1>3, <1>5, <1>7 DEF Typed
<1>9. TreeThere'
  BY <1>1, <1>4 DEF TreeThere, NewTree
<1>10. /\ client'.state = "idle" /\ client'.last = <<>>
       /\ client' \in [state : {"idle", "parsed", "bound"}, last : {<<>>} \cup {<<x>> : x \in Statements}]
       /\ \A x : client'.last # <<x>>
  BY <1>2, <1>3, IdleClient
<1>11. Typed'
  BY <1>2, <1>3, <1>6, <1>8, <1>10 DEF Typed
<1>12. TreeInUse' /\ OnlyTree'
  BY <1>10 DEF TreeInUse, OnlyTree, LastParsed
<1>13. PlanThere'
  <2>1. tree' = <<>> \/ \E x \in Statements, size \in Nat : tree' = NewTree(x, size)
    BY <1>1, <1>4
  <2>2. tree' # <<>> => \A i \in DOMAIN m_bindParamNodes' : m_bindParamNodes'[i].intact
    BY <1>1, <1>5, <1>7
  <2>. QED  BY <1>2, <2>1, <2>2, NewPlanThere DEF PlanThere
<1>14. PlanExpected'
  BY <1>2 DEF PlanExpected
<1>. QED  BY <1>2, <1>9, <1>11, <1>12, <1>13, <1>14 DEF ArenaInv

\* The execution of a plan: it is started, done, or fails.
LEMMA ExecutionKeeps ==
  ASSUME ArenaInv, HandleExecution \/ HandleExecutionDone \/ ExecutionFails
  PROVE  ArenaInv'
<1>1. Typed /\ TreeThere /\ TreeInUse /\ OnlyTree /\ PlanThere /\ PlanExpected /\ refused # "space"
  BY DEF ArenaInv
<1>2. CASE HandleExecution
  <2>1. /\ executing' = TRUE /\ client.state = "bound"
        /\ UNCHANGED <<m_iCurrent, m_iMark, tree, m_bindParamNodes, m_pPlan, client, failedSince, planLeft>>
        /\ refused' = "no" /\ described' = "nothing"
    BY <1>2 DEF HandleExecution, MayExecute, Handled
  <2>2. Typed'
    BY <1>1, <2>1 DEF Typed
  <2>3. TreeThere' /\ TreeInUse' /\ OnlyTree' /\ PlanThere'
    BY <1>1, <2>1 DEF TreeThere, NewTree, TreeInUse, OnlyTree, LastParsed, InUse, PlanThere
  <2>4. PlanExpected'
    BY <2>1 DEF PlanExpected
  <2>. QED  BY <1>1, <2>1, <2>2, <2>3, <2>4 DEF ArenaInv
<1>3. CASE HandleExecutionDone \/ ExecutionFails
  <2>1. /\ executing /\ ~executing' /\ client' = [client EXCEPT !.state = "idle"]
        /\ UNCHANGED <<m_iMark, tree, m_bindParamNodes>>
        /\ refused' # "space" /\ described' = "nothing"
        /\ \/ m_iCurrent' = m_iMark /\ failedSince' = failedSince /\ m_pPlan' = <<>>
           \/ m_iCurrent' = m_iCurrent /\ failedSince' = TRUE /\ planLeft' = TRUE
    BY <1>1, <1>3 DEF HandleExecutionDone, ExecutionFails, Restored, PlanDropped, Handled
  <2>2. /\ client'.state = "idle" /\ client'.last = client.last
        /\ client' \in [state : {"idle", "parsed", "bound"}, last : {<<>>} \cup {<<s>> : s \in Statements}]
    BY <1>1, <2>1 DEF Typed
  <2>3. Typed'
    BY <1>1, <2>1, <2>2 DEF Typed
  <2>4. TreeThere'
    BY <1>1, <2>1 DEF TreeThere, NewTree
  <2>5. client.last # <<>> => client.state = "bound"
    BY <1>1, <2>1 DEF Typed
  <2>6. TreeInUse'
    BY <1>1, <2>1, <2>2, <2>5 DEF TreeInUse
  <2>7. OnlyTree'
    <3>. SUFFICES ASSUME NEW s \in Statements, ~failedSince', client.last = <<s>>, s.kind # "bypassed"
                  PROVE  m_iCurrent' = s.size
      BY <2>2 DEF OnlyTree, LastParsed, InUse
    <3>1. client.state = "bound" /\ ~failedSince /\ m_iCurrent' = m_iMark
      BY <2>1, <2>5
    <3>. QED  BY <1>1, <3>1 DEF OnlyTree, LastParsed, InUse
  <2>8. PlanThere' /\ PlanExpected'
    BY <2>1, <2>2 DEF PlanThere, PlanExpected
  <2>. QED  BY <2>1, <2>3, <2>4, <2>6, <2>7, <2>8 DEF ArenaInv
<1>. QED  BY <1>2, <1>3

\* handleDescription: it reads the names of a plan that is bound, and nothing else
\* unless something has left a plan.
LEMMA DescriptionKeeps ==
  ASSUME ArenaInv, HandleDescription \/ DescriptionFails
  PROVE  ArenaInv'
<1>1. Typed /\ TreeThere /\ TreeInUse /\ OnlyTree /\ PlanThere /\ PlanExpected
  BY DEF ArenaInv
<1>2. CASE HandleDescription
  <2>1. /\ ~executing /\ refused' = "no"
        /\ described' = "overwritten" => \E i \in DOMAIN m_pPlan : ~m_pPlan[i].nodes.intact
        /\ UNCHANGED <<m_iCurrent, m_iMark, tree, m_bindParamNodes, m_pPlan, executing, client, failedSince, planLeft>>
    BY <1>2 DEF HandleDescription
  <2>2. Typed' /\ TreeThere'
    BY <1>1, <2>1 DEF Typed, TreeThere, NewTree
  <2>3. TreeInUse' /\ OnlyTree' /\ PlanThere'
    BY <1>1, <2>1 DEF TreeInUse, OnlyTree, LastParsed, InUse, PlanThere
  <2>4. PlanExpected'
    BY <1>1, <2>1 DEF PlanThere, PlanExpected
  <2>. QED  BY <2>1, <2>2, <2>3, <2>4 DEF ArenaInv
<1>3. CASE DescriptionFails
  <2>1. /\ ~executing' /\ client' = Idle /\ refused' = "description" /\ planLeft'
        /\ UNCHANGED <<m_iCurrent, m_iMark, tree, m_bindParamNodes>>
    BY <1>3 DEF DescriptionFails, Handled
  <2>2. TreeThere' /\ PlanExpected'
    BY <1>1, <2>1 DEF TreeThere, NewTree, PlanExpected
  <2>3. m_iCurrent' \in 0..BlockSize /\ m_iMark' \in 0..BlockSize /\ m_bindParamNodes' \in Seq(Object)
    BY <1>1, <2>1 DEF Typed
  <2>. QED  BY <1>1, <2>1, <2>2, <2>3, StartsAfresh
<1>. QED  BY <1>2, <1>3

\* end() and start(): another client, another arena
LEMMA ReconnectKeeps ==
  ASSUME ArenaInv, Reconnect
  PROVE  ArenaInv'
<1>1. /\ m_iCurrent' = 0 /\ m_iMark' = 0 /\ tree' = <<>> /\ m_bindParamNodes' = <<>>
      /\ ~executing' /\ client' = Idle /\ refused' = "no" /\ described' = "nothing"
      /\ DOMAIN m_pPlan' = DOMAIN m_pPlan /\ (m_pPlan # <<>> => planLeft')
  BY DEF Reconnect, Handled
<1>2. PlanExpected'
  <2>1. CASE m_pPlan = <<>>
    <3>1. DOMAIN m_pPlan = {}
      BY <2>1
    <3>. QED  BY <1>1, <3>1 DEF PlanExpected
  <2>2. CASE m_pPlan # <<>>
    BY <1>1, <2>2 DEF PlanExpected
  <2>. QED  BY <2>1, <2>2
<1>3. TreeThere'
  BY <1>1 DEF TreeThere
<1>4. m_iCurrent' \in 0..BlockSize /\ m_iMark' \in 0..BlockSize /\ m_bindParamNodes' \in Seq(Object)
  BY <1>1, ArenaAssumption
<1>. QED  BY <1>1, <1>2, <1>3, <1>4, StartsAfresh DEF ArenaInv

-----------------------------------------------------------------------------
(* Theorems                                                                 *)

\* The inductive invariant of the arena
THEOREM ArenaTheorem == Spec => []ArenaInv
<1>1. Init => ArenaInv
  <2>. SUFFICES ASSUME Init PROVE ArenaInv
    OBVIOUS
  <2>1. /\ m_iCurrent = 0 /\ m_iMark = 0 /\ tree = <<>> /\ m_bindParamNodes = <<>> /\ m_pPlan = <<>>
        /\ ~executing /\ client = Idle /\ refused = "no" /\ described = "nothing" /\ BlockSize \in Nat
    BY ArenaAssumption DEF Init
  <2>2. /\ client.state = "idle" /\ client.last = <<>>
        /\ client \in [state : {"idle", "parsed", "bound"}, last : {<<>>} \cup {<<s>> : s \in Statements}]
        /\ \A s : client.last # <<s>>
    BY <2>1 DEF Idle
  <2>3. <<>> \in Seq(Object)
    OBVIOUS
  <2>4. Typed
    BY <2>1, <2>2, <2>3 DEF Typed
  <2>5. TreeThere /\ TreeInUse /\ OnlyTree /\ PlanThere /\ PlanExpected
    BY <2>1, <2>2 DEF TreeThere, TreeInUse, OnlyTree, LastParsed, PlanThere, PlanExpected
  <2>. QED  BY <2>1, <2>4, <2>5 DEF ArenaInv
<1>2. ArenaInv /\ [Next]_vars => ArenaInv'
  <2>. SUFFICES ASSUME ArenaInv, [Next]_vars PROVE ArenaInv'
    OBVIOUS
  <2>1. CASE UNCHANGED vars
    BY <2>1 DEF vars, handled, ArenaInv, Typed, TreeThere, NewTree, TreeInUse, OnlyTree, LastParsed, InUse,
                PlanThere, PlanExpected
  <2>2. CASE HandleParse
    BY <2>2, ParseKeeps
  <2>3. CASE BindUnmatched
    BY <2>3, UnmatchedKeeps
  <2>4. CASE BindFails
    BY <2>4, BindFailsKeeps
  <2>5. CASE HandleBind
    BY <2>5, BindKeeps
  <2>6. CASE HandleQuery
    BY <2>6, QueryKeeps
  <2>7. CASE QueryFails
    BY <2>7, QueryFailsKeeps
  <2>8. CASE HandleExecution \/ HandleExecutionDone \/ ExecutionFails
    BY <2>8, ExecutionKeeps
  <2>9. CASE HandleDescription \/ DescriptionFails
    BY <2>9, DescriptionKeeps
  <2>10. CASE Reconnect
    BY <2>10, ReconnectKeeps
  <2>. QED  BY <2>1, <2>2, <2>3, <2>4, <2>5, <2>6, <2>7, <2>8, <2>9, <2>10 DEF Next
<1>. QED  BY <1>1, <1>2, PTL DEF Spec

\* Nothing that resolve() or an execution reads has been given to something else
\* since it was written, although mark() and restore() move the end of the arena
\* back and forth (ParseResult::restore, handleBind); and neither have the names
\* that Describe reads, unless the plan was left by a failed execution, a failed
\* Describe or the previous client (handleDescription).
THEOREM IntactTheorem == Spec => []ArenaIntact
<1>1. ArenaInv => ArenaIntact
  <2>. SUFFICES ASSUME ArenaInv PROVE ArenaIntact
    OBVIOUS
  <2>1. \A i \in DOMAIN tree : tree[i].nodes.intact
    <3>1. CASE tree = <<>>
      BY <3>1
    <3>2. CASE \E s \in Statements, size \in Nat : tree = NewTree(s, size)
      BY <3>2 DEF NewTree
    <3>. QED  BY <3>1, <3>2 DEF ArenaInv, TreeThere
  <2>. QED  BY <2>1 DEF ArenaInv, PlanThere, PlanExpected, ArenaIntact, MayExecute
<1>. QED  BY <1>1, ArenaTheorem, PTL

\* A Bind whose strings fit behind its statement is not refused for lack of
\* space, however many were bound and executed before it.
THEOREM BindTheorem == Spec => []BindFits
<1>1. ArenaInv => BindFits
  BY DEF ArenaInv, BindFits
<1>. QED  BY <1>1, ArenaTheorem, PTL
=============================================================================
