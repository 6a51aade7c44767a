--------------------------- MODULE KeySearchRange ---------------------------
(***************************************************************************)
(* The key range that a conjunction of predicates is turned into           *)
(* (execution/KeySearchRange.{h,cpp}), and the part of the conjunction     *)
(* that scanning the range makes superfluous.                              *)
(*                                                                         *)
(* A key has KeyCount columns with values in Min..Max, the smallest and    *)
(* the largest value of a type (setToMin, setToMax); keys are ordered by   *)
(* their first column, then by the second, and so on.  A predicate         *)
(* compares a key column with a constant, either side first; predicates    *)
(* on other columns, and operators such as LIKE, are never turned into a   *)
(* range and are represented here by "!=".  The text m_sExpr, by which the *)
(* code identifies a predicate, is the predicate itself.                   *)
(***************************************************************************)
EXTENDS Integers, Sequences, SequencesExt

CONSTANTS KeyCount, MinValue, MaxValue

ASSUME KeyAssumption ==
  /\ KeyCount \in Nat \ {0}
  /\ MinValue \in Int
  /\ MaxValue \in Int
  /\ MinValue <= MaxValue

Column == 1..KeyCount
Value  == MinValue..MaxValue
Key    == [Column -> Value]

Operation == {"=", "!=", "<=", "<", ">", ">="}
Predicate == [col: Column, op: Operation, val: Value, swapped: BOOLEAN]

-----------------------------------------------------------------------------
(* What predicates and keys mean.                                          *)

Compare(op, a, b) ==
  CASE op = "="  -> a = b
    [] op = "!=" -> a # b
    [] op = "<=" -> a <= b
    [] op = "<"  -> a < b
    [] op = ">"  -> a > b
    [] op = ">=" -> a >= b

\* Key k satisfies the predicate "col op val", or "val op col" if swapped.
Holds(p, k) ==
  IF p.swapped THEN Compare(p.op, p.val, k[p.col]) ELSE Compare(p.op, k[p.col], p.val)

\* DataRow::compare and the comparison loops of KeySearchRange.cpp: the first
\* column in which the keys differ decides.
KeyLess(a, b) ==
  \E i \in Column : a[i] < b[i] /\ \A j \in 1..(i - 1) : a[j] = b[j]

-----------------------------------------------------------------------------
(* Collecting the predicates of a conjunction.                             *)

\* A KeyPredicateInfo; Unset is the one that no predicate was assigned to.
Info(op, val, expr) == [op |-> op, val |-> val, expr |-> {expr}]
Unset == [op |-> "none", val |-> MinValue, expr |-> {}]

\* The operator seen from the side of the column
reverseOp == [op \in Operation |->
  CASE op = "<=" -> ">=" [] op = "<" -> ">" [] op = ">" -> "<" [] op = ">=" -> "<="
    [] OTHER -> op]

ColumnOp(p) == IF p.swapped THEN reverseOp[p.op] ELSE p.op

\* A predicate replaces an earlier one for the same bound unless that one has
\* the smaller scan range
Overrides(new, old) ==
  CASE new = ">"  -> old # "="
    [] new = ">=" -> old \notin {"=", ">"}
    [] new = "<=" -> old # "<"
    [] OTHER -> TRUE

\* doSetPredicate and setPredicateInfo for one predicate.  There is one upper
\* bound for the whole key, and one "=" or lower bound for each column.
SetPredicateInfo(ranges, p) ==
  LET op   == ColumnOp(p)
      info == Info(op, p.val, p)
  IN  CASE op \in {"=", ">", ">="} /\ Overrides(op, ranges.lower[p.col].op) ->
             [ranges EXCEPT !.lower[p.col] = info]
        [] op \in {"<", "<="} /\ Overrides(op, ranges.upper.op) ->
             [ranges EXCEPT !.upper = info, !.upperCol = p.col]
        [] OTHER -> ranges

NoRanges == [lower |-> [i \in Column |-> Unset], upper |-> Unset, upperCol |-> 0]

\* doSetPredicate for the conjunction c, a sequence of predicates
DoSetPredicate(c) == FoldLeft(SetPredicateInfo, NoRanges, c)

-----------------------------------------------------------------------------
(* The constructor: from the collected predicates to the range.            *)

\* The columns that can be used: "=" on a prefix of the key, and bounds on the
\* column after it.
InPrefix(s, i) == \A j \in 1..i : s.lower[j].op = "="
Usable(s, i)   == InPrefix(s, i - 1)

HasLower(s, i) == Usable(s, i) /\ s.lower[i].op \in {">", ">="}
HasUpper(s, i) == Usable(s, i) /\ s.lower[i].op # "=" /\ s.upperCol = i

\* pSolved: the predicates that hold for every key of the range
SolvedLower(s) ==
  UNION {s.lower[i].expr : i \in {j \in Column : InPrefix(s, j) \/ HasLower(s, j)}}

SolvedUpper(s) == IF \E i \in Column : HasUpper(s, i) THEN s.upper.expr ELSE {}

Solved(s) == SolvedLower(s) \cup SolvedUpper(s)

\* The first and the last key of the range, columns after the bounded one
\* filled so that every key with that value is inside or outside
StartValue(s, i) ==
  IF InPrefix(s, i) \/ HasLower(s, i) THEN s.lower[i].val
  ELSE IF \E j \in 1..(i - 1) : HasLower(s, j) /\ s.lower[j].op = ">" THEN MaxValue
  ELSE MinValue

\* Mutant of EndValue: the columns after an upper bound are filled with the
\* largest value whatever the operator.
EndValueMax(s, i) ==
  IF InPrefix(s, i) THEN s.lower[i].val
  ELSE IF HasUpper(s, i) THEN s.upper.val ELSE MaxValue

EndValue(s, i) ==
  IF InPrefix(s, i) THEN s.lower[i].val
  ELSE IF HasUpper(s, i) THEN s.upper.val
  ELSE IF (\E j \in 1..(i - 1) : HasUpper(s, j)) /\ s.upper.op = "<" THEN MinValue
  ELSE MaxValue

MakeRange(s) ==
  [start          |-> [i \in Column |-> StartValue(s, i)],
   end            |-> [i \in Column |-> EndValue(s, i)],
   startInclusive |-> ~\E i \in Column : HasLower(s, i) /\ s.lower[i].op = ">",
   endInclusive   |-> ~\E i \in Column : HasUpper(s, i) /\ s.upper.op = "<",
   seekToFirst    |-> ~InPrefix(s, 1) /\ ~\E i \in Column : HasLower(s, i),
   seekToLast     |-> ~InPrefix(s, 1) /\ ~\E i \in Column : HasUpper(s, i)]

-----------------------------------------------------------------------------
(* Using the range.                                                        *)

\* seekStart and exceedEndReversed: key k is not before the start
AfterStart(r, k) ==
  \/ r.seekToFirst
  \/ IF r.startInclusive THEN ~KeyLess(k, r.start) ELSE KeyLess(r.start, k)

\* seekStartReversed and exceedEnd: key k is not after the end
BeforeEnd(r, k) ==
  \/ r.seekToLast
  \/ IF r.endInclusive THEN ~KeyLess(r.end, k) ELSE KeyLess(k, r.end)

InRange(r, k) == AfterStart(r, k) /\ BeforeEnd(r, k)

\* compareStart < 0
StartsBefore(r, q) ==
  ~q.seekToFirst /\ (r.seekToFirst \/ KeyLess(r.start, q.start))

\* Range r starts after range q ends.
StartAfterEnd(r, q) ==
  /\ ~r.seekToFirst /\ ~q.seekToLast
  /\ \/ KeyLess(q.end, r.start)
     \/ q.end = r.start /\ (~q.endInclusive \/ ~r.startInclusive)

\* The bounds of the range are not the wrong way around, as those of k > 3 AND
\* k < 3 are.  Such ranges are not sorted out when a union is planned.
Proper(r) ==
  KeyLess(r.start, r.end) \/ (r.start = r.end /\ r.startInclusive /\ r.endInclusive)
=============================================================================
