----------------------------- MODULE FilterPlan -----------------------------
(***************************************************************************)
(* A filter (execution/FilterPlan): setPredicate turns a predicate, as     *)
(* QueryRewritter left it, into alternatives of comparisons, and next()    *)
(* evaluates them for a row, a function from the names of columns.         *)
(* "columns" are those that addProjection of the child knows.              *)
(***************************************************************************)
EXTENDS QueryRewritter

CompareValues(op, a, b) ==
  CASE op = "="  -> a = b
    [] op = "!=" -> a # b
    [] op = "<=" -> a <= b
    [] op = "<"  -> a < b
    [] op = ">"  -> a > b
    [] op = ">=" -> a >= b

\* addProjection of the child finds the column by its name.
IsColumn(node, columns) == node.m_type = "NAME" /\ node.name \in columns

Operand(node, r) == IF node.m_type = "NAME" THEN r[node.name] ELSE node.value

-----------------------------------------------------------------------------
(* What a predicate says.                                                  *)

RECURSIVE Means(_, _)
Means(node, r) ==
  LET child(i) == node.m_children[i]
      Member   == \E i \in DOMAIN CollectElements(child(2)) :
                     Operand(child(1), r) = Operand(CollectElements(child(2))[i], r)
  IN  CASE node.m_op = "AND"    -> \A i \in DOMAIN node.m_children : Means(child(i), r)
        [] node.m_op = "OR"     -> \E i \in DOMAIN node.m_children : Means(child(i), r)
        [] node.m_op = "in"     -> Member
        [] node.m_op = "not in" -> ~Member
        [] OTHER                -> CompareValues(node.m_op, Operand(child(1), r), Operand(child(2), r))

\* The predicates that AND and OR make of operations on a column and a column or
\* a constant, and of a column and a list of constants: with Comparison as the
\* operations, the supported language
RECURSIVE WellFormed(_, _, _)
WellFormed(node, columns, operations) ==
  LET child(i) == node.m_children[i]
  IN  CASE node.m_op \in {"AND", "OR"} ->
             \A i \in DOMAIN node.m_children : WellFormed(child(i), columns, operations)
        [] node.m_op \in operations -> (IsColumn(child(1), columns) \/ IsColumn(child(2), columns))
             /\ \A i \in 1..2 : IsColumn(child(i), columns) \/ IsConst(child(i))
        [] node.m_op \in InOrNotIn -> IsColumn(child(1), columns)
             /\ \A i \in DOMAIN CollectElements(child(2)) : IsConst(CollectElements(child(2))[i])
        [] OTHER -> FALSE

\* AND or OR has an operand that is no operation.
RECURSIVE BareOperand(_)
BareOperand(node) ==
  /\ node.m_op \in {"AND", "OR"}
  /\ \E i \in DOMAIN node.m_children : node.m_children[i].m_type # "OP" \/ BareOperand(node.m_children[i])

-----------------------------------------------------------------------------
(* Building the filter.                                                    *)

\* doAddPredicate: the comparisons that AND leads to, in order
RECURSIVE AndList(_)
AndList(node) ==
  IF node.m_op = "AND"
  THEN FlattenSeq([i \in DOMAIN node.m_children |-> AndList(node.m_children[i])])
  ELSE <<node>>

\* ... which throws when one is no operation on a column and a column or a
\* constant; whether it is a comparison is not asked here.  OR is asserted to
\* have been rewritten.
PredicateFault(node, columns) ==
  LET Usable(i) == IsColumn(node.m_children[i], columns) \/ IsConst(node.m_children[i])
  IN  CASE node.m_type # "OP"         -> "throws"
        [] node.m_op = "OR"           -> "aborts"
        [] Len(node.m_children) # 2   -> "throws"
        [] OTHER -> IF /\ \A i \in 1..2 : Usable(i)
                       /\ \E i \in 1..2 : IsColumn(node.m_children[i], columns)
                    THEN "no" ELSE "throws"

\* setPredicate
Alternatives(node) == IF node.m_op = "OR" THEN node.m_children ELSE <<node>>

SetPredicate(node) ==
  [i \in DOMAIN Alternatives(node) |-> AndList(Alternatives(node)[i])]

SetPredicateFault(node, columns) ==
  LET infos == FlattenSeq(SetPredicate(node))
  IN  FirstFault([i \in DOMAIN infos |-> PredicateFault(infos[i], columns)])

-----------------------------------------------------------------------------
(* Evaluating it for a row: "match", "no" or "throw".                       *)

\* evaluate() throws at an operation that is no comparison.
Evaluate(info, r) ==
  IF info.m_op \notin Comparison THEN "throw"
  ELSE IF CompareValues(info.m_op, Operand(info.m_children[1], r), Operand(info.m_children[2], r))
       THEN "match" ELSE "no"

\* The first of a sequence of results that is not the neutral one
FirstOther(results, neutral) ==
  LET found == SelectSeq(results, LAMBDA x : x # neutral) IN IF found = <<>> THEN neutral ELSE Head(found)

\* The first of an alternative that does not match decides, so that those behind
\* it are not evaluated.
MatchAll(infos, r) == FirstOther([j \in DOMAIN infos |-> Evaluate(infos[j], r)], "match")

\* next(), for one row of the child: up to the first alternative that matches
Match(filter, r) == FirstOther([i \in DOMAIN filter |-> MatchAll(filter[i], r)], "no")
=============================================================================
