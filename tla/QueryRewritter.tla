--------------------------- MODULE QueryRewritter ---------------------------
(***************************************************************************)
(* The rewriting of a predicate into alternatives (common/QueryRewritter). *)
(*                                                                         *)
(* A ParseNode is a record: its type m_type ("OP", "LIST", "NAME" or       *)
(* "INT"), its operation m_op ("none" unless it is an "OP"), its children, *)
(* and m_sValue, here two fields: the column that a "NAME" names, ""       *)
(* for others, and the value of an "INT".  The texts m_sExpr are left out. *)
(*                                                                         *)
(* What the code does not expect of a tree is a fault: "throws" is a       *)
(* ParseException, with which the statement is refused, and "aborts" an    *)
(* assertion, with which the whole process ends (CMakeLists.txt has no     *)
(* build type that would switch assertions off).                           *)
(***************************************************************************)
EXTENDS Integers, Sequences, SequencesExt

Node(type, op, children, name, value) ==
  [m_type |-> type, m_op |-> op, m_children |-> children, name |-> name, value |-> value]

Op(op, children) == Node("OP", op, children, "", 0)
Name(column)     == Node("NAME", "none", <<>>, column, 0)
Const(value)     == Node("INT", "none", <<>>, "", value)

\* val_list of the grammar: a list of an element and the rest of the list
RECURSIVE ValueList(_)
ValueList(elements) ==
  Node("LIST", "none",
       IF Len(elements) = 1 THEN elements ELSE <<Head(elements), ValueList(Tail(elements))>>, "", 0)

IsConst(node)      == node.m_type = "INT"
IsFalseConst(node) == IsConst(node) /\ node.value = 0

Comparison == {"=", "!=", "<=", "<", ">", ">="}
Arithmetic == {"+", "-", "*", "/", "%"}
InOrNotIn  == {"in", "not in"}

\* The first fault of a sequence of steps, or "no"
FirstFault(faults) ==
  LET found == SelectSeq(faults, LAMBDA f : f # "no") IN IF found = <<>> THEN "no" ELSE Head(found)

-----------------------------------------------------------------------------
(* Lists and IN.                                                           *)

RECURSIVE CollectElements(_)
CollectElements(node) ==
  IF node.m_type = "LIST"
  THEN FlattenSeq([i \in DOMAIN node.m_children |-> CollectElements(node.m_children[i])])
  ELSE <<node>>

\* rewriteInOrNotIN: one comparison for each element; a single one stays a
\* comparison, several are alternatives, for NOT IN as well.
RewriteInOrNotIN(node) ==
  LET op          == IF node.m_op = "in" THEN "=" ELSE "!="
      elements    == CollectElements(node.m_children[2])
      expressions == [i \in DOMAIN elements |-> Op(op, <<node.m_children[1], elements[i]>>)]
  IN  IF Len(expressions) = 1 THEN expressions[1] ELSE Op("OR", expressions)

\* rewriteOp: replaces every IN and NOT IN that AND and OR lead to
RECURSIVE RewriteOp(_)
RewriteOp(node) ==
  CASE node.m_op \in {"AND", "OR"} ->
         [node EXCEPT !.m_children = [i \in DOMAIN @ |-> RewriteOp(@[i])]]
    [] node.m_op \in InOrNotIn -> RewriteInOrNotIN(node)
    [] OTHER -> node

\* ... and fails at an operand of AND or OR that is no operation, and at a list
\* with an element that is not a constant.
RECURSIVE RewriteOpFault(_)
RewriteOpFault(node) ==
  CASE node.m_type # "OP" -> "aborts"
    [] node.m_op \in {"AND", "OR"} ->
         FirstFault([i \in DOMAIN node.m_children |-> RewriteOpFault(node.m_children[i])])
    [] node.m_op \in InOrNotIn ->
         LET elements == CollectElements(node.m_children[2])
         IN  IF \E i \in DOMAIN elements : ~IsConst(elements[i]) THEN "throws" ELSE "no"
    [] OTHER -> "no"

-----------------------------------------------------------------------------
(* Lifting OR to the top.                                                  *)

RECURSIVE HasOrPredicate(_)
HasOrPredicate(node) ==
  node.m_op = "OR" \/ \E i \in DOMAIN node.m_children : HasOrPredicate(node.m_children[i])

\* Each alternative of the left side with each one of the right side
Products(left, right) ==
  FlattenSeq([i \in DOMAIN left |->
                [j \in DOMAIN right |-> Op("AND", <<left[i], right[j]>>)]])

\* collectOrOperators: the alternatives that a predicate stands for.  (Operands
\* that are no operations, about which it complains, do not get here.)
RECURSIVE CollectOrOperators(_)
CollectOrOperators(node) ==
  CASE node.m_op = "AND" /\ HasOrPredicate(node) ->
         Products(CollectOrOperators(node.m_children[1]), CollectOrOperators(node.m_children[2]))
    [] node.m_op = "OR" ->
         FlattenSeq([i \in DOMAIN node.m_children |-> CollectOrOperators(node.m_children[i])])
    [] OTHER -> <<node>>

\* Mutant of LiftOrPredicate: the predicate is left as it is.
LiftOrPredicateNot(node) == node

LiftOrPredicate(node) == Op("OR", CollectOrOperators(node))

-----------------------------------------------------------------------------
(* rewrite() for the predicate of a statement                              *)

\* hasOr, which rewriteOp hands to its caller, is true exactly when the
\* rewritten predicate has an OR that only AND and OR lead to.
RECURSIVE HasOr(_)
HasOr(node) ==
  \/ node.m_op = "OR"
  \/ node.m_op = "AND" /\ \E i \in DOMAIN node.m_children : HasOr(node.m_children[i])

Rewrite(node) ==
  LET rewritten == RewriteOp(node)
  IN  IF HasOr(rewritten) THEN LiftOrPredicate(rewritten) ELSE rewritten

\* A predicate that is a bare column or constant is not looked at.
RewriteFault(node) == IF node.m_type = "OP" THEN RewriteOpFault(node) ELSE "no"
=============================================================================
