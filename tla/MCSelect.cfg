\* Every combination of clauses, limits, subqueries, nested predicates, and
\* executions that fail and are repeated.
SPECIFICATION Spec
CONSTANTS
  KeyColumns <- MCKeyColumns
  Columns <- MCColumns
  Settings <- MCSettings
INVARIANTS ResultRight CountRight SourceClosed SupportedAnswered
