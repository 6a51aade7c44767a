\* One session, conjunctions and unions on a key of two columns.
SPECIFICATION Spec
CONSTANTS
  KeyCount = 2
  MinValue = 0
  MaxValue = 2
  Worker = {w1}
  Tables <- RangeTables
  Selects <- RangeSelects
  Deletes <- NoStatements
  Inserts <- NoStatements
  MayCancel = FALSE
INVARIANTS RowsInOrder RowsOfOneVersion
PROPERTY ExecutionEnds
