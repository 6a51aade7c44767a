\* A union of three ranges of which the second is contradictory.
SPECIFICATION Spec
CONSTANTS
  KeyCount = 1
  MinValue = 0
  MaxValue = 2
  Worker = {w1}
  Tables <- FullTable
  Selects <- ContradictionSelects
  Deletes <- NoStatements
  Inserts <- NoStatements
  MayCancel = FALSE
INVARIANT RowsInOrder
