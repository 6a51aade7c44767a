\* Two sessions that select, delete and insert on one table, cancelled at any
\* time, with commits that fail and are repeated.
SPECIFICATION Spec
CONSTANTS
  KeyCount = 1
  MinValue = 0
  MaxValue = 2
  Worker = {w1, w2}
  Tables <- FullTable
  Selects <- ConcurrentSelects
  Deletes <- ConcurrentDeletes
  Inserts <- ConcurrentInserts
  MayCancel = TRUE
INVARIANTS RowsInOrder RowsOfOneVersion
PROPERTY DeleteExact
SYMMETRY WorkerSymmetry
