\* A client that waits for each answer; every kind of statement and failure.
SPECIFICATION Spec
CONSTANTS
  BlockSize = 6
  Statements <- AllStatements
  StringSizes = {0, 1, 2}
INVARIANTS ArenaIntact BindFits
