\* INSERT, DELETE and sorts on a table with a key of a number and a string.
SPECIFICATION TableSpec
CONSTANTS
  Header = 3
  Width <- IntWidths
  BlockSize = 22
  Total = 46
  RowTypes <- FourColumns
  RowValues <- MCRowValues
  KeyColumns <- KeyAB
  Inserts <- MCInserts
  Literals <- MCLiterals
INVARIANTS TypeOK RowsDisjoint RowsReadBack StoreRight
