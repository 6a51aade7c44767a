\* Results and errors of all lengths around the size of the buffer.
SPECIFICATION Spec
CONSTANTS
  Size = 48
  Reserve = 34
  Statements <- AllStatements
INVARIANTS AnswerFramed
PROPERTIES DeliversResult RowsThatFitAreWritten
