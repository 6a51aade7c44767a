\* All lines of up to five characters.
SPECIFICATION Spec
CONSTANTS
  Character <- Characters
  Lines <- AllLines
  Limit <- TwoColumns
  Quote = "q"
  Separator = ","
INVARIANTS LoopInv RowRight RefusedIffTooLong
PROPERTIES FieldsStay
