\* Files of up to eight lines, two of which are not where a careful author
\* would write them.
SPECIFICATION Spec
CONSTANTS
  Lines <- AllLines
  MaxLines = 8
  KnownTypes = {"int16", "int32", "varchar"}
CONSTRAINT FewSurprises
INVARIANTS  PlacesDiffer
