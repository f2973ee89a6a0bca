SPECIFICATION Spec
CONSTANTS
  Texts <- ShortTexts
  OtherBodies <- NoRows
  MaxRows = 2
  Multiplier = 2
  SizeLimit = 18
\* A stream ends.
CHECK_DEADLOCK FALSE
INVARIANTS TypeOK ExportUnderstood WholeRowsOnly
