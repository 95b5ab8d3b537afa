CONSTANTS
  Std <- MCStd
  HighByte <- MCHighByte
  Tables <- MCTables
  Cases <- MCPassCases

SPECIFICATION Spec

INVARIANTS
  TypeOK
  RoundTripAligned

PROPERTIES
  FormatTerminates
CHECK_DEADLOCK FALSE
