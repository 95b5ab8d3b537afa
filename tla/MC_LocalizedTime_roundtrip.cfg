CONSTANTS
  Std <- MCStd
  HighByte <- MCHighByte
  Tables <- MCTables
  Cases <- MCAllCases

SPECIFICATION Spec

INVARIANTS
  RoundTrip

CHECK_DEADLOCK FALSE
