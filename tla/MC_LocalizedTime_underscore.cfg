CONSTANTS
  Std <- MCStd
  HighByte <- MCHighByte
  Tables <- MCTables
  Cases <- MCUnderscoreCases

SPECIFICATION Spec

INVARIANTS
  RoundTrip

CHECK_DEADLOCK FALSE
