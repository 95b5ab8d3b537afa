CONSTANTS
  Std <- MCStd
  HighByte <- MCHighByte
  Tables <- MCTables
  Cases <- MCMultiByteCases

SPECIFICATION Spec

INVARIANTS
  RoundTrip

CHECK_DEADLOCK FALSE
