CONSTANTS
  N <- MCN
  Types <- MCTypes
  g1 = g1
  g2 = g2
  Calls <- MCCalls

SPECIFICATION Spec

SYMMETRY CallSymmetry

INVARIANTS
  TypeOK
  CacheScopedToCallAndType
  StopsAtFirstError
