CONSTANTS
  Functions <- MCFunctions
  NilArgFunctions <- MCNilArgFunctions
  ValueArgFunctions <- MCValueArgFunctions
  Signature <- MCSignature
  Callees <- MCCallees
  ArgLists <- MCArgLists
  ToCamel <- MCToCamel
  Enums <- MCEnums
  LiteralShells <- MCLiteralShells
SPECIFICATION Spec
INVARIANT RequiredFieldsBound
