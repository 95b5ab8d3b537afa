CONSTANTS
  ContextNames <- MCContextNames
  Idents <- MCIdents
  Statements <- MCStatements
  MaxLen <- MCMaxLen

SPECIFICATION Spec

INVARIANTS
  TypeOK
  AllPathsHaveContext
  RewriteIdempotent

PROPERTIES
  BytesPreserved
