CONSTANTS
  ContextNames <- MCContextNames
  GrammarPaths <- MCGrammarPaths
SPECIFICATION Spec
INVARIANTS
  TypeOK
  AcceptedOnlyIfConsumed
  ErrorNamesFirstUnconsumed
  ChainSpellsPath
