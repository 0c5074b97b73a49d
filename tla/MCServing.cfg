SPECIFICATION Spec
CONSTANTS
  Clock = 17
  Programs <- MCPrograms
  SearchPaths <- MCSearchPaths
  MaxNesting = 4
  Evaluated <- EvaluatedIn
  Fits <- FitsAtLoad
  Invoked <- InvokedIn
  MaxWhileIterations = 6
  MaxMacroExpansionDepth = 3
  MacroDefs <- NoFields
  ConstantNames <- MCConstants
  TypeDefs <- MCTypeDefs
  TraitDefs <- NoFields
INVARIANTS
  ExplicitKept
  SiblingsBound
  RequestsIsolated
  FormsAgree
PROPERTY
  RequestsEnd
