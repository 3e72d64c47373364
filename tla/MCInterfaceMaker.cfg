SPECIFICATION Spec
CONSTANTS
  Loads <- MCLoads
  Types <- MCTypes
  Mixins <- MCMixins
  Tops <- MCTops
  Excluded <- MCExcluded
  Predefined <- MCPredefined
  PredefinedInterfaces <- MCPredefinedInterfaces
INVARIANTS
  ParsedAsWritten
  NothingReadTwice
  SortedIsOrdered
  AsDeclared
  
  FaultsAreFound
PROPERTIES
  LoadsEnd
CHECK_DEADLOCK FALSE
