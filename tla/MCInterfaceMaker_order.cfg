SPECIFICATION Spec
CONSTANTS
  Loads <- MCClash
  Types <- MCTypes
  Mixins <- MCMixins
  Tops <- MCTops
  Excluded <- MCExcluded
  Predefined <- MCPredefined
  PredefinedInterfaces <- MCPredefinedInterfaces
INVARIANTS
  ContainersAreBare
CHECK_DEADLOCK FALSE
