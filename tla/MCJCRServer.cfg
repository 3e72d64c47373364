SPECIFICATION Spec
CONSTANTS
  Conns = {c1, c2}
  Nodes = {n1, n2}
  MaxXid = 3
SYMMETRY Symmetry
INVARIANTS
  SessionInTransaction
  PreparedAgrees
  PreparedStaysValid
  IInv
PROPERTIES
  NoLostUpdate
  OnlyTimeoutCrashes
  ImplementsStore
CHECK_DEADLOCK FALSE
