SPECIFICATION Spec
CONSTANTS
  Nodes = {r, a, b}
  Root = r
  NoNode = none
  InitNodes = {a}
  Vals = {v0, v1}
  Scope = {"set", "reorder", "version"}
INVARIANTS
  TypeOK
  PendingJoined
  CacheCoherent
  AbortRestores
  ChangedIsRegistered
PROPERTIES
  AbortUndoes
  CommitTakesAll
