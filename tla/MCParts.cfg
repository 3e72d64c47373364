SPECIFICATION PartsSpec
CONSTANTS
  Batches <- MCBatches
  MaxBatches = 2
  Answers <- MCAnswers
  MaxRequests = 2
  Siblings = {a, b, c, d}
  Others = {u, v}
  Who = {bob, dn}
  Odd = {dn}
  Roles = {reader, writer}
  Fields = {"localroles", "security"}
  Careful = TRUE
  MaxSets = 2
  s1 = s1
  s2 = s2
  x = x
  y = y
  key = key
  one = one
  two = two
  Sessions = {s1, s2}
  ChildNames = {x, y}
  Keys = {key}
  Values = {two}
  Store <- MCStore
  MaxCommands <- MCMaxCommands
  Nobody = Nobody
  MaxUUID = 6
  MaxPrepares = 2
INVARIANTS
  BatchArrives
  InStep
  ReadsBack
  GoalReached
  MovesForward
  AttributesAgree
  AssignedIsKept
  MergeIsThreeWay
  StoreIsATree
PROPERTIES
  AbortIsReal
  CallsReturn
  OnlyConflicts
CHECK_DEADLOCK FALSE
