SPECIFICATION Spec
CONSTANTS
  Threads = {t1, t2, t3}
  DBs = {d1, d2}
  NoThread = nobody
  MaxOpens = 3
INVARIANTS
  LoadedIsComplete
  IInv
  RedefinedByAnother
PROPERTIES
  ManagerIsKept
  OpenReturns
CHECK_DEADLOCK FALSE
