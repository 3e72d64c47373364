SPECIFICATION Spec
CONSTANTS
  Nodes = {r, a, b}
  Root = r
  NoNode = none
  InitNodes = {a}
  Vals = {v0, v1}
  Scope = {"set", "undo"}
INVARIANTS
  NoKeyError
