SPECIFICATION Spec
CONSTANTS
  Nodes = {r, a, b}
  Root = r
  NoNode = none
  InitNodes = {a, b}
  Vals = {v0, v1}
  Scope = {"set", "move"}
PROPERTIES
  CommitTakesAll
