SPECIFICATION Spec
CONSTANTS
  Nodes = {r, a, b}
  Root = r
  NoNode = none
  InitNodes = {}
  Vals = {v0, v1}
  Scope = {"reorder", "version", "restore", "copy", "move", "forget", "undo",
           "refuse", "lost", "veto", "others"}
CONSTRAINT FewValues
SYMMETRY Interchangeable
INVARIANTS
  ParentsFirst
  NothingHalfDone
