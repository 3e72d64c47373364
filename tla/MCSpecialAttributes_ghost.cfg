SPECIFICATION Spec
CONSTANTS
  Who = {bob, dn}
  Odd = {dn}
  Roles = {reader, writer}
  Fields = {"localroles", "security"}
  Careful = FALSE
  MaxSets = 3
INVARIANTS AssignedIsKept
