CONSTANTS
  List = {a1, a2, a3}
  NULL = NULL
  Root = root
  Block = {}
  Named = {}
  Call = {c1, c2}
  Macro = {x}
  Length = 1
  Depth = 5
  Busy = 2
  Loops = {"for"}
  Retyped = TRUE
SYMMETRY Interchangeable
SPECIFICATION Spec
INVARIANTS OneOwner
