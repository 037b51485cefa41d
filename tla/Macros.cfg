CONSTANTS
  List = {a1, a2, a3}
  NULL = NULL
  Root = root
  Block = {block}
  Named = {named}
  Call = {c1, c2}
  Macro = {x}
  Length = 1
  Depth = 5
  Busy = 2
  Loops = {"for", "while", "foreach"}
  Retyped = FALSE
SYMMETRY Interchangeable
SPECIFICATION Spec
INVARIANTS OneOwner CallsMatch LoopCount
PROPERTIES ReadsItsText
