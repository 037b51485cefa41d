(* Conditionals within conditionals. *)
CONSTANTS
  Programs <- Conditionals
  Object <- Objects
  Array <- Arrays
  Width = 8
  Whole = 12
SPECIFICATION Spec
INVARIANTS RightToLeft
