(* All short expressions over several alphabets. *)
CONSTANTS
  Programs <- Written
  Object <- Objects
  Array <- Arrays
  Width = 8
  Whole = 12
SPECIFICATION Spec
INVARIANTS Evaluates Accepts
