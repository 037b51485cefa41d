(* Collecting, sorting and pairing. *)
CONSTANTS
  a = a  b = b
  Note = {a, b}
  MaxTime = 1
  MaxEvents = 5
  ByPriority <- YesNo
  Uninitialized <- NotNegative
SPECIFICATION Spec
SYMMETRY Interchangeable
INVARIANTS SortedStably TimeOrder Partners NestedPairs
