\* Arrays of up to 5 elements, whose buffer grows to 2, 4 and 8 places.
CONSTANTS
  Elem = {a, b}
  None = None
  Initial = {0, 1, 3}
  MaxSize = 5
  MaxRef = 2
SPECIFICATION Spec
INVARIANTS OnlyElements
PROPERTIES Implements
