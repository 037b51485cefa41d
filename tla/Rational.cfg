\* Denominators up to 5, integer parts from -4 to 3, half notes of 2 ticks.
CONSTANTS
  DenLimit = 6
  Wrap = 8
  Whole = 2
  LDEN = 4
  Inputs <- SmallIntegers
SPECIFICATION Spec
INVARIANTS Accurate
