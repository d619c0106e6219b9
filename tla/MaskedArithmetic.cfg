SPECIFICATION Spec
CONSTANTS
  N = 1025
  MaskMin = 8
  MaskMax = 15
  PackingBase = 32
  Bound = 3
  Packed = TRUE
INVARIANTS ComparisonDecides FactorsArrive ResultExact
