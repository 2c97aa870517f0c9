SPECIFICATION Spec
CONSTANTS
  r1 = r1
  r2 = r2
  Ring <- TwoRings
  Char <- TwoChars
  RBSZ = 3
PROPERTIES
  ImplementsFifo
SYMMETRY Symmetry
