SPECIFICATION Spec
CONSTANTS
  Holder = {h1, h2, h3}
  Ref = {r1, r2, r3, r4}
  NULL = NULL
SYMMETRY MCSymmetry
INVARIANTS
  TypeOK
  CountIsUsers
