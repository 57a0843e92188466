SPECIFICATION Spec
SYMMETRY Interchangeable
CONSTANTS
  Surface = {s1, s2}
  Bind = {b1, b2}
  Xdg = {x1, x2}
  Role = {r1, r2}
  Positioner = {p1}
  MaxSerials = 2
  None = None
INVARIANTS
  OneRole
  ListsExact
  NewerPending
CHECK_DEADLOCK FALSE
