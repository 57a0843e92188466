CONSTANTS
  Parts = {"sizes"}
  Child = {k1, k2, k3}
  Stranger = {other}
  Parent = Parent
  Effect = {e1, e2, e3, e4}
  Resource = {r1, r2}
  Object = {b1, b2, b3}
  MaxAccess = 2
  MaxSize = 2
  Fractions = TRUE
  Surface = {s1, s2}
  Constraint = {c1, c2, c3}
  None = None
  Recommits = FALSE
  Feedback = {f1, f2, f3}
  Output = {o1, o2}
  MaxLocks = 2
SPECIFICATION MCSpec
INVARIANTS
  SourceWellDefined
PROPERTIES
  SizeFlagged
CHECK_DEADLOCK FALSE
