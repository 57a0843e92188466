CONSTANTS
  a1 = a1
  a2 = a2
  b1 = b1
  da = da
  db = db
  c = c
  x = x
  y = y
  z = z
  ta = ta
  ua = ua
  p1 = p1
  p2 = p2
  p3 = p3
  g1 = g1
  g2 = g2
  None = None
  Surface = {a1, a2, b1}
  Source = {x, y, z}
  Device = {da, db}
  Control = {c}
  TextSurface = {a1, b1}
  TextInput2 = {ua}
  TextInput3 = {ta}
  Text = {hello}
  Empty = empty
  MaxTexts = 1
  PointerSurface = {a1, b1}
  Pointer = {p1, p2, p3}
  Gesture = {g1, g2}
  Kind = {"swipe", "hold"}
  KindOf <- Kinds
  PointerOf <- Hosts
  Button = {left, right}
  MaxSerials = 3
  SharedButtons = FALSE
  ClientOf <- Owners
SPECIFICATION MCSpec
SYMMETRY Interchangeable
INVARIANTS
  SelectionKnown
  SelectionAlive
  TextFocusAgrees
  TypedOnce
  PointersAgree
  SurfacesAlive
  DragButtonHeld
CHECK_DEADLOCK FALSE
