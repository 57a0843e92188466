CONSTANTS
  s1 = s1
  s2 = s2
  ka = ka
  kb = kb
  da = da
  db = db
  x = x
  y = y
  o1 = o1
  o2 = o2
  t1 = t1
  t2 = t2
  t3 = t3
  p = p
  None = None
  Surface = {s1, s2}
  Source = {x, y}
  Offer = {o1, o2}
  DataDevice = {da, db}
  DeviceOf <- DataDevices
  MaxGrabs = 2
  Touch = {t1, t2, t3}
  Pointer = {p}
  MaxTouch = 3
  Keyboard = {ka, kb}
  ClientOf <- Owners
  Key = {1}
  Modifiers = {"none", "shift"}
  NoModifiers = "none"
  Keymap = {"us", "de"}
SPECIFICATION MCSpec
SYMMETRY Interchangeable
INVARIANTS
  KeyboardsAgree
  TargetAlive
  PointsAgree
PROPERTIES
  OnlyTargetMatches
  DragHeld
CHECK_DEADLOCK FALSE
