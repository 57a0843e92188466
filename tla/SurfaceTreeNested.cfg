SPECIFICATION Spec
CONSTANTS
  root = root
  left = left
  right = right
  cb = cb
  None = None
  Surface = {root, left, right}
  Callback = {}
  Position = {0}
  Nesting <- Chain
  MaxAttach = 1
INVARIANTS KidsKnowParent
PROPERTIES SyncedWaitsForParent NoTornFrame
CHECK_DEADLOCK FALSE
