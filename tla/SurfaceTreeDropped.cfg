SPECIFICATION Spec
CONSTANTS
  root = root
  left = left
  right = right
  cb = cb
  None = None
  Surface = {root, left}
  Callback = {cb}
  Position = {0}
  Nesting <- Siblings
  MaxAttach = 0
INVARIANTS NoCallbackDropped

CHECK_DEADLOCK FALSE
