SPECIFICATION Spec
CONSTANTS
  root = root
  left = left
  right = right
  cb = cb
  None = None
  Surface = {root, left}
  Callback = {cb}
  Position = {0, 1}
  Nesting <- Siblings
  MaxAttach = 3
INVARIANT HeldOnce
PROPERTY NewestShown
CHECK_DEADLOCK FALSE
