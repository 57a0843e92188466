CONSTANTS
  a1 = a1
  None = None
  Surface = {s1, s2, s3}
  Exported = {x1, x2}
  Imported = {i1, i2}
  Output = {h1}
  Config = {c1, c2}
  Window = {w1, w2}
  Desktop = {d1}
  Id = {d1, d2}
  LeaseBind = {b1, b2}
  Connector = {k1, k2}
  LeaseRequest = {r1}
  Fd = {f1, f2}
  Planes = 2
  Word = 16
  Offset = {0, 8}
  Stride = {4, 8}
  Height = {0, 1, 4}
  FileSize = {None, 12}
  Modifier = {m1}
  Mode = {2, 4}
  Position = {1, 2}
  LogicalSize = {1, 2}
  Description = {a1, a2}
  Version = {2, 3}
  Name = {1, 2}
  Interface = {"seat", "output"}
  RoleSurface = {u1}
  Layer = {l1, l2}
  Token = {t1, t2}
  Seat = {e1, e2}
  Bytes = {1, 2}
  Format = {"argb"}
  InitialSize = 1
  MaxInt = 5
  Reuse = FALSE
  Careful = TRUE
  Redraws = FALSE
  MaxSerial = 2
  MaxWindowChanges = 5
  MaxDesktopChanges = 4
  MaxOutputChanges = 4
  MaxConnects = 2
  MaxGlobalChanges = 4
  MaxBuffers = 3
  MaxSetups = 2
SPECIFICATION MCSpec
INVARIANTS
  RelationAlive
  AnswersInOrder
  ToldOnce
  OneOwner
  DoneIsWhole
  ClientsAgree
  PointedToLives
CHECK_DEADLOCK FALSE
