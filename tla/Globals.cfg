SPECIFICATION FairSpec
CONSTANTS
  Global = {g1, g2}
  Client = {c1, c2}
  Resource = {r1, r2}
  MaxStarts = 2
INVARIANTS
  BindsLinked
  DataValid
PROPERTY NucleusFreed
CHECK_DEADLOCK FALSE
