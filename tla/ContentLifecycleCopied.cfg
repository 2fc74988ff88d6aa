CONSTANTS
  Id = {c1, c2}
  File = {f1}
  Worker = {w1, w2}
  Faults = {"s3"}
  MaxMishaps = 1
  MaxOps = 2
  NoId = NoId
SPECIFICATION Spec
INVARIANTS CopiedHasFiles
CHECK_DEADLOCK FALSE
