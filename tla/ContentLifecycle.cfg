CONSTANTS
  Id = {c1, c2}
  File = {f1, f2}
  Worker = {w1, w2}
  Faults = {"db", "s3", "amqp", "api"}
  MaxMishaps = 2
  MaxOps = 2
  NoId = NoId
SPECIFICATION FairSpec
INVARIANTS TypeOK WholeAtRest
PROPERTIES AllHandled
CHECK_DEADLOCK FALSE
