CONSTANTS
  r1 = r1
  r2 = r2
  Req <- MCReq
  Routes <- MCRoutes
  Sockets = 2
  MaxMishaps = 2
SPECIFICATION Spec
INVARIANTS TypeOK TempDirGone ToldTruly
PROPERTY HandlersEnd
CHECK_DEADLOCK FALSE
