CONSTANTS
  Total = 5
  High = 2
  Faults = {"get", "source", "leave"}
SPECIFICATION FairSpec
INVARIANTS TypeOK EndMeansAll NeverStuck
PROPERTIES Released Served
CHECK_DEADLOCK FALSE
