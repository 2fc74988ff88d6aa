CONSTANTS
  Installer = {"i1", "i2"}
  Doc = {d1, d2}
  Hub = 2
  MaxTimeouts = 2
  NoDoc = NoDoc
SPECIFICATION FairSpec
INVARIANTS TypeOK ListFailsOnlyOnDeletion
PROPERTIES Recovers
CHECK_DEADLOCK FALSE
