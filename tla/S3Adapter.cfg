CONSTANTS
  c1 = c1
  c2 = c2
  Client <- MCClient
  Key <- MCKey
  Dir <- MCDir
  Twin <- MCTwin
  CallsOf <- MCCallsOf
  PageSize = 1
  Rule <- MCRule
  RulesOf <- MCRulesOf
  Foreign <- MCForeign
  MaxCalls = 4
  MaxMishaps = 1
SPECIFICATION Spec
INVARIANTS TypeOK Kept ListsDirectory
PROPERTIES RulesKept DirectoryEmptied CallsEnd
CHECK_DEADLOCK FALSE
