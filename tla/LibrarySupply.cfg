CONSTANTS
  ma = ma
  mb = mb
  mc = mc
  ra = ra
  rb = rb
  rc = rc
  fork = fork
  user = user
  org = org
  NoRepo = NoRepo
  NoVersion = NoVersion
  NoKey = NoKey
  Name <- MCName
  Repo <- MCRepo
  Owners <- MCOwners
  Offers <- MCOffers
  WishList <- MCWishList
  Line <- MCLine
  MaxPatch = 3
  File <- MCFile
  Tags <- MCTags
  Master <- MCMaster
  Hub <- MCHub
  Archive <- MCArchive
  Table <- MCTable
  PathCorrected <- MCPathCorrected
  Unbuilt = {}
  Pinned <- MCPinned
  BatchSize = 2
  PageSize = 2
  MaxMishaps = 1
  Stocked <- MCStocked
SPECIFICATION FairSpec
INVARIANTS TypeOK AvailableIsWhole HeldBack FaithfulCopy
PROPERTIES OfficialWins DependenciesSettled UploadsAsExpected RoundUploads ScriptsEnd
CHECK_DEADLOCK FALSE
