CONSTANTS
  a = a
  b = b
  c = c
  quiz = quiz
  text = text
  NoLib = NoLib
  Semantics = "semantics"
  Lib <- MCLib
  Name <- MCName
  NameOf <- MCNameOf
  WishList <- MCWishList
  Asset <- MCAsset
  Content <- MCContent
  Required <- MCRequired
  Uses <- MCUses
  SoftUses <- MCSoftUses
  Package <- MCPackage
  MaxPatch = 2
  Published <- MCPublished
  Faults = {"head", "db", "s3", "hub", "kill", "upload"}
  MaxMishaps = 2
SPECIFICATION Spec
INVARIANTS TypeOK FinishedRunAgrees
PROPERTIES NothingOrphaned NeededStays ChainsUninstalled
