CONSTANTS
  a = a
  b = b
  c = c
  quiz = quiz
  text = text
  NoLib = NoLib
  Semantics = "semantics"
  Lib <- SmallLib
  Name <- MCName
  NameOf <- SmallNameOf
  WishList <- MCWishList
  Asset <- MCAsset
  Content <- SmallContent
  Required <- SmallRequired
  Uses <- SmallUses
  SoftUses <- SmallSoftUses
  Package <- SmallPackage
  MaxPatch = 2
  Published = {1, 2}
  Faults = {"head", "db", "s3", "hub", "kill", "keys", "upload"}
  MaxMishaps = 2
SPECIFICATION FairSpec
PROPERTIES RunEnds Settles
