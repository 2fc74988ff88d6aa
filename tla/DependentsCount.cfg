CONSTANTS
  a = a
  b = b
  c = c
  x = x
  preloaded = preloaded
  editor = editor
  NoLib = NoLib
  Missing = {x}
  Lib <- MCLib
  Type <- MCType
  Declared <- NoRings
SPECIFICATION FairSpec
INVARIANTS OneSideKept NoMutualLeft
PROPERTIES Returns
CHECK_DEADLOCK FALSE
