CONSTANTS
  a = a
  b = b
  c = c
  x = x
  preloaded = preloaded
  editor = editor
  NoLib = NoLib
  Missing = {x}
  Lib <- MCLib
  Type <- MCType
  Declared <- OneRing
SPECIFICATION FairSpec
PROPERTIES Returns
CHECK_DEADLOCK FALSE
