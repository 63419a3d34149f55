SPECIFICATION MCSpec
CONSTANTS
  r1 = r1
  r2 = r2
  Ring <- MCRing
  Storage = {s1}
  SqEntries = 1
  MaxId <- MCMaxId
  RawIds <- MCRawIds
INVARIANTS
  OwnedInv
  NoAliasing
PROPERTIES
  ImplementsLending
  StorageComesBack
