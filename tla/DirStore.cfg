SPECIFICATION FairSpec
CONSTANTS
  Repos = {r1}
  Handlers = {h1, h2, h3}
  None = None
  MaxObjects = 2
  FirstTick = FALSE
INVARIANTS
  OneObject
  IInv
PROPERTIES
  NoAddDuringWait
  AccessSpec
  NobodyStarves
