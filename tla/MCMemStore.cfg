SPECIFICATION FairSpec
CONSTANTS
  Repos = {r1, r2}
  Handlers = {h1, h2}
  NoRepo = NoRepo
INVARIANTS
  IInv
  KeeperExclusive
  InUseRegistered
  ClosedReleasesAll
PROPERTIES
  NoAddDuringWait
  AccessSpec
  NobodyStarves
