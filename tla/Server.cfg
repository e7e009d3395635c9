SPECIFICATION Spec
CONSTANTS
  Requests = {r1, r2}
  Tokens = {t1, t2}
  Setups <- MCSetups
  None = None
INVARIANTS
  UsesOpenStore
  ConfFollowsFile
  TokensWatched
PROPERTIES
  TokensRemoved
  StopsGracefully
CHECK_DEADLOCK FALSE
