SPECIFICATION TickerSpec
CONSTANTS
  Repos = {r1}
  Kinds = {"mem", "dir"}
  Grace = 2
  Skew = 1
  MaxTime = 9
INVARIANTS
  OldGarbageGone
