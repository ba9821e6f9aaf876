\* Two Runs of one task, which overlap or not, on a host that changes meanwhile.
CONSTANTS
  a = a
  b = b
  both = both
  black = black
  f = f
  Runs = {a, b}
  CheckSets <- SomeChecks
  Mounts = {both, black}
  WhiteList = {both}
  BlackList = {both, black}
  DiskStates <- SomeDisks
  DiskUsagePercent = 90
  DiskMinFreeGB = 10
  Names = {f}
  MaxTime = 8
  MaxKills = 3
  MaxChanges = 2
SPECIFICATION Spec
INVARIANTS
  TypeOK
  DiskRight
  CoreReported
  OOMAccounted
