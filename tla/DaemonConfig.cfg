\* Does a reload reach the runs of a kept job?
CONSTANTS
  a = a
  b = b
  Idents = {a, b}
  KeywordIdents = {}
  Periods = {1, 2}
  Configs <- TwoConfigs
  BadConfigs = {}
  Reloaders = {r1}
  MayStop = TRUE
  MaxReloads = 1
  MaxTime = 1
SPECIFICATION Spec
INVARIANTS
  ReloadReachesRuns
