\* Two reloads, one after the other.
CONSTANTS
  a = a
  b = b
  Idents = {a, b}
  KeywordIdents = {b}
  Periods = {1, 2}
  Configs <- TwoConfigs
  BadConfigs = {bad}
  Reloaders = {r1}
  MayStop = FALSE
  MaxReloads = 2
  MaxTime = 2
SPECIFICATION Spec
INVARIANTS
  TypeOK
  Pace
  JobsMatchTasks
  NothingLeftBehind
  ConfigConverges
  JobInOnePlace
