\* Overlapping reloads: is every dropped job stopped?
CONSTANTS
  a = a
  b = b
  Idents = {a, b}
  KeywordIdents = {}
  Periods = {1, 2}
  Configs <- SwapConfigs
  BadConfigs = {}
  Reloaders = {r1, r2}
  MayStop = TRUE
  MaxReloads = 2
  MaxTime = 0
SPECIFICATION Spec
INVARIANTS
  NothingLeftBehind
