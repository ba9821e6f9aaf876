\* Liveness under the fairness of the Go scheduler.
CONSTANTS
  a = a
  b = b
  Idents = {a}
  KeywordIdents = {}
  Periods = {1, 2}
  Configs <- OneTask
  BadConfigs = {}
  Reloaders = {r1}
  MayStop = TRUE
  MaxReloads = 1
  MaxTime = 1
SPECIFICATION FairSpec
PROPERTIES
  ReloadCompletes
  ShutdownCompletes
  DueJobsRun
