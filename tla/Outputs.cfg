\* Both outputs, with lines of one and two bytes; disks and servers fail at any step, the
\* process is stopped or dies.
CONSTANTS
  Wired <- FileThenHttp
  EventCap = 1
  FileMax = 2
  RetryMax = 1
  HasFallback = TRUE
  SpoolMax = 2
  MaxBackups = 1
  DiskFails = TRUE
  MaxLine = 2
  MaxEvents = 3
  MaxLives = 2
SPECIFICATION FairSpec
INVARIANTS
  TypeOK
  NoSilentLoss
  OutputsIndependent
  NewestKept
  SizesBounded
PROPERTIES
  EngineKeepsUp
