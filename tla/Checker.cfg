\* The checker runs the tasks of a file once.
CONSTANTS
  Files <- SmallFiles
  Texts <- SmallTexts
  Logs <- SmallLogs
  Tables <- SmallTables
  Codes = {200, 204}
  MaxConns = 2
  EventCap = 1
  MaxStarts = 2
  MaxReloads = 1
SPECIFICATION FairSpec
CHECK_DEADLOCK FALSE
INVARIANTS
  TypeOK
  Served
  EventsRight
PROPERTIES
  RunEnds
