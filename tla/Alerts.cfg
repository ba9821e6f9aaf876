\* Rules that change between evaluations, and faults at any moment.
CONSTANTS
  f = f
  RuleIds = {1}
  Fps = {f}
  Exprs = {"e1", "e2"}
  Durations = {0, 1, 2}
  Sec = 2
  RateLimit = 4
  Worlds <- SerialAndFaulty
SPECIFICATION Spec
INVARIANTS
  TypeOK
  AckRespected
  RowsRight
PROPERTIES
  NotifiedWhenDue
