\* Torn writes, truncation, crashes and restarts; and one life with whole lines.
CONSTANTS
  t1 = t1
  t2 = t2
  Tasks = {t1}
  Worlds <- RoughAndPlain
  Ahead = 3
  ChanCap = 1
  EventCap = 1
  LineLen = 2
SPECIFICATION FairSpec
INVARIANTS
  TypeOK
  OffsetsSaved
PROPERTIES
  InOrder
  ShutdownCompletes
  LinesArrive
