\* Does a restart skip lines?
CONSTANTS
  t1 = t1
  t2 = t2
  Tasks = {t1}
  Worlds <- OnlyResumed
  Ahead = 3
  ChanCap = 1
  EventCap = 1
  LineLen = 2
SPECIFICATION Spec
PROPERTIES
  NoLineSkipped
