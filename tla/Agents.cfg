\* A process and its successor on one host; late, lost and overtaken heartbeats.
CONSTANTS
  p = p
  q = q
  h = h
  Procs = {p, q}
  Hosts = {h}
  HostOf <- OneHost
  Sec = 2
  Ttl = 3
  Stall = 1
  MaxFlight = 2
  MaxTime = 4
SPECIFICATION FairSpec
INVARIANTS
  TypeOK
PROPERTIES
  Promise
  AnswersRight
  StaleForgotten
