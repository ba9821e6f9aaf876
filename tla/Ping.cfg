\* Two overlapping ICMP probes; replies are lost, late and foreign, and one of the other
\* processes that ping has the identifier of the agent.
CONSTANTS
  r1 = r1
  r2 = r2
  near = near
  twin = twin
  Runs = {r1, r2}
  Backends = {"icmp", "command", "other"}
  Count = 2
  Others = {near, twin}
  Self = 4242
  Pid <- MCPid
  EventCap = 1
SPECIFICATION FairSpec
INVARIANTS
  TypeOK
  Honest
PROPERTIES
  RunEnds
