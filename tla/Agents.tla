------------------------------- MODULE Agents -------------------------------
(***************************************************************************)
(* The agent registry: every monitorbeat process reports itself to         *)
(* monitorweb in a loop (tasks/registry), monitorweb keeps a row per host  *)
(* name, lists the rows and deletes the stale ones (web/registry).         *)
(*                                                                         *)
(* Time is counted in ticks, Sec of them in a second; the store knows      *)
(* seconds only.  A process is one life of monitorbeat: a restart, or a    *)
(* second agent with the same host name, is another process of that host.  *)
(* What a heartbeat says about its sender (version, tasks, start time) is  *)
(* the process itself.                                                     *)
(*                                                                         *)
(* A definition whose comment begins with "Mutant" is a wrong form of the  *)
(* one after it, against which the properties are tried.                   *)
(***************************************************************************)
EXTENDS Integers, FiniteSets

CONSTANTS
  Procs,     \* processes that send heartbeats
  Hosts,     \* host names
  HostOf,    \* tasks.Hostname() of a process
  Sec,       \* ticks in a second
  Ttl,       \* registry.ttl, in ticks
  Stall,     \* how long the database keeps a statement waiting (busy_timeout)
  MaxFlight, \* bound: requests on their way
  MaxTime    \* bound: the clock

ASSUME AgentsAssumption ==
  /\ HostOf \in [Procs -> Hosts]
  /\ Sec \in Nat \ {0} /\ Ttl \in Nat \ {0} /\ Stall \in Nat
  /\ MaxFlight \in Nat /\ MaxTime \in Nat

None == -1

VARIABLES
  now,    \* the clock of monitorweb
  ppc,    \* Sender.Run: "off", "send", "wait" (in client.Do), "tick", "gone"
  flight, \* heartbeat requests: sender, when the handler read the clock (or
          \* None), and whether the sender still waits for the answer
  row,    \* table agents: who reported last, and last_seen (None: no row)
  ccut,   \* CleanStale: when it read the clock, or None
  lcut,   \* ListAgents: when it read the clock, or None
  \* history variables: when a host's heartbeat was last received by a
  \* handler, and when one was last stored
  heard, stored

reqVars == <<ppc, flight>>
vars == <<now, reqVars, row, ccut, lcut, heard, stored>>

Request(p, at, live) == [proc |-> p, at |-> at, live |-> live]
NoRow == [proc |-> None, seen |-> None]

Init ==
  /\ now = 0
  /\ ppc = [p \in Procs |-> "off"]
  /\ flight = {}
  /\ row = [h \in Hosts |-> NoRow]
  /\ ccut = None /\ lcut = None
  /\ heard = [h \in Hosts |-> None] /\ stored = [h \in Hosts |-> None]

\* time.Now().Unix() at tick t.
Unix(t) == t \div Sec

\* Mutant: the TTL is forgotten.
CutoffNow(t) == Unix(t)

\* The cutoff of CleanStale and ListAgents; int64(ttl.Seconds()) drops a fraction.
Cutoff(t) == Unix(t) - (Ttl \div Sec)

(***************************************************************************)
(* The sender.                                                             *)
(***************************************************************************)

\* main starts the loop, which begins with a heartbeat.
Boot(p) ==
  /\ ppc[p] = "off"
  /\ ppc' = [ppc EXCEPT ![p] = "send"]
  /\ UNCHANGED <<now, flight, row, ccut, lcut, heard, stored>>

\* client.Do has sent the request.
Send(p) ==
  /\ ppc[p] = "send"
  /\ Cardinality(flight) < MaxFlight
  /\ flight' = flight \cup {Request(p, None, TRUE)}
  /\ ppc' = [ppc EXCEPT ![p] = "wait"]
  /\ UNCHANGED <<now, row, ccut, lcut, heard, stored>>

\* client.Do cannot reach monitorweb.
SendFail(p) ==
  /\ ppc[p] = "send"
  /\ ppc' = [ppc EXCEPT ![p] = "tick"]
  /\ UNCHANGED <<now, flight, row, ccut, lcut, heard, stored>>

\* The ticker starts the next heartbeat.
NextBeat(p) ==
  /\ ppc[p] = "tick"
  /\ ppc' = [ppc EXCEPT ![p] = "send"]
  /\ UNCHANGED <<now, flight, row, ccut, lcut, heard, stored>>

\* The requests of p go on without anybody waiting for them.
Abandoned(p) == {IF r.proc = p THEN [r EXCEPT !.live = FALSE] ELSE r : r \in flight}

\* The client's timeout passes.
GiveUp(p) ==
  /\ ppc[p] = "wait"
  /\ ppc' = [ppc EXCEPT ![p] = "tick"]
  /\ flight' = Abandoned(p)
  /\ UNCHANGED <<now, row, ccut, lcut, heard, stored>>

\* The process is stopped or dies.
Leave(p) ==
  /\ ppc[p] \in {"send", "wait", "tick"}
  /\ ppc' = [ppc EXCEPT ![p] = "gone"]
  /\ flight' = Abandoned(p)
  /\ UNCHANGED <<now, row, ccut, lcut, heard, stored>>

(***************************************************************************)
(* The handler of a heartbeat.                                             *)
(***************************************************************************)

\* Request r is over; its sender, which does not look at the status, goes on.
Over(r) ==
  /\ flight' = flight \ {r}
  /\ ppc' = [ppc EXCEPT ![r.proc] = IF r.live THEN "tick" ELSE @]

\* handleHeartbeat has decoded the request, and Heartbeat reads the clock.
Receive(r) ==
  /\ r.at = None
  /\ flight' = (flight \ {r}) \cup {[r EXCEPT !.at = now]}
  /\ heard' = [heard EXCEPT ![HostOf[r.proc]] = now]
  /\ UNCHANGED <<now, ppc, row, ccut, lcut, stored>>

\* Mutant: a host that has a row keeps its last_seen.
InsertOrKeep(r) ==
  [row EXCEPT ![HostOf[r.proc]] = IF @ = NoRow THEN [proc |-> r.proc, seen |-> Unix(r.at)]
                                  ELSE [@ EXCEPT !.proc = r.proc]]

\* Mutant: the time is not in seconds.
UpsertedTicks(r) == [row EXCEPT ![HostOf[r.proc]] = [proc |-> r.proc, seen |-> r.at]]

\* INSERT ... ON CONFLICT(hostname) DO UPDATE of every column.
Upserted(r) == [row EXCEPT ![HostOf[r.proc]] = [proc |-> r.proc, seen |-> Unix(r.at)]]

\* The statement is executed, whether somebody waits for it or not.
Heartbeat(r) ==
  /\ r.at # None
  /\ row' = Upserted(r)
  /\ stored' = [stored EXCEPT ![HostOf[r.proc]] = now]
  /\ Over(r)
  /\ UNCHANGED <<now, ccut, lcut, heard>>

\* The request is lost or refused, the statement fails, or the handler's context
\* is cancelled because the sender has gone.
HeartbeatFail(r) ==
  /\ Over(r)
  /\ UNCHANGED <<now, row, ccut, lcut, heard, stored>>

(***************************************************************************)
(* The clean loop and the list.                                            *)
(***************************************************************************)

\* The ticker fires, and CleanStale reads the clock.
CleanStale ==
  /\ ccut = None
  /\ ccut' = now
  /\ UNCHANGED <<now, reqVars, row, lcut, heard, stored>>

\* Mutant: a row is kept for a second more.
ExpiredLate(h) == row[h] # NoRow /\ row[h].seen + 1 < Cutoff(ccut)

\* last_seen < cutoff.
Expired(h) == row[h] # NoRow /\ row[h].seen < Cutoff(ccut)

\* DELETE FROM agents.
CleanExec ==
  /\ ccut # None
  /\ row' = [h \in Hosts |-> IF Expired(h) THEN NoRow ELSE row[h]]
  /\ ccut' = None
  /\ UNCHANGED <<now, reqVars, lcut, heard, stored>>

\* The statement fails; CleanLoop ignores the error.
CleanFail ==
  /\ ccut # None
  /\ ccut' = None
  /\ UNCHANGED <<now, reqVars, row, lcut, heard, stored>>

\* A request for the list: ListAgents reads the clock.
ListAgents ==
  /\ lcut = None
  /\ lcut' = now
  /\ UNCHANGED <<now, reqVars, row, ccut, heard, stored>>

\* Is host h in the answer, and online?
Online(h) == row[h] # NoRow /\ row[h].seen >= Cutoff(lcut)

\* The query, which may fail, and the answer.
ListDone ==
  /\ lcut # None
  /\ lcut' = None
  /\ UNCHANGED <<now, reqVars, row, ccut, heard, stored>>

(***************************************************************************)
(* The environment.                                                        *)
(***************************************************************************)

\* monitorweb is stopped and started again: migrate keeps the table.
WebRestart ==
  /\ flight' = {}
  /\ ppc' = [p \in Procs |-> IF ppc[p] = "wait" THEN "tick" ELSE ppc[p]]
  /\ ccut' = None /\ lcut' = None
  /\ UNCHANGED <<now, row, heard, stored>>

\* Time passes; the database does not keep a statement for longer than Stall.
Tick ==
  /\ now < MaxTime
  /\ \A r \in flight : r.at # None => now + 1 - r.at <= Stall
  /\ now' = now + 1
  /\ UNCHANGED <<reqVars, row, ccut, lcut, heard, stored>>

SenderNext ==
  \E p \in Procs : Boot(p) \/ Send(p) \/ SendFail(p) \/ NextBeat(p) \/ GiveUp(p) \/ Leave(p)

Next ==
  \/ SenderNext
  \/ \E r \in flight : Receive(r) \/ Heartbeat(r) \/ HeartbeatFail(r)
  \/ CleanStale \/ CleanExec \/ CleanFail
  \/ ListAgents \/ ListDone
  \/ WebRestart
  \/ Tick

\* The ticker of the clean loop goes on firing, and its statement does not fail
\* every time.
Fairness == WF_vars(CleanStale) /\ SF_vars(CleanExec)

Spec == Init /\ [][Next]_vars

FairSpec == Spec /\ Fairness

(***************************************************************************)
(* Properties.                                                             *)
(***************************************************************************)

Ticks == 0 .. MaxTime \cup {None}

\* A row has a process of its host and a time; requests and clocks have theirs.
TypeOK ==
  /\ now \in 0 .. MaxTime
  /\ ppc \in [Procs -> {"off", "send", "wait", "tick", "gone"}]
  /\ flight \subseteq [proc : Procs, at : Ticks, live : BOOLEAN]
  /\ row \in [Hosts -> [proc : Procs, seen : 0 .. Unix(MaxTime)] \cup {NoRow}]
  /\ \A h \in Hosts : row[h] # NoRow => HostOf[row[h].proc] = h
  /\ ccut \in Ticks /\ lcut \in Ticks
  /\ heard \in [Hosts -> Ticks] /\ stored \in [Hosts -> Ticks]

\* The promise of the registry, in seconds.
Registry == INSTANCE Directory
  WITH Ttl <- Ttl \div Sec,
       Slack <- (Stall + Sec - 1) \div Sec,
       clock <- Unix(now),
       entry <- [h \in Hosts |-> row[h].seen]

\* Handlers that read the clock before their statement, overtaken requests,
\* failures and restarts all stay within what Directory allows.
Promise == Registry!Spec

\* An answer of ListAgents: a host shown as online was heard of within the TTL
\* and the second the store rounds off; a host whose heartbeat was stored within
\* the TTL less the time the database may keep a statement is shown as online,
\* even if the cleaner, a late request of an earlier process or a restart of
\* monitorweb came in between.
AnswersRight ==
  [][ListDone =>
       \A h \in Hosts :
         /\ Online(h) => heard[h] # None /\ lcut - heard[h] < (Ttl \div Sec) * Sec + Sec
         /\ stored[h] # None /\ now - stored[h] + Stall <= (Ttl \div Sec) * Sec => Online(h)]_vars

Stale(h) == row[h] # NoRow /\ row[h].seen < Cutoff(now)

\* A host that is not heard of any more does not stay in the table: a stale row
\* is deleted, or a heartbeat makes it fresh.
StaleForgotten ==
  \A h \in Hosts : Stale(h) ~> ~Stale(h)
=============================================================================
