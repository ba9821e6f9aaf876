---------------------------- MODULE AgentsProofs ----------------------------
(***************************************************************************)
(* Theorems about Agents, for every set of processes and hosts, every      *)
(* resolution of the clock, TTL and delay of the database, and every bound.*)
(***************************************************************************)
EXTENDS Agents, TLAPS

(***************************************************************************)
(* Arithmetic of ticks and seconds.                                        *)
(***************************************************************************)

\* The second of a tick, and the ticks of a second.
LEMMA UnixFacts ==
  ASSUME NEW t \in Nat
  PROVE  /\ Unix(t) \in Nat
         /\ Unix(t) * Sec <= t
         /\ t < Unix(t) * Sec + Sec
  BY AgentsAssumption DEF Unix

LEMMA TtlFacts ==
  /\ Ttl \div Sec \in Nat
  /\ (Stall + Sec - 1) \div Sec \in Nat
  /\ Stall <= ((Stall + Sec - 1) \div Sec) * Sec
  BY AgentsAssumption

\* Multiples of a second are in the order of their factors.
LEMMA FactorOrder ==
  ASSUME NEW a \in Int, NEW b \in Int, a * Sec < b * Sec
  PROVE  a < b
  BY AgentsAssumption

LEMMA UnixMonotone ==
  ASSUME NEW s \in Nat, NEW t \in Nat, s <= t
  PROVE  Unix(s) <= Unix(t)
<1>1. Unix(s) * Sec < (Unix(t) + 1) * Sec
  BY UnixFacts, AgentsAssumption
<1> QED
  BY <1>1, FactorOrder, UnixFacts
LEMMA UnixNext ==
  ASSUME NEW t \in Nat
  PROVE  Unix(t + 1) = Unix(t) \/ Unix(t + 1) = Unix(t) + 1
<1>1. Unix(t) <= Unix(t + 1)
  BY UnixMonotone
<1>2. Unix(t + 1) * Sec < (Unix(t) + 2) * Sec
  BY UnixFacts, AgentsAssumption
<1> QED
  BY <1>1, <1>2, FactorOrder, UnixFacts

(***************************************************************************)
(* Types.  A request has been received at some tick up to now, so that the *)
(* second it is stored with is one of the clock's.                         *)
(***************************************************************************)

LEMMA TypeInit == Init => TypeOK
<1> SUFFICES ASSUME Init PROVE TypeOK
  OBVIOUS
<1>1. 0 \in 0 .. MaxTime
  BY AgentsAssumption
<1> QED
  BY <1>1 DEF Init, TypeOK, Ticks, NoRow

LEMMA TypeStep == TypeOK /\ [Next]_vars => TypeOK'
<1> SUFFICES ASSUME TypeOK, [Next]_vars PROVE TypeOK'
  OBVIOUS
<1> USE DEF reqVars
<1>1. ASSUME NEW p \in Procs, Boot(p) \/ SendFail(p) \/ NextBeat(p) PROVE TypeOK'
  BY <1>1 DEF TypeOK, Boot, SendFail, NextBeat
<1>2. ASSUME NEW p \in Procs, Send(p) PROVE TypeOK'
  <2>1. Request(p, None, TRUE) \in [proc : Procs, at : Ticks, live : BOOLEAN]
    BY DEF Request, Ticks
  <2> QED
    BY <1>2, <2>1 DEF TypeOK, Send
<1>3. ASSUME NEW p \in Procs PROVE Abandoned(p) \subseteq [proc : Procs, at : Ticks, live : BOOLEAN]
  BY DEF TypeOK, Abandoned
<1>4. ASSUME NEW p \in Procs, GiveUp(p) \/ Leave(p) PROVE TypeOK'
  BY <1>3, <1>4 DEF TypeOK, GiveUp, Leave
<1>5. ASSUME NEW r \in flight
      PROVE  r \in [proc : Procs, at : Ticks, live : BOOLEAN] /\ HostOf[r.proc] \in Hosts
  BY AgentsAssumption DEF TypeOK
<1>6. ASSUME NEW r \in flight, Receive(r) PROVE TypeOK'
  BY <1>5, <1>6 DEF TypeOK, Receive, Ticks
<1>7. ASSUME NEW r \in flight, Heartbeat(r) PROVE TypeOK'
  <2>1. r.at \in Nat /\ r.at <= MaxTime /\ MaxTime \in Nat
    BY <1>5, <1>7, AgentsAssumption DEF Heartbeat, Ticks
  <2>2. Unix(r.at) \in 0 .. Unix(MaxTime)
    BY <2>1, UnixMonotone, UnixFacts
  <2> HIDE DEF Unix
  <2>3. row' \in [Hosts -> [proc : Procs, seen : 0 .. Unix(MaxTime)] \cup {NoRow}]
    BY <1>5, <1>7, <2>2 DEF TypeOK, Heartbeat, Upserted
  <2>4. \A h \in Hosts : row'[h] # NoRow => HostOf[row'[h].proc] = h
    BY <1>5, <1>7 DEF TypeOK, Heartbeat, Upserted
  <2> QED
    BY <1>5, <1>7, <2>3, <2>4 DEF TypeOK, Heartbeat, Over, Ticks
<1>8. ASSUME NEW r \in flight, HeartbeatFail(r) PROVE TypeOK'
  BY <1>5, <1>8 DEF TypeOK, HeartbeatFail, Over
<1>9. CASE CleanStale \/ CleanFail \/ ListAgents \/ ListDone
  BY <1>9 DEF TypeOK, CleanStale, CleanFail, ListAgents, ListDone, Ticks
<1>10. CASE CleanExec
  BY <1>10 DEF TypeOK, CleanExec, Ticks
<1>11. CASE WebRestart
  BY <1>11 DEF TypeOK, WebRestart, Ticks
<1>12. CASE Tick
  BY <1>12, AgentsAssumption DEF TypeOK, Tick
<1>13. CASE UNCHANGED vars
  BY <1>13 DEF TypeOK, vars
<1> QED
  BY <1>1, <1>2, <1>4, <1>6, <1>7, <1>8, <1>9, <1>10, <1>11, <1>12, <1>13
  DEF Next, SenderNext

\* Every row is about a process of its host, with a second the clock has reached
\* at most at its bound; requests and clocks that were read have ticks.
THEOREM AgentsTypeCorrect == Spec => []TypeOK
  BY TypeInit, TypeStep, PTL DEF Spec

(***************************************************************************)
(* The clocks that were read.  A handler's clock is at most Stall behind,  *)
(* and not ahead of the last time its host was heard of; the clean loop's  *)
(* and the list's are not ahead of now.                                    *)
(***************************************************************************)

ClockInv ==
  /\ \A r \in flight : r.at # None =>
       /\ r.at <= now /\ now - r.at <= Stall
       /\ heard[HostOf[r.proc]] # None /\ r.at <= heard[HostOf[r.proc]]
  /\ ccut # None => ccut <= now
  /\ lcut # None => lcut <= now
  /\ \A h \in Hosts : heard[h] <= now /\ stored[h] <= now

\* What a row says about its host: it was heard of in that second or later, and
\* the heartbeat last stored came at most Stall before it was stored.  A row is
\* missing only if that heartbeat is out of date.
RowRight(h) ==
  /\ row[h] # NoRow => heard[h] # None /\ row[h].seen <= Unix(heard[h])
  /\ stored[h] # None =>
       IF row[h] = NoRow THEN now - stored[h] + Stall > (Ttl \div Sec) * Sec
       ELSE stored[h] - Stall < (row[h].seen + 1) * Sec

RowInv == \A h \in Hosts : RowRight(h)

LEMMA ClockStep == TypeOK /\ ClockInv /\ [Next]_vars => ClockInv'
<1> SUFFICES ASSUME TypeOK, ClockInv, [Next]_vars PROVE ClockInv'
  OBVIOUS
<1> USE AgentsAssumption DEF reqVars, None
<1>a. /\ now \in Nat
      /\ \A r \in flight : r.at \in Int /\ HostOf[r.proc] \in Hosts
      /\ \A h \in Hosts : heard[h] \in Int /\ stored[h] \in Int
      /\ ccut \in Int /\ lcut \in Int
  BY DEF TypeOK, Ticks
<1>1. ASSUME UNCHANGED <<now, ccut, lcut, heard, stored>>,
             \A r \in flight' : r.at # None =>
                \E q \in flight : q.at = r.at /\ q.proc = r.proc
      PROVE  ClockInv'
  BY <1>1 DEF ClockInv
<1>2. ASSUME NEW p \in Procs, Boot(p) \/ SendFail(p) \/ NextBeat(p) PROVE ClockInv'
  BY <1>1, <1>2 DEF Boot, SendFail, NextBeat
<1>3. ASSUME NEW p \in Procs, Send(p) PROVE ClockInv'
  BY <1>1, <1>3 DEF Send, Request
<1>4. ASSUME NEW p \in Procs, GiveUp(p) \/ Leave(p) PROVE ClockInv'
  <2>1. \A r \in Abandoned(p) : \E q \in flight : q.at = r.at /\ q.proc = r.proc
    BY DEF Abandoned, TypeOK
  <2> QED
    BY <1>1, <1>4, <2>1 DEF GiveUp, Leave
<1>5. ASSUME NEW r \in flight, Receive(r) PROVE ClockInv'
  <2>1. \A q \in flight' : q \in flight \/ (q.at = now /\ q.proc = r.proc)
    BY <1>5 DEF Receive, TypeOK
  <2>2. \A h \in Hosts : heard'[h] = IF h = HostOf[r.proc] THEN now ELSE heard[h]
    BY <1>5 DEF Receive, TypeOK
  <2> QED
    BY <1>5, <1>a, <2>1, <2>2 DEF Receive, ClockInv
<1>6. ASSUME NEW r \in flight, Heartbeat(r) PROVE ClockInv'
  <2>1. \A h \in Hosts : stored'[h] = IF h = HostOf[r.proc] THEN now ELSE stored[h]
    BY <1>6 DEF Heartbeat, TypeOK
  <2> QED
    BY <1>6, <1>a, <2>1 DEF Heartbeat, Over, ClockInv
<1>7. ASSUME NEW r \in flight, HeartbeatFail(r) PROVE ClockInv'
  BY <1>1, <1>7 DEF HeartbeatFail, Over
<1>8. CASE CleanStale \/ CleanExec \/ CleanFail \/ ListAgents \/ ListDone
  BY <1>8, <1>a DEF ClockInv, CleanStale, CleanExec, CleanFail, ListAgents, ListDone
<1>9. CASE WebRestart
  BY <1>9 DEF ClockInv, WebRestart
<1>10. CASE Tick
  BY <1>10, <1>a DEF ClockInv, Tick
<1>11. CASE UNCHANGED vars
  BY <1>11 DEF ClockInv, vars
<1> QED
  BY <1>2, <1>3, <1>4, <1>5, <1>6, <1>7, <1>8, <1>9, <1>10, <1>11
  DEF Next, SenderNext

LEMMA RowStep == TypeOK /\ ClockInv /\ RowInv /\ [Next]_vars => RowInv'
<1> SUFFICES ASSUME TypeOK, ClockInv, RowInv, [Next]_vars, NEW h \in Hosts
             PROVE  RowRight(h)'
  BY DEF RowInv
<1> DEFINE T == (Ttl \div Sec) * Sec
<1>a. /\ now \in Nat /\ stored[h] \in Int /\ Stall \in Nat /\ T \in Nat /\ Sec \in Nat \ {0}
      /\ heard[h] # None => heard[h] \in Nat /\ heard[h] <= now
      /\ row[h] # NoRow => row[h].seen \in Nat
      /\ ccut # None => ccut \in Nat /\ ccut <= now
  BY AgentsAssumption, TtlFacts DEF TypeOK, ClockInv, Ticks, None
<1>b. RowRight(h)
  BY DEF RowInv
<1> USE DEF reqVars
<1>1. ASSUME UNCHANGED <<row, heard, stored, now>> PROVE RowRight(h)'
  BY <1>1, <1>b DEF RowRight
<1>2. ASSUME NEW r \in flight, Receive(r) PROVE RowRight(h)'
  <2>1. heard'[h] \in {heard[h], now} /\ UNCHANGED <<row, stored, now>>
    BY <1>2 DEF Receive, TypeOK
  <2>2. heard[h] # None => Unix(heard[h]) <= Unix(now) /\ Unix(heard[h]) \in Nat
    BY <1>a, UnixMonotone, UnixFacts
  <2> QED
    BY <2>1, <2>2, <1>a, <1>b, UnixFacts DEF RowRight, None
<1>3. ASSUME NEW r \in flight, Heartbeat(r), HostOf[r.proc] = h PROVE RowRight(h)'
  <2>1. /\ r.at \in Nat /\ now - r.at <= Stall
        /\ heard[h] \in Nat /\ heard[h] # None /\ r.at <= heard[h]
    BY <1>3, <1>a DEF Heartbeat, TypeOK, ClockInv, Ticks
  <2>2. /\ row'[h] = [proc |-> r.proc, seen |-> Unix(r.at)]
        /\ stored'[h] = now
        /\ UNCHANGED <<heard, now>>
    BY <1>3 DEF Heartbeat, Upserted, TypeOK
  <2>3. Unix(r.at) <= Unix(heard[h])
    BY <2>1, UnixMonotone
  <2>4. Unix(r.at) \in Nat /\ r.at < (Unix(r.at) + 1) * Sec
    BY <2>1, <1>a, UnixFacts
  <2> HIDE DEF Unix
  <2>5. row'[h].seen = Unix(r.at) /\ row'[h] # NoRow
    BY <2>2, <2>4 DEF NoRow, None
  <2>6. now - Stall < (Unix(r.at) + 1) * Sec
    <3> DEFINE x == (Unix(r.at) + 1) * Sec
    <3>1. x \in Nat
      BY <2>4, <1>a
    <3> HIDE DEF x
    <3>2. now - Stall < x
      BY <2>1, <2>4, <1>a, <3>1 DEF x
    <3> QED
      BY <3>2 DEF x
  <2> QED
    BY <2>1, <2>2, <2>3, <2>5, <2>6 DEF RowRight
<1>4. ASSUME NEW r \in flight, Heartbeat(r), HostOf[r.proc] # h PROVE RowRight(h)'
  BY <1>4, <1>b DEF Heartbeat, Upserted, TypeOK, RowRight
<1>5. CASE CleanExec
  <2>1. row'[h] = (IF Expired(h) THEN NoRow ELSE row[h]) /\ UNCHANGED <<heard, stored, now>>
    BY <1>5 DEF CleanExec
  <2>2. ASSUME Expired(h), stored[h] # None PROVE now - stored[h] + Stall > T
    <3> DEFINE seen == row[h].seen
               u == Unix(ccut)
               ttl == Ttl \div Sec
    <3>1. /\ seen \in Nat /\ seen < u - ttl /\ stored[h] - Stall < (seen + 1) * Sec
          /\ ccut \in Nat /\ ccut <= now
      BY <1>5, <1>a, <1>b, <2>2 DEF Expired, Cutoff, CleanExec, RowRight
    <3>2. u \in Nat /\ u * Sec <= ccut /\ ttl \in Nat
      BY <3>1, UnixFacts, TtlFacts
    <3> HIDE DEF seen, u, ttl
    <3>3. (seen + 1) * Sec <= (u - ttl) * Sec
      BY <3>1, <3>2, <1>a
    <3>4. (u - ttl) * Sec = u * Sec - ttl * Sec
      BY <3>2, <1>a
    <3>5. stored[h] - Stall < now - ttl * Sec
      BY <3>1, <3>2, <3>3, <3>4, <1>a
    <3> QED
      BY <3>2, <3>5, <1>a DEF ttl
  <2> QED
    BY <2>1, <2>2, <1>b DEF RowRight
<1>6. CASE Tick
  BY <1>6, <1>a, <1>b DEF Tick, RowRight
<1>7. ASSUME NEW r \in flight, HeartbeatFail(r) PROVE RowRight(h)'
  BY <1>7, <1>1 DEF HeartbeatFail
<1>8. CASE SenderNext
  BY <1>8, <1>1 DEF SenderNext, Boot, Send, SendFail, NextBeat, GiveUp, Leave
<1>9. CASE CleanStale \/ CleanFail \/ ListAgents \/ ListDone \/ WebRestart \/ UNCHANGED vars
  BY <1>9, <1>1 DEF CleanStale, CleanFail, ListAgents, ListDone, WebRestart, vars
<1> QED
  BY <1>2, <1>3, <1>4, <1>5, <1>6, <1>7, <1>8, <1>9 DEF Next

IInv == TypeOK /\ ClockInv /\ RowInv

LEMMA AgentsInvariant == Spec => []IInv
<1>1. Init => IInv
  BY TypeInit, AgentsAssumption DEF Init, IInv, ClockInv, RowInv, RowRight, None
<1>2. IInv /\ [Next]_vars => IInv'
  BY TypeStep, ClockStep, RowStep DEF IInv
<1> QED
  BY <1>1, <1>2, PTL DEF Spec

\* Who is listed as online was heard of within the TTL and the second the store
\* rounds off, and who was stored within the TTL, less the database's delay, is
\* listed, whatever the cleaner, late requests and restarts have done meanwhile.
THEOREM AnswersAreRight == Spec => AnswersRight
<1> DEFINE T == (Ttl \div Sec) * Sec
           Answer(h) ==
             /\ Online(h) => heard[h] # None /\ lcut - heard[h] < T + Sec
             /\ stored[h] # None /\ now - stored[h] + Stall <= T => Online(h)
<1>1. IInv /\ [Next]_vars => [ListDone => \A h \in Hosts : Answer(h)]_vars
  <2> SUFFICES ASSUME IInv, ListDone, NEW h \in Hosts PROVE Answer(h)
    OBVIOUS
  <2> DEFINE ttl == Ttl \div Sec
             u == Unix(lcut)
             seen == row[h].seen
  <2>1. /\ lcut \in Nat /\ lcut <= now /\ now \in Nat /\ stored[h] \in Int
        /\ heard[h] # None => heard[h] \in Nat
        /\ row[h] # NoRow => seen \in Nat
        /\ Stall \in Nat /\ Sec \in Nat \ {0}
    BY AgentsAssumption DEF IInv, TypeOK, ClockInv, ListDone, Ticks, None
  <2>2. u \in Nat /\ u * Sec <= lcut /\ lcut < u * Sec + Sec /\ ttl \in Nat
    BY <2>1, UnixFacts, TtlFacts
  <2>3. RowRight(h)
    BY DEF IInv, RowInv
  <2>4. ASSUME Online(h) PROVE heard[h] # None /\ lcut - heard[h] < ttl * Sec + Sec
    <3> DEFINE v == Unix(heard[h])
    <3>1. heard[h] \in Nat /\ heard[h] # None /\ seen \in Nat /\ seen <= v /\ u - ttl <= seen
      BY <2>1, <2>3, <2>4 DEF Online, Cutoff, RowRight
    <3>2. v \in Nat /\ v * Sec <= heard[h]
      BY <3>1, UnixFacts
    <3> HIDE DEF u, v, ttl, seen
    <3>3. (u - ttl) * Sec <= v * Sec
      BY <2>1, <2>2, <3>1, <3>2
    <3>4. (u - ttl) * Sec = u * Sec - ttl * Sec
      BY <2>1, <2>2
    <3> QED
      BY <2>1, <2>2, <3>1, <3>2, <3>3, <3>4
  <2>5. ASSUME stored[h] # None, now - stored[h] + Stall <= ttl * Sec PROVE Online(h)
    <3>1. row[h] # NoRow /\ stored[h] - Stall < (seen + 1) * Sec
      BY <2>1, <2>2, <2>3, <2>5 DEF RowRight
    <3>2. u * Sec - ttl * Sec < (seen + 1) * Sec
      <4> HIDE DEF u, ttl, seen
      <4> QED
        BY <2>1, <2>2, <2>5, <3>1
    <3>3. (u - ttl) * Sec < (seen + 1) * Sec
      <4> HIDE DEF u, ttl, seen
      <4> QED
        BY <2>1, <2>2, <3>1, <3>2
    <3>4. u - ttl < seen + 1
      BY <2>1, <2>2, <3>1, <3>3, FactorOrder
    <3> QED
      BY <2>1, <2>2, <3>1, <3>4 DEF Online, Cutoff
  <2> QED
    BY <2>4, <2>5
<1> QED
  BY <1>1, AgentsInvariant, PTL DEF Spec, AnswersRight

(***************************************************************************)
(* The refinement.                                                         *)
(***************************************************************************)

\* What a handler read at most Stall ticks ago is, in seconds, at most Slack late.
LEMMA SlackCovers ==
  ASSUME NEW s \in Nat, NEW t \in Nat, s <= t, t - s <= Stall
  PROVE  Unix(t) - Unix(s) <= (Stall + Sec - 1) \div Sec
<1> DEFINE k == (Stall + Sec - 1) \div Sec
           u == Unix(s)
           v == Unix(t)
<1>1. k \in Nat /\ Stall <= k * Sec /\ Sec \in Nat \ {0} /\ Stall \in Nat
  BY TtlFacts, AgentsAssumption
<1>2. u \in Nat /\ v \in Nat /\ s < u * Sec + Sec /\ v * Sec <= t
  BY UnixFacts
<1> HIDE DEF k, u, v
<1>3. v * Sec < (u + k + 1) * Sec
  BY <1>1, <1>2
<1>4. v < u + k + 1
  BY <1>1, <1>2, <1>3, FactorOrder
<1> QED
  BY <1>1, <1>2, <1>4 DEF k, u, v

\* The table of agents keeps the promise of Directory: handlers and the clean loop,
\* which read the clock before their statement, requests that overtake each other,
\* failures and restarts all do what Directory allows.
THEOREM AgentsImplementDirectory == Spec => Promise
<1> DEFINE last == [h \in Hosts |-> row[h].seen]
<1>1. Init => Registry!Init
  <2>1. Unix(0) = 0
    BY AgentsAssumption DEF Unix
  <2> QED
    BY <2>1 DEF Init, Registry!Init, Registry!Unknown, NoRow, None
<1>2. IInv /\ [Next]_vars => [Registry!Next]_<<Unix(now), last>>
  <2> SUFFICES ASSUME IInv, [Next]_vars
               PROVE  Registry!Next \/ UNCHANGED <<Unix(now), last>>
    OBVIOUS
  <2> USE DEF reqVars
  <2>1. ASSUME UNCHANGED <<now, row>> PROVE UNCHANGED <<Unix(now), last>>
    BY <2>1 DEF Unix
  <2>2. CASE Tick
    <3>1. now \in Nat /\ now' = now + 1 /\ UNCHANGED row
      BY <2>2, AgentsAssumption DEF Tick, IInv, TypeOK
    <3>2. Unix(now)' = Unix(now) \/ Unix(now)' = Unix(now) + 1
      BY <3>1, UnixNext DEF Unix
    <3> QED
      BY <3>1, <3>2 DEF Registry!Next, Registry!Pass
  <2>3. ASSUME NEW r \in flight, Heartbeat(r) PROVE Registry!Next
    <3> DEFINE h == HostOf[r.proc]
               t == Unix(r.at)
    <3>1. /\ h \in Hosts /\ r.at \in Nat /\ now \in Nat /\ r.at <= now /\ now - r.at <= Stall
          /\ row' = [row EXCEPT ![h] = [proc |-> r.proc, seen |-> t]] /\ UNCHANGED now
      BY <2>3, AgentsAssumption DEF Heartbeat, Upserted, IInv, TypeOK, ClockInv, Ticks
    <3>2. /\ t \in Nat /\ Unix(now) \in Nat /\ t <= Unix(now)
          /\ Unix(now) - t <= (Stall + Sec - 1) \div Sec
      BY <3>1, UnixFacts, UnixMonotone, SlackCovers
    <3>3. last' = [last EXCEPT ![h] = t]
      BY <3>1 DEF IInv, TypeOK
    <3>4. UNCHANGED Unix(now)
      BY <3>1 DEF Unix
    <3> HIDE DEF h, t, last
    <3>5. Registry!Hear(h, t)
      BY <3>2, <3>3, <3>4 DEF Registry!Hear, last
    <3> QED
      BY <3>1, <3>2, <3>5 DEF Registry!Next
  <2>4. CASE CleanExec
    <3> DEFINE cut == Cutoff(ccut)
    <3>1. ccut \in Nat /\ ccut <= now /\ now \in Nat /\ UNCHANGED now
      BY <2>4, AgentsAssumption DEF CleanExec, IInv, TypeOK, ClockInv, Ticks
    <3>2. cut \in Int /\ cut <= Unix(now) - (Ttl \div Sec) /\ cut <= Unix(now) /\ Unix(now) \in Nat
      BY <3>1, UnixFacts, UnixMonotone, TtlFacts DEF Cutoff
    <3>3. UNCHANGED Unix(now)
      BY <3>1 DEF Unix
    <3>4. \A h \in Hosts : row'[h] = IF row[h] # NoRow /\ row[h].seen < cut THEN NoRow ELSE row[h]
      BY <2>4 DEF CleanExec, Expired
    <3>5. \A h \in Hosts : row[h] # NoRow => row[h].seen \in Nat
      BY AgentsAssumption DEF IInv, TypeOK
    <3> HIDE DEF cut
    <3>6. CASE cut < 0
      <4>1. \A h \in Hosts : row'[h] = row[h]
        BY <3>2, <3>4, <3>5, <3>6
      <4> QED
        BY <3>3, <4>1
    <3>7. CASE cut >= 0
      <4>1. \A h \in Hosts : row'[h].seen = IF row[h].seen < cut THEN -1 ELSE row[h].seen
        BY <3>2, <3>4, <3>5, <3>7 DEF NoRow, None
      <4>2. PICK k \in 0 .. Unix(now) : k = cut
        BY <3>2, <3>7
      <4>3. Registry!Forget(k)
        BY <3>2, <3>3, <4>1, <4>2 DEF Registry!Forget, Registry!Unknown
      <4> QED
        BY <4>3 DEF Registry!Next
    <3> QED
      BY <3>2, <3>6, <3>7
  <2>5. ASSUME NEW r \in flight, Receive(r) \/ HeartbeatFail(r) PROVE UNCHANGED <<now, row>>
    BY <2>5 DEF Receive, HeartbeatFail
  <2>6. ASSUME SenderNext PROVE UNCHANGED <<now, row>>
    BY <2>6 DEF SenderNext, Boot, Send, SendFail, NextBeat, GiveUp, Leave
  <2>7. ASSUME CleanStale \/ CleanFail \/ ListAgents \/ ListDone \/ WebRestart \/ UNCHANGED vars
        PROVE  UNCHANGED <<now, row>>
    BY <2>7 DEF CleanStale, CleanFail, ListAgents, ListDone, WebRestart, vars
  <2> QED
    BY <2>1, <2>2, <2>3, <2>4, <2>5, <2>6, <2>7 DEF Next
<1> QED
  BY <1>1, <1>2, AgentsInvariant, PTL DEF Spec, Promise, Registry!Spec

=============================================================================
