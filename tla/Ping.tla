-------------------------------- MODULE Ping --------------------------------
(***************************************************************************)
(* The ping task of monitorbeat (tasks/ping): Run probes a target over a   *)
(* raw socket or with the command ping, and reports one event.             *)
(*                                                                         *)
(* The scheduler starts every Run in a goroutine of its own, so Runs of    *)
(* several ping tasks, or of one that lasts longer than its period,        *)
(* overlap.  All of them use the same ICMP identifier, the last 16 bits of *)
(* the agent's process number, and the kernel gives every open raw socket  *)
(* a copy of every ICMP packet: replies to this and to other Runs, the     *)
(* requests the host sends, and the packets of other processes that ping   *)
(* all the time, whose identifier may be the same one.  The address of the *)
(* sender is never looked at.  The field "by" of a packet says whose echo  *)
(* it belongs to; no packet carries it and no code reads it.  Round-trip   *)
(* times are left out: a sample is Zero (as make leaves it), Lost          *)
(* (negative) or the packet it was measured with.                          *)
(*                                                                         *)
(* A definition whose comment begins with "Mutant" is a wrong form of the  *)
(* one after it, against which the properties are tried.                   *)
(***************************************************************************)
EXTENDS Integers, FiniteSets

CONSTANTS
  Runs,     \* calls of Run
  Backends, \* the backends of the configured tasks
  Count,    \* packets to send
  Others,   \* the other processes of the host that ping
  Self,     \* the process number of the agent
  Pid,      \* the process numbers of the others
  EventCap  \* capacity of the event channel

ASSUME PingAssumption ==
  /\ Runs \cap Others = {}
  /\ Self \in Nat /\ Pid \in [Others -> Nat]
  /\ Count \in Nat \ {0} /\ EventCap \in Nat \ {0}

Zero == [type |-> "none", by |-> "nobody", id |-> 0, seq |-> 0]
Lost == [type |-> "none", by |-> "nobody", id |-> 0, seq |-> -1]
NoEvent == [backend |-> "none", sent |-> 0, received |-> 0, success |-> FALSE, error |-> FALSE]

VARIABLES
  rpc,     \* where a Run is
  seq,     \* the loop variable of runICMPBackend, from 1
  samples, \* its samples
  result,  \* the result a Run reports
  expired, \* the timeout of its context has passed
  stopped, \* the scheduler's context is cancelled
  sock,    \* replies in the buffer of its raw socket
  net,     \* replies in the network
  events,  \* the number of events in the event channel
  \* history variables: whether a Run has sent its event, the replies it has
  \* read, and whether no other Run can have to do with them
  emitted, hits, alone

runVars == <<seq, samples, result>>
ctxVars == <<expired, stopped>>
vars == <<rpc, runVars, ctxVars, sock, net, events, emitted, hits, alone>>

Open(r) == rpc[r] \in {"loop", "read", "pause"}
\* os.Getpid() & 0xffff: the identifier in the packets of b, a Run or another process.
Id(b) == (IF b \in Runs THEN Self ELSE Pid[b]) % 65536

Packet(t, b, k) == [type |-> t, by |-> b, id |-> Id(b), seq |-> k]
Packets == {Packet(t, b, k) : t \in {"request", "reply"}, b \in Runs \cup Others, k \in 1 .. Count}

\* The packets of other processes.
Foreign == {p \in Packets : p.by \in Others}

Init ==
  /\ rpc = [r \in Runs |-> "idle"]
  /\ seq = [r \in Runs |-> 1]
  /\ samples = [r \in Runs |-> [k \in 1 .. Count |-> Zero]]
  /\ result = [r \in Runs |-> NoEvent]
  /\ expired = [r \in Runs |-> FALSE] /\ stopped = FALSE
  /\ sock = [r \in Runs |-> {}]
  /\ net = {}
  /\ events = 0
  /\ emitted = [r \in Runs |-> FALSE] /\ hits = [r \in Runs |-> 0]
  /\ alone = [r \in Runs |-> FALSE]



\* The context of the backend is done.
CtxErr(r) == expired[r] \/ stopped

Goto(r, pc) == rpc' = [rpc EXCEPT ![r] = pc]

\* failureResult, and the other results with an error.
Failure(b) == [NoEvent EXCEPT !.backend = b, !.error = TRUE]

\* Run has a result; what is left is to send the event.
Report(r, res) ==
  /\ result' = [result EXCEPT ![r] = res]
  /\ Goto(r, "emit")

(***************************************************************************)
(* Run, and the command backend.                                           *)
(***************************************************************************)

\* Run of a task with backend b calls probe, which looks at it.
Run(r, b) ==
  /\ rpc[r] = "idle"
  /\ ~stopped
  /\ CASE b = "icmp" -> Goto(r, "resolve") /\ UNCHANGED result
       [] b = "command" -> Goto(r, "command") /\ UNCHANGED result
       [] OTHER -> Report(r, Failure("none"))
  /\ UNCHANGED <<seq, samples, ctxVars, sock, net, events, emitted, hits, alone>>

\* What the command may print: a header or not, a line of statistics (the packets
\* sent and received; <<>> if it is missing or malformed), and a line of
\* round-trip times.
Outputs ==
  [header : BOOLEAN, stats : {<<>>} \cup ((0 .. Count) \X (0 .. Count)),
   rtt : {"none", "malformed", "ok"}]

Stats(b, s, n) ==
  [backend |-> b, sent |-> s, received |-> n, success |-> n > 0, error |-> FALSE]

parseCommandOutput(o) ==
  IF \/ ~o.header
     \/ o.stats = <<>>
     \/ o.stats[1] <= 0
     \/ o.rtt = "malformed"
     \/ o.rtt = "none" /\ o.stats[2] > 0
  THEN Failure("command")
  ELSE Stats("command", o.stats[1], o.stats[2])

\* runCommandBackend: the command ends by itself or is killed.
Command(r) ==
  /\ rpc[r] = "command"
  /\ IF CtxErr(r) THEN Report(r, Failure("command"))
     ELSE \E o \in Outputs : Report(r, parseCommandOutput(o))
  /\ UNCHANGED <<seq, samples, ctxVars, sock, net, events, emitted, hits, alone>>

\* The event is sent, or the scheduler stops.
Emit(r) ==
  /\ rpc[r] = "emit"
  /\ \/ /\ events < EventCap
        /\ events' = events + 1
        /\ emitted' = [emitted EXCEPT ![r] = TRUE]
     \/ stopped /\ UNCHANGED <<events, emitted>>
  /\ Goto(r, "done")
  /\ result' = [result EXCEPT ![r] = NoEvent]
  /\ hits' = [hits EXCEPT ![r] = 0]
  /\ expired' = [expired EXCEPT ![r] = FALSE]
  /\ UNCHANGED <<seq, samples, stopped, sock, net, alone>>

(***************************************************************************)
(* The ICMP backend.                                                       *)
(***************************************************************************)

\* resolveTarget finds an IPv4 address and the socket is opened, or not.
Listen(r) ==
  /\ rpc[r] = "resolve"
  /\ \/ /\ Goto(r, "loop")
        /\ alone' = [alone EXCEPT ![r] = ~\E x \in Runs \ {r} : Open(x) \/ \E p \in net : p.by = x]
        /\ UNCHANGED result
     \/ Report(r, Failure("icmp")) /\ UNCHANGED alone
  /\ UNCHANGED <<seq, samples, ctxVars, sock, net, events, emitted, hits>>

\* The samples from k on are lost.
LostFrom(r, k) == [samples EXCEPT ![r] = [j \in 1 .. Count |-> IF j >= k THEN Lost ELSE @[j]]]

\* Both places that leave the loop early fill the rest of the samples.
Fill(r, k) == LostFrom(r, k)

\* The head of the loop finds the context done.
LoopCancelled(r) ==
  /\ rpc[r] = "loop"
  /\ seq[r] <= Count
  /\ CtxErr(r)
  /\ samples' = Fill(r, seq[r])
  /\ seq' = [seq EXCEPT ![r] = Count + 1]
  /\ UNCHANGED <<rpc, result, ctxVars, sock, net, events, emitted, hits, alone>>

\* The echo is sent; the target answers it or does not.
Write(r) ==
  /\ rpc[r] = "loop"
  /\ seq[r] <= Count
  /\ ~CtxErr(r)
  /\ alone' = [x \in Runs |-> alone[x] /\ (x = r \/ ~Open(x))]
  /\ net' = net \cup {Packet("reply", r, seq[r])} \/ UNCHANGED net
  /\ Goto(r, "read")
  /\ UNCHANGED <<runVars, ctxVars, sock, events, emitted, hits>>

\* The sample is lost, and the loop goes on.
Miss(r) ==
  /\ samples' = [samples EXCEPT ![r][seq[r]] = Lost]
  /\ seq' = [seq EXCEPT ![r] = @ + 1]
  /\ Goto(r, "loop")

\* The message cannot be made or sent.
WriteFail(r) ==
  /\ rpc[r] = "loop"
  /\ seq[r] <= Count
  /\ ~CtxErr(r)
  /\ Miss(r)
  /\ UNCHANGED <<result, ctxVars, sock, net, events, emitted, hits, alone>>

\* Mutant: a read without a deadline.
ReadCancelled(r) ==
  /\ rpc[r] = "read"
  /\ CtxErr(r)
  /\ Miss(r)
  /\ UNCHANGED <<result, ctxVars, sock, net, events, emitted, hits, alone>>

\* readOneEcho ends with an error: the deadline passes, the read fails, or the
\* context is done.
ReadFail(r) ==
  /\ rpc[r] = "read"
  /\ Miss(r)
  /\ UNCHANGED <<result, ctxVars, sock, net, events, emitted, hits, alone>>

\* Mutant: the request a Run has sent itself is taken for the reply.
MatchesAnyType(r, p) == p.id = Id(r) /\ p.seq = seq[r]

\* isMatchingEchoReply looks at the type, at the identifier, which all Runs share, and at
\* the sequence number.
isMatchingEchoReply(r, p) == p.type = "reply" /\ p.id = Id(r) /\ p.seq = seq[r]

\* The requests that the loops have sent so far.
Requests ==
  {p \in Packets : /\ p.type = "request" /\ p.by \in Runs
                   /\ Open(p.by)
                   /\ p.seq < seq[p.by] \/ (p.seq = seq[p.by] /\ rpc[p.by] # "loop")}

\* What a read may return: a reply of the buffer, a request the Runs have sent, or a packet
\* of another process.
Heard(r) == sock[r] \cup Requests \cup Foreign

\* readOneEcho reads a packet that is a reply; the context, which it looks at
\* before a read, may be done by now ...
ReadReply(r, p) ==
  /\ rpc[r] = "read"
  /\ isMatchingEchoReply(r, p)
  /\ sock' = [sock EXCEPT ![r] = @ \ {p}]
  /\ samples' = [samples EXCEPT ![r][seq[r]] = p]
  /\ hits' = [hits EXCEPT ![r] = @ + 1]
  /\ IF seq[r] < Count THEN Goto(r, "pause") /\ UNCHANGED seq
     ELSE Goto(r, "loop") /\ seq' = [seq EXCEPT ![r] = @ + 1]
  /\ UNCHANGED <<result, ctxVars, net, events, emitted, alone>>

\* ... or it reads on, unless the context is done (ReadFail).
ReadOther(r, p) ==
  /\ rpc[r] = "read"
  /\ ~CtxErr(r)
  /\ ~isMatchingEchoReply(r, p)
  /\ sock' = [sock EXCEPT ![r] = @ \ {p}]
  /\ UNCHANGED <<rpc, runVars, ctxVars, net, events, emitted, hits, alone>>

\* The pause of SendInterval: the time passes, or the context is done.
Pause(r) ==
  /\ rpc[r] = "pause"
  /\ \/ UNCHANGED samples /\ seq' = [seq EXCEPT ![r] = @ + 1]
     \/ CtxErr(r) /\ samples' = Fill(r, seq[r] + 1) /\ seq' = [seq EXCEPT ![r] = Count + 2]
  /\ Goto(r, "loop")
  /\ UNCHANGED <<result, ctxVars, sock, net, events, emitted, hits, alone>>

\* Mutant: one sample too many.
AggregateOneMore(r) ==
  Stats("icmp", Count, Cardinality({k \in 0 .. Count : k = 0 \/ samples[r][k] # Lost}))

\* aggregateResults: every sample that is not negative counts as received.
aggregateResults(r) ==
  Stats("icmp", Count, Cardinality({k \in 1 .. Count : samples[r][k] # Lost}))

\* The loop is over: runICMPBackend closes the socket and returns.
Aggregate(r) ==
  /\ rpc[r] = "loop"
  /\ seq[r] > Count
  /\ Report(r, aggregateResults(r))
  /\ sock' = [sock EXCEPT ![r] = {}]
  /\ seq' = [seq EXCEPT ![r] = 1]
  /\ samples' = [samples EXCEPT ![r] = [k \in 1 .. Count |-> Zero]]
  /\ alone' = [alone EXCEPT ![r] = FALSE]
  /\ UNCHANGED <<ctxVars, net, events, emitted, hits>>

(***************************************************************************)
(* The environment.                                                        *)
(***************************************************************************)

\* A reply arrives, however late: every open socket gets a copy.
Deliver(p) ==
  /\ net' = net \ {p}
  /\ sock' = [r \in Runs |-> IF Open(r) THEN sock[r] \cup {p} ELSE sock[r]]
  /\ UNCHANGED <<rpc, runVars, ctxVars, events, emitted, hits, alone>>

\* The timeout of the task passes.
Expire(r) ==
  /\ rpc[r] \notin {"idle", "emit", "done"}
  /\ ~CtxErr(r)
  /\ expired' = [expired EXCEPT ![r] = TRUE]
  /\ UNCHANGED <<rpc, runVars, stopped, sock, net, events, emitted, hits, alone>>

\* The scheduler is stopped: every context is done, and timeouts do not matter any more.
Stop ==
  /\ stopped' = TRUE
  /\ expired' = [r \in Runs |-> FALSE]
  /\ UNCHANGED <<rpc, runVars, sock, net, events, emitted, hits, alone>>

\* The engine takes an event.
Engine ==
  /\ events > 0
  /\ events' = events - 1
  /\ UNCHANGED <<rpc, runVars, ctxVars, sock, net, emitted, hits, alone>>

\* What a Run does without a packet from outside.
Advance(r) ==
  \/ Command(r) \/ Emit(r) \/ Listen(r)
  \/ LoopCancelled(r) \/ Write(r) \/ WriteFail(r) \/ ReadFail(r)
  \/ Pause(r) \/ Aggregate(r)

Step(r) == Advance(r) \/ \E p \in Heard(r) : ReadReply(r, p) \/ ReadOther(r, p)

Next ==
  \/ \E r \in Runs : (\E b \in Backends : Run(r, b)) \/ Step(r) \/ Expire(r)
  \/ \E p \in net : Deliver(p)
  \/ Stop \/ Engine

\* Goroutines run; reads have deadlines and commands are killed when their context is
\* done, whatever packets arrive; the engine goes on taking events.
Fairness == (\A r \in Runs : WF_vars(Advance(r))) /\ WF_vars(Engine)

Spec == Init /\ [][Next]_vars

FairSpec == Spec /\ Fairness

(***************************************************************************)
(* Properties.                                                             *)
(***************************************************************************)

\* Counters stay in their ranges, samples are packets, lost or untouched.
TypeOK ==
  /\ rpc \in [Runs -> {"idle", "resolve", "command", "loop", "read", "pause", "emit", "done"}]
  /\ seq \in [Runs -> 1 .. Count + 2]
  /\ samples \in [Runs -> [1 .. Count -> {Zero, Lost} \cup Packets]]
  /\ result \in [Runs -> [backend : {"none", "icmp", "command"}, sent : 0 .. Count, 
                          received : 0 .. Count, success : BOOLEAN, error : BOOLEAN]]
  /\ expired \in [Runs -> BOOLEAN] /\ stopped \in BOOLEAN
  /\ sock \in [Runs -> SUBSET Packets] /\ net \subseteq Packets
  /\ events \in 0 .. EventCap
  /\ emitted \in [Runs -> BOOLEAN] /\ hits \in [Runs -> 0 .. Count]
  /\ alone \in [Runs -> BOOLEAN]

\* The processes whose identifier is the agent's.
Twins == {b \in Others : Pid[b] % 65536 = Self % 65536}

\* What an event says is what happened: an ICMP probe counts a packet as received
\* only for a reply it has read, whichever way the loop was left, success means
\* at least one, and an error comes without packets.  Runs share the identifier, and
\* take each other's replies; but a Run that no other Run overlaps, with no reply to
\* an earlier one on its way, takes nothing but the reply to its own packet: not its own
\* request, not a late reply to an earlier packet, and not the traffic of another process,
\* unless the number of that process is the agent's modulo 2^16.
Honest ==
  \A r \in Runs :
    /\ rpc[r] = "emit" =>
         LET e == result[r]
         IN  /\ e.success <=> e.received > 0
             /\ e.error => e.sent = 0
             /\ e.backend = "icmp" /\ ~e.error => e.received = hits[r]
    /\ \A k \in 1 .. Count :
         alone[r] /\ samples[r][k] \notin {Zero, Lost} =>
           \E b \in {r} \cup Twins : samples[r][k] = Packet("reply", b, k)

\* A Run ends, whatever the target answers, and it has sent its event unless the
\* scheduler was stopped.
RunEnds == \A r \in Runs : rpc[r] # "idle" ~> rpc[r] = "done" /\ (emitted[r] \/ stopped)
=============================================================================
