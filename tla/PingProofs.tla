----------------------------- MODULE PingProofs -----------------------------
(***************************************************************************)
(* Theorems about Ping, for any number of overlapping probes, any number   *)
(* of packets and every order in which replies arrive.                     *)
(***************************************************************************)
EXTENDS Ping, FiniteSetTheorems, TLAPS

USE PingAssumption

Rpcs == {"idle", "resolve", "command", "loop", "read", "pause", "emit", "done"}
Results == [backend : {"none", "icmp", "command"}, sent : 0 .. Count,
            received : 0 .. Count, success : BOOLEAN, error : BOOLEAN]
Samples == {Zero, Lost} \cup Packets

\* The samples measured with a reply.
Replies(r) == {k \in 1 .. Count : samples[r][k] \in Packets}

\* The loop has dealt with packet k.
Past(r, k) == k < seq[r] \/ (rpc[r] = "pause" /\ k = seq[r])

\* The loop fills the samples in order and leaves none out: the ones it has passed are
\* replies or lost, the others untouched.  Outside the loop there are none.
LoopRight(r) ==
  /\ ~Open(r) => seq[r] = 1 /\ sock[r] = {} /\ ~alone[r]
  /\ rpc[r] = "read" => seq[r] <= Count
  /\ rpc[r] = "pause" => seq[r] < Count
  /\ \A k \in 1 .. Count : samples[r][k] = Zero <=> ~Past(r, k)

\* Replies are counted when they are read, and reported as many.
HitsRight(r) ==
  /\ rpc[r] \in {"idle", "resolve", "command", "done"} => hits[r] = 0
  /\ Open(r) => hits[r] = Cardinality(Replies(r))

\* The first part of Honest, for one Run.
EventRight(r) ==
  rpc[r] = "emit" =>
    /\ result[r].success <=> result[r].received > 0
    /\ result[r].error => result[r].sent = 0
    /\ result[r].backend = "icmp" /\ ~result[r].error => result[r].received = hits[r]

\* A reply to packet k of a Run, or to one of a process with the same identifier.
Answers(r, k, s) == \E b \in {r} \cup Twins : s = Packet("reply", b, k)

\* No reply to another Run can reach a Run that is alone.
AloneRight(r) ==
  alone[r] =>
    /\ \A p \in net \cup sock[r] : p.by \in {r} \cup Others
    /\ \A k \in 1 .. Count : samples[r][k] \in Packets => Answers(r, k, samples[r][k])

RunRight(r) == LoopRight(r) /\ HitsRight(r) /\ EventRight(r) /\ AloneRight(r)

IInv == TypeOK /\ \A r \in Runs : RunRight(r)

\* Untouched and lost samples are not packets.
LEMMA SampleKinds ==
  Zero # Lost /\ Zero \notin Packets /\ Lost \notin Packets
<1>1. \A p \in Packets : p.seq \in 1 .. Count
  BY DEF Packets, Packet
<1> QED
  BY <1>1 DEF Zero, Lost

\* A packet is what its fields say, and its identifier is its sender's.
LEMMA PacketFields ==
  /\ \A p \in Packets : /\ p = Packet(p.type, p.by, p.seq) /\ p.id = Id(p.by)
                        /\ p.by \in Runs \cup Others /\ p.seq \in 1 .. Count
  /\ \A t, b, k : Packet(t, b, k).by = b
  /\ \A t \in {"request", "reply"}, b \in Runs \cup Others, k \in 1 .. Count : Packet(t, b, k) \in Packets
<1>1. \A t, b, k : /\ Packet(t, b, k).type = t /\ Packet(t, b, k).by = b /\ Packet(t, b, k).seq = k
                   /\ Packet(t, b, k).id = Id(b)
  BY DEF Packet
<1>2. ASSUME NEW p \in Packets
      PROVE  /\ p = Packet(p.type, p.by, p.seq) /\ p.id = Id(p.by)
             /\ p.by \in Runs \cup Others /\ p.seq \in 1 .. Count
  <2>1. PICK t \in {"request", "reply"}, b \in Runs \cup Others, k \in 1 .. Count : p = Packet(t, b, k)
    BY DEF Packets
  <2>2. p.type = t /\ p.by = b /\ p.seq = k /\ p.id = Id(b)
    BY <2>1, <1>1
  <2> QED
    BY <2>1, <2>2
<1> QED
  BY <1>1, <1>2 DEF Packets

\* What a socket hears are packets.
LEMMA HeardPackets ==
  ASSUME TypeOK, NEW r \in Runs
  PROVE  Heard(r) \subseteq Packets
  BY DEF Heard, Requests, Foreign, TypeOK

\* A reply that a Run takes is one to its own packet or to a twin's, unless it is in the
\* buffer and another Run's.
LEMMA TakenAnswers ==
  ASSUME TypeOK, NEW r \in Runs, NEW p \in Heard(r), isMatchingEchoReply(r, p),
         \A q \in sock[r] : q.by \in {r} \cup Others
  PROVE  Answers(r, seq[r], p)
<1>1. p \in Packets /\ p.type = "reply" /\ p.id = Id(r) /\ p.seq = seq[r]
  BY HeardPackets DEF isMatchingEchoReply
<1>2. p.by \in {r} \cup Others
  BY <1>1 DEF Heard, Requests, Foreign
<1>3. p.id = Id(p.by) /\ p = Packet("reply", p.by, seq[r])
  BY <1>1, PacketFields
<1>4. p.by # r => p.by \in Twins
  BY <1>1, <1>2, <1>3 DEF Id, Twins
<1> QED
  BY <1>2, <1>3, <1>4 DEF Answers

\* There are at most Count replies.
LEMMA RepliesFinite ==
  ASSUME NEW r \in Runs
  PROVE  /\ IsFiniteSet(Replies(r)) /\ Cardinality(Replies(r)) \in 0 .. Count
<1>1. IsFiniteSet(1 .. Count) /\ Cardinality(1 .. Count) = Count
  BY FS_Interval
<1>2. Replies(r) \subseteq 1 .. Count
  BY DEF Replies
<1>3. IsFiniteSet(Replies(r)) /\ Cardinality(Replies(r)) <= Count
  BY <1>1, <1>2, FS_Subset
<1> QED
  BY <1>3, FS_CardinalityType

LEMMA PingInit == Init => IInv
<1> SUFFICES ASSUME Init PROVE IInv
  OBVIOUS
<1>1. TypeOK
  <2>1. NoEvent \in Results
    BY DEF NoEvent, Results
  <2>2. [k \in 1 .. Count |-> Zero] \in [1 .. Count -> Samples]
    BY DEF Samples
  <2>3. 1 \in 1 .. Count + 2 /\ 0 \in 0 .. Count /\ 0 \in 0 .. EventCap
    OBVIOUS
  <2>4. samples \in [Runs -> [1 .. Count -> Samples]] /\ result \in [Runs -> Results]
    BY <2>1, <2>2 DEF Init
  <2> QED
    BY <2>3, <2>4 DEF Init, TypeOK, Results, Samples
<1>2. ASSUME NEW r \in Runs PROVE RunRight(r)
  BY <1>2 DEF Init, RunRight, LoopRight, HitsRight, EventRight, AloneRight, Open, Past
<1> QED
  BY <1>1, <1>2 DEF IInv

\* What a backend reports is an event.
LEMMA ReportType ==
  /\ NoEvent \in Results
  /\ \A b \in {"none", "icmp", "command"} : Failure(b) \in Results
  /\ \A b \in {"icmp", "command"}, s, n \in 0 .. Count : Stats(b, s, n) \in Results
  /\ \A o \in Outputs : parseCommandOutput(o) \in Results
<1>1. NoEvent \in Results
  BY DEF NoEvent, Results
<1>2. \A b \in {"none", "icmp", "command"} : Failure(b) \in Results
  <2> TAKE b \in {"none", "icmp", "command"}
  <2>1. [NoEvent EXCEPT !.backend = b] \in Results
    BY <1>1 DEF Results
  <2> QED
    BY <1>1, <2>1 DEF Failure, Results
<1>3. \A b \in {"icmp", "command"}, s, n \in 0 .. Count : Stats(b, s, n) \in Results
  BY DEF Stats, Results
<1>4. ASSUME NEW o \in Outputs PROVE parseCommandOutput(o) \in Results
  <2>1. o.stats = <<>> \/ o.stats \in (0 .. Count) \X (0 .. Count)
    BY DEF Outputs
  <2>2. CASE o.stats = <<>>
    BY <2>2, <1>2 DEF parseCommandOutput
  <2>3. CASE o.stats \in (0 .. Count) \X (0 .. Count)
    <3>1. o.stats[1] \in 0 .. Count /\ o.stats[2] \in 0 .. Count
      BY <2>3
    <3> QED
      BY <3>1, <1>2, <1>3 DEF parseCommandOutput
  <2> QED
    BY <2>1, <2>2, <2>3
<1> QED
  BY <1>1, <1>2, <1>3, <1>4

\* The fields of a failure, and of the statistics.
LEMMA ReportFields ==
  /\ \A b \in {"none", "icmp", "command"} :
       Failure(b).error = TRUE /\ Failure(b).sent = 0 /\ Failure(b).received = 0 /\ Failure(b).success = FALSE
  /\ \A b \in {"icmp", "command"}, s, n \in 0 .. Count :
       Stats(b, s, n).error = FALSE /\ Stats(b, s, n).received = n /\ (Stats(b, s, n).success <=> n > 0)
       /\ Stats(b, s, n).backend = b
<1>1. \A b \in {"none", "icmp", "command"} :
        Failure(b).error = TRUE /\ Failure(b).sent = 0 /\ Failure(b).received = 0 /\ Failure(b).success = FALSE
  BY DEF Failure, NoEvent
<1>2. \A b \in {"icmp", "command"}, s, n \in 0 .. Count :
        Stats(b, s, n).error = FALSE /\ Stats(b, s, n).received = n /\ (Stats(b, s, n).success <=> n > 0)
        /\ Stats(b, s, n).backend = b
  BY DEF Stats
<1> QED
  BY <1>1, <1>2

\* The result of a Run that has not measured: a failure or the statistics of the command.
Unmeasured(e) ==
  /\ e \in Results
  /\ e.success <=> e.received > 0
  /\ e.error => e.sent = 0
  /\ e.backend = "icmp" => e.error

LEMMA CommandUnmeasured ==
  /\ \A b \in {"none", "icmp", "command"} : Unmeasured(Failure(b))
  /\ \A o \in Outputs : Unmeasured(parseCommandOutput(o))
<1>1. \A b \in {"none", "icmp", "command"} : Unmeasured(Failure(b))
  BY ReportType, ReportFields DEF Unmeasured
<1>2. \A s, n \in 0 .. Count : Unmeasured(Stats("command", s, n))
  BY ReportType, ReportFields DEF Unmeasured
<1>3. ASSUME NEW o \in Outputs PROVE Unmeasured(parseCommandOutput(o))
  <2>1. o.stats = <<>> \/ o.stats \in (0 .. Count) \X (0 .. Count)
    BY DEF Outputs
  <2>2. CASE o.stats = <<>>
    BY <2>2, <1>1 DEF parseCommandOutput
  <2>3. CASE o.stats \in (0 .. Count) \X (0 .. Count)
    <3>1. o.stats[1] \in 0 .. Count /\ o.stats[2] \in 0 .. Count
      BY <2>3
    <3> QED
      BY <3>1, <1>1, <1>2 DEF parseCommandOutput
  <2> QED
    BY <2>1, <2>2, <2>3
<1> QED
  BY <1>1, <1>3

LEMMA PingTypeStep ==
  ASSUME IInv, [Next]_vars
  PROVE  TypeOK'
<1> USE DEF runVars, ctxVars
<1> TypeOK
  BY DEF IInv
<1>a. Count \in Nat \ {0} /\ EventCap \in Nat \ {0}
  OBVIOUS
<1>b. rpc \in [Runs -> Rpcs] /\ result \in [Runs -> Results]
  BY DEF TypeOK, Rpcs, Results
<1>c. ASSUME rpc' \in [Runs -> Rpcs], result' \in [Runs -> Results],
             UNCHANGED <<seq, samples, stopped, sock, net>>, expired' \in [Runs -> BOOLEAN],
             events' \in 0 .. EventCap, emitted' \in [Runs -> BOOLEAN], hits' \in [Runs -> 0 .. Count],
             alone' \in [Runs -> BOOLEAN]
      PROVE  TypeOK'
  BY <1>c DEF TypeOK, Rpcs, Results
<1>d. expired \in [Runs -> BOOLEAN] /\ events \in 0 .. EventCap /\ emitted \in [Runs -> BOOLEAN]
      /\ hits \in [Runs -> 0 .. Count] /\ alone \in [Runs -> BOOLEAN]
  BY DEF TypeOK
<1>e. ASSUME NEW r \in Runs, NEW e \in Results, Report(r, e)
      PROVE  rpc' \in [Runs -> Rpcs] /\ result' \in [Runs -> Results]
  BY <1>e, <1>b DEF Report, Goto, Rpcs
<1>1. ASSUME NEW r \in Runs, NEW b \in Backends, Run(r, b) PROVE TypeOK'
  <2>1. rpc' \in [Runs -> Rpcs] /\ result' \in [Runs -> Results]
    <3>1. CASE b = "icmp" \/ b = "command"
      BY <1>1, <1>b, <3>1 DEF Run, Goto, Rpcs
    <3>2. CASE b # "icmp" /\ b # "command"
      BY <1>1, <1>e, <3>2, ReportType DEF Run
    <3> QED
      BY <3>1, <3>2
  <2> QED
    BY <1>1, <2>1, <1>c, <1>d DEF Run
<1>2. ASSUME NEW r \in Runs, Command(r) PROVE TypeOK'
  <2>1. rpc' \in [Runs -> Rpcs] /\ result' \in [Runs -> Results]
    BY <1>2, <1>e, ReportType DEF Command
  <2> QED
    BY <1>2, <2>1, <1>c, <1>d DEF Command
<1>3. ASSUME NEW r \in Runs, Emit(r) PROVE TypeOK'
  <2>0. events < EventCap => events + 1 \in 0 .. EventCap
    BY <1>a, <1>d
  <2>1. events' \in 0 .. EventCap /\ emitted' \in [Runs -> BOOLEAN]
    BY <1>3, <1>d, <2>0 DEF Emit
  <2>2. rpc' \in [Runs -> Rpcs] /\ result' \in [Runs -> Results]
    BY <1>3, <1>b, ReportType DEF Emit, Goto, Rpcs
  <2>3. expired' \in [Runs -> BOOLEAN] /\ hits' \in [Runs -> 0 .. Count]
    BY <1>3, <1>a, <1>d DEF Emit
  <2> QED
    BY <1>3, <1>c, <1>d, <2>1, <2>2, <2>3 DEF Emit
<1>4. ASSUME NEW r \in Runs, Listen(r) PROVE TypeOK'
  <2>1. alone' \in [Runs -> BOOLEAN]
    BY <1>4 DEF Listen, TypeOK
  <2>2. rpc' \in [Runs -> Rpcs] /\ result' \in [Runs -> Results]
    <3>1. CASE Report(r, Failure("icmp"))
      BY <3>1, <1>e, ReportType
    <3>2. CASE Goto(r, "loop") /\ UNCHANGED result
      BY <3>2, <1>b DEF Goto, Rpcs
    <3> QED
      BY <1>4, <3>1, <3>2 DEF Listen
  <2> QED
    BY <1>4, <1>c, <1>d, <2>1, <2>2 DEF Listen
<1>5. ASSUME NEW r \in Runs, NEW k, samples' = LostFrom(r, k)
      PROVE  samples' \in [Runs -> [1 .. Count -> Samples]]
  BY <1>5 DEF LostFrom, TypeOK, Samples
<1>6. ASSUME NEW r \in Runs, LoopCancelled(r) PROVE TypeOK'
  <2>1. samples' \in [Runs -> [1 .. Count -> Samples]]
    BY <1>5, <1>6 DEF LoopCancelled, Fill
  <2> QED
    BY <1>6, <2>1 DEF LoopCancelled, TypeOK, Samples
<1>7. ASSUME NEW r \in Runs, Write(r) PROVE TypeOK'
  <2>1. Packet("reply", r, seq[r]) \in Packets
    BY <1>7, PacketFields DEF Write, TypeOK
  <2>2. net' \subseteq Packets
    BY <1>7, <2>1 DEF Write, TypeOK
  <2>3. alone' \in [Runs -> BOOLEAN]
    BY <1>7 DEF Write, TypeOK
  <2> QED
    BY <1>7, <2>2, <2>3 DEF Write, Goto, TypeOK
<1>8. ASSUME NEW r \in Runs, seq[r] <= Count, Miss(r)
      PROVE  /\ rpc' \in [Runs -> Rpcs] /\ seq' \in [Runs -> 1 .. Count + 2]
             /\ samples' \in [Runs -> [1 .. Count -> Samples]]
  BY <1>8 DEF Miss, Goto, TypeOK, Samples, Rpcs
<1>9. ASSUME NEW r \in Runs, WriteFail(r) \/ ReadFail(r) PROVE TypeOK'
  <2>1. seq[r] <= Count
    BY <1>9 DEF WriteFail, ReadFail, IInv, RunRight, LoopRight
  <2> QED
    BY <1>9, <1>8, <2>1 DEF WriteFail, ReadFail, TypeOK, Rpcs, Samples
<1>10. ASSUME NEW r \in Runs, NEW p \in Heard(r), ReadReply(r, p) PROVE TypeOK'
  <2>1. p \in Packets /\ seq[r] \in 1 .. Count /\ seq[r] <= Count
    BY <1>10, HeardPackets DEF ReadReply, TypeOK, IInv, RunRight, LoopRight
  <2>2. hits[r] + 1 \in 0 .. Count
    <3>1. Open(r) /\ hits[r] = Cardinality(Replies(r))
      BY <1>10 DEF ReadReply, Open, IInv, RunRight, HitsRight
    <3>2. seq[r] \notin Replies(r)
      BY <1>10, <2>1, SampleKinds DEF ReadReply, Replies, IInv, RunRight, LoopRight, Past
    <3>3. Replies(r) \cup {seq[r]} \subseteq 1 .. Count
      BY <2>1 DEF Replies
    <3>4. Cardinality(Replies(r) \cup {seq[r]}) = Cardinality(Replies(r)) + 1
      BY <3>2, RepliesFinite, FS_AddElement
    <3>5. IsFiniteSet(1 .. Count) /\ Cardinality(1 .. Count) = Count
      BY FS_Interval
    <3>6. Cardinality(Replies(r) \cup {seq[r]}) <= Count
      BY <3>3, <3>5, FS_Subset
    <3> QED
      BY <3>1, <3>4, <3>6, RepliesFinite
  <2>3. samples' \in [Runs -> [1 .. Count -> Samples]]
    BY <1>10, <2>1 DEF ReadReply, TypeOK, Samples
  <2>4. sock' \in [Runs -> SUBSET Packets] /\ hits' \in [Runs -> 0 .. Count]
    BY <1>10, <2>2 DEF ReadReply, TypeOK
  <2>5. rpc' \in [Runs -> Rpcs]
    BY <1>10, <1>b DEF ReadReply, Goto, Rpcs
  <2>6. seq[r] + 1 \in 1 .. Count + 2 /\ seq \in [Runs -> 1 .. Count + 2]
    BY <2>1, <1>a DEF TypeOK
  <2>7. seq' \in [Runs -> 1 .. Count + 2]
    BY <1>10, <2>6 DEF ReadReply
  <2> QED
    BY <1>10, <2>3, <2>4, <2>5, <2>7 DEF ReadReply, TypeOK, Rpcs, Samples
<1>11. ASSUME NEW r \in Runs, NEW p, ReadOther(r, p) PROVE TypeOK'
  BY <1>11 DEF ReadOther, TypeOK
<1>12. ASSUME NEW r \in Runs, Pause(r) PROVE TypeOK'
  <2>1. seq[r] < Count
    BY <1>12 DEF Pause, IInv, RunRight, LoopRight
  <2>2. samples' \in [Runs -> [1 .. Count -> Samples]]
    BY <1>5, <1>12 DEF Pause, Fill, TypeOK, Samples
  <2>3. seq[r] + 1 \in 1 .. Count + 2 /\ Count + 2 \in 1 .. Count + 2 /\ seq \in [Runs -> 1 .. Count + 2]
    BY <2>1, <1>a DEF TypeOK
  <2>4. seq' \in [Runs -> 1 .. Count + 2]
    BY <1>12, <2>3 DEF Pause
  <2> QED
    BY <1>12, <2>2, <2>4 DEF Pause, Goto, TypeOK, Samples
<1>13. ASSUME NEW r \in Runs, Aggregate(r) PROVE TypeOK'
  <2>1. {k \in 1 .. Count : samples[r][k] # Lost} \subseteq 1 .. Count
    OBVIOUS
  <2>2. IsFiniteSet(1 .. Count) /\ Cardinality(1 .. Count) = Count
    BY FS_Interval
  <2>3. Cardinality({k \in 1 .. Count : samples[r][k] # Lost}) \in 0 .. Count
    BY <2>1, <2>2, FS_Subset, FS_CardinalityType
  <2>4. aggregateResults(r) \in Results
    BY <2>3, ReportType DEF aggregateResults
  <2>5. samples' \in [Runs -> [1 .. Count -> Samples]]
    BY <1>13 DEF Aggregate, TypeOK, Samples
  <2> QED
    BY <1>13, <2>4, <2>5, <1>a DEF Aggregate, Report, Goto, TypeOK, Results, Samples
<1>14. ASSUME NEW p \in net, Deliver(p) PROVE TypeOK'
  BY <1>14 DEF Deliver, TypeOK
<1>15. ASSUME NEW r \in Runs, Expire(r) PROVE TypeOK'
  BY <1>15 DEF Expire, TypeOK
<1>16. CASE Stop
  BY <1>16 DEF Stop, TypeOK
<1>17. CASE Engine
  BY <1>17 DEF Engine, TypeOK
<1>18. CASE UNCHANGED vars
  BY <1>18 DEF vars, TypeOK
<1> QED
  BY <1>1, <1>2, <1>3, <1>4, <1>6, <1>7, <1>9, <1>10, <1>11, <1>12, <1>13, <1>14, <1>15,
     <1>16, <1>17, <1>18
  DEF Next, Step, Advance

\* A step that leaves a Run, its socket and the replies on their way to it alone.
LEMMA RunFrame ==
  ASSUME NEW r \in Runs, RunRight(r), rpc'[r] = rpc[r], seq'[r] = seq[r], samples'[r] = samples[r],
         result'[r] = result[r], sock'[r] = sock[r], hits'[r] = hits[r],
         alone'[r] => alone[r], alone'[r] => net' \subseteq net
  PROVE  RunRight(r)'
<1>1. Open(r)' <=> Open(r)
  BY DEF Open
<1>2. Replies(r)' = Replies(r)
  BY DEF Replies
<1>3. LoopRight(r)'
  BY <1>1 DEF RunRight, LoopRight, Past
<1>4. HitsRight(r)' /\ EventRight(r)'
  BY <1>1, <1>2 DEF RunRight, HitsRight, EventRight
<1>5. AloneRight(r)'
  BY DEF RunRight, AloneRight
<1> QED
  BY <1>3, <1>4, <1>5 DEF RunRight

\* Outside the loop nothing is measured.
LEMMA OutsideLoop ==
  ASSUME TypeOK, NEW r \in Runs, RunRight(r), ~Open(r)
  PROVE  \A k \in 1 .. Count : samples[r][k] = Zero
  BY DEF TypeOK, RunRight, LoopRight, Past, Open

LEMMA RunStep ==
  ASSUME IInv, [Next]_vars, NEW r \in Runs
  PROVE  RunRight(r)'
<1> USE DEF runVars, ctxVars
<1>a. TypeOK /\ RunRight(r) /\ Count \in Nat \ {0}
  BY DEF IInv
<1>b. /\ seq[r] \in 1 .. Count + 2 /\ samples \in [Runs -> [1 .. Count -> Samples]]
      /\ net \subseteq Packets /\ sock[r] \subseteq Packets
      /\ hits[r] \in 0 .. Count /\ alone \in [Runs -> BOOLEAN]
  BY <1>a DEF TypeOK, Samples
<1>c. ASSUME NEW x \in Runs, ~Open(x), rpc'[x] \in {"resolve", "command"}, hits'[x] = 0,
             UNCHANGED <<seq, samples, sock, alone>>, r = x
      PROVE  RunRight(r)'
  <2>1. \A k \in 1 .. Count : samples[r][k] = Zero
    BY <1>a, <1>c, OutsideLoop
  <2> QED
    BY <1>a, <1>b, <1>c, <2>1
    DEF RunRight, LoopRight, HitsRight, EventRight, AloneRight, Open, Past
<1>d. ASSUME NEW x \in Runs, ~Open(x), NEW e, Unmeasured(e), result'[x] = e, rpc'[x] = "emit",
             UNCHANGED <<seq, samples, sock, alone>>, r = x
      PROVE  RunRight(r)'
  <2>1. \A k \in 1 .. Count : samples[r][k] = Zero
    BY <1>a, <1>d, OutsideLoop
  <2> QED
    BY <1>a, <1>b, <1>d, <2>1
    DEF RunRight, LoopRight, HitsRight, EventRight, AloneRight, Open, Past, Unmeasured
<1>1. ASSUME NEW x \in Runs, NEW b \in Backends, Run(x, b) PROVE RunRight(r)'
  <2>1. CASE r # x
    <3>1. rpc'[r] = rpc[r] /\ result'[r] = result[r]
      BY <1>1, <2>1, <1>a DEF Run, Goto, Report, TypeOK
    <3> QED
      BY <1>1, <1>a, <3>1, RunFrame DEF Run
  <2>2. CASE r = x /\ b \in {"icmp", "command"}
    <3>1. ~Open(x) /\ rpc'[x] \in {"resolve", "command"} /\ hits'[x] = 0
      BY <1>1, <1>a, <2>2 DEF Run, Goto, Open, TypeOK, RunRight, HitsRight
    <3> QED
      BY <1>1, <1>c, <2>2, <3>1 DEF Run
  <2>3. CASE r = x /\ b \notin {"icmp", "command"}
    <3>1. ~Open(x) /\ rpc'[x] = "emit" /\ result'[x] = Failure("none")
      BY <1>1, <1>a, <2>3 DEF Run, Report, Goto, Open, TypeOK
    <3> QED
      BY <1>1, <1>d, <2>3, <3>1, CommandUnmeasured DEF Run
  <2> QED
    BY <2>1, <2>2, <2>3
<1>2. ASSUME NEW x \in Runs, Command(x) PROVE RunRight(r)'
  <2>1. PICK e : Unmeasured(e) /\ Report(x, e)
    BY <1>2, CommandUnmeasured DEF Command
  <2>2. CASE r # x
    <3>1. rpc'[r] = rpc[r] /\ result'[r] = result[r]
      BY <2>1, <2>2, <1>a DEF Goto, Report, TypeOK
    <3> QED
      BY <1>2, <1>a, <3>1, RunFrame DEF Command
  <2>3. CASE r = x
    <3>1. ~Open(x) /\ rpc'[x] = "emit" /\ result'[x] = e
      BY <1>2, <2>1, <1>a DEF Command, Report, Goto, Open, TypeOK
    <3> QED
      BY <1>2, <1>d, <2>1, <2>3, <3>1 DEF Command
  <2> QED
    BY <2>2, <2>3
<1>3. ASSUME NEW x \in Runs, Emit(x) PROVE RunRight(r)'
  <2>1. CASE r # x
    <3>1. rpc'[r] = rpc[r] /\ result'[r] = result[r] /\ hits'[r] = hits[r]
      BY <1>3, <2>1, <1>a DEF Emit, Goto, TypeOK
    <3> QED
      BY <1>3, <1>a, <3>1, RunFrame DEF Emit
  <2>2. CASE r = x
    <3>1. /\ ~Open(r) /\ rpc'[r] = "done" /\ hits'[r] = 0
          /\ UNCHANGED <<seq, samples, sock, alone>>
      BY <1>3, <2>2, <1>a DEF Emit, Goto, Open, TypeOK
    <3>2. \A k \in 1 .. Count : samples[r][k] = Zero
      BY <1>a, <3>1, OutsideLoop
    <3> QED
      BY <1>a, <1>b, <3>1, <3>2
      DEF RunRight, LoopRight, HitsRight, EventRight, AloneRight, Open, Past
  <2> QED
    BY <2>1, <2>2
<1>4. ASSUME NEW x \in Runs, Listen(x) PROVE RunRight(r)'
  <2>1. CASE r # x
    <3>1. rpc'[r] = rpc[r] /\ result'[r] = result[r] /\ alone'[r] = alone[r]
      BY <1>4, <2>1, <1>a DEF Listen, Goto, Report, TypeOK
    <3> QED
      BY <1>4, <1>a, <3>1, RunFrame DEF Listen
  <2>2. CASE r = x /\ Report(x, Failure("icmp")) /\ UNCHANGED alone
    <3>1. ~Open(x) /\ rpc'[x] = "emit" /\ result'[x] = Failure("icmp")
      BY <1>4, <2>2, <1>a DEF Listen, Report, Goto, Open, TypeOK
    <3> QED
      BY <1>4, <1>d, <2>2, <3>1, CommandUnmeasured DEF Listen
  <2>3. CASE /\ r = x /\ Goto(x, "loop")
             /\ alone' = [alone EXCEPT ![x] = ~\E y \in Runs \ {x} : Open(y) \/ \E p \in net : p.by = y]
    <3>1. /\ ~Open(r) /\ rpc[r] = "resolve" /\ rpc'[r] = "loop"
          /\ UNCHANGED <<seq, samples, sock, net, hits>>
          /\ alone'[r] => ~\E y \in Runs \ {r} : \E p \in net : p.by = y
      BY <1>4, <2>3, <1>a, <1>b DEF Listen, Goto, Open, TypeOK
    <3>2. \A k \in 1 .. Count : samples[r][k] = Zero
      BY <1>a, <3>1, OutsideLoop
    <3>3. Replies(r)' = {}
      BY <3>1, <3>2, SampleKinds DEF Replies
    <3>4. HitsRight(r)'
      BY <1>a, <3>1, <3>3, FS_EmptySet DEF RunRight, HitsRight, Open
    <3>5. seq[r] = 1 /\ sock[r] = {}
      BY <1>a, <3>1 DEF RunRight, LoopRight
    <3>6. LoopRight(r)'
      BY <3>1, <3>2, <3>5 DEF LoopRight, Open, Past
    <3>7. AloneRight(r)'
      <4>1. \A p \in net : p.by \in Runs \cup Others
        BY <1>b, PacketFields
      <4> QED
        BY <3>1, <3>2, <3>5, <4>1, SampleKinds DEF AloneRight
    <3> QED
      BY <3>1, <3>4, <3>6, <3>7 DEF RunRight, EventRight
  <2> QED
    BY <1>4, <2>1, <2>2, <2>3 DEF Listen
<1>e. ASSUME Open(r), Open(r)', hits'[r] = hits[r], net' = net, sock'[r] \subseteq sock[r], alone' = alone,
             \A k \in 1 .. Count : \/ samples'[r][k] = samples[r][k]
                                   \/ samples[r][k] = Zero /\ samples'[r][k] = Lost,
             LoopRight(r)'
      PROVE  RunRight(r)'
  <2>1. Replies(r)' = Replies(r)
    BY <1>e, SampleKinds DEF Replies
  <2>2. HitsRight(r)'
    BY <1>a, <1>e, <2>1 DEF RunRight, HitsRight, Open
  <2>3. AloneRight(r)'
    BY <1>a, <1>e, SampleKinds DEF RunRight, AloneRight
  <2> QED
    BY <1>e, <2>2, <2>3 DEF RunRight, EventRight, Open
<1>f. ASSUME NEW x \in Runs, Miss(x), rpc[x] \in {"loop", "read"}, seq[x] <= Count,
             UNCHANGED <<result, sock, net, hits, alone>>
      PROVE  RunRight(r)'
  <2>1. CASE r # x
    <3>1. rpc'[r] = rpc[r] /\ seq'[r] = seq[r] /\ samples'[r] = samples[r]
      BY <1>f, <2>1, <1>a DEF Miss, Goto, TypeOK
    <3> QED
      BY <1>f, <1>a, <3>1, RunFrame
  <2>2. CASE r = x
    <3>1. /\ rpc'[r] = "loop" /\ seq'[r] = seq[r] + 1
          /\ \A k \in 1 .. Count : samples'[r][k] = IF k = seq[r] THEN Lost ELSE samples[r][k]
      BY <1>f, <2>2, <1>a, <1>b DEF Miss, Goto, TypeOK
    <3>2. samples[r][seq[r]] = Zero
      BY <1>a, <1>b, <1>f, <2>2 DEF RunRight, LoopRight, Past
    <3>3. LoopRight(r)'
      BY <1>a, <1>b, <1>f, <2>2, <3>1, SampleKinds DEF RunRight, LoopRight, Past, Open
    <3> QED
      BY <1>e, <1>f, <2>2, <3>1, <3>2, <3>3 DEF Open
  <2> QED
    BY <2>1, <2>2
<1>5. ASSUME NEW x \in Runs, LoopCancelled(x) PROVE RunRight(r)'
  <2>1. CASE r # x
    <3>1. seq'[r] = seq[r] /\ samples'[r] = samples[r]
      BY <1>5, <2>1, <1>a DEF LoopCancelled, Fill, LostFrom, TypeOK
    <3> QED
      BY <1>5, <1>a, <3>1, RunFrame DEF LoopCancelled
  <2>2. CASE r = x
    <3>1. /\ rpc[r] = "loop" /\ seq'[r] = Count + 1 /\ UNCHANGED <<rpc, sock, net, hits, alone>>
          /\ \A k \in 1 .. Count : samples'[r][k] = IF k >= seq[r] THEN Lost ELSE samples[r][k]
      BY <1>5, <2>2, <1>a, <1>b DEF LoopCancelled, Fill, LostFrom, TypeOK
    <3>2. \A k \in 1 .. Count : k >= seq[r] => samples[r][k] = Zero
      BY <1>a, <1>b, <3>1 DEF RunRight, LoopRight, Past
    <3>3. LoopRight(r)'
      <4>1. \A k \in 1 .. Count : k < seq[r] => samples[r][k] # Zero
        BY <1>a, <1>b, <3>1 DEF RunRight, LoopRight, Past
      <4>2. \A k \in 1 .. Count : samples'[r][k] # Zero /\ k < seq'[r]
        <5> TAKE k \in 1 .. Count
        <5>1. k < seq'[r]
          BY <1>a, <3>1
        <5>2. CASE k >= seq[r]
          BY <3>1, <5>1, <5>2, SampleKinds
        <5>3. CASE ~(k >= seq[r])
          BY <1>b, <3>1, <4>1, <5>1, <5>3
        <5> QED
          BY <5>2, <5>3
      <4> QED
        BY <3>1, <4>2 DEF LoopRight, Past, Open
    <3> QED
      BY <1>e, <3>1, <3>2, <3>3 DEF Open
  <2> QED
    BY <2>1, <2>2
<1>6. ASSUME NEW x \in Runs, Write(x) PROVE RunRight(r)'
  <2>1. CASE r # x
    <3>1. rpc'[r] = rpc[r] /\ (alone'[r] => alone[r] /\ ~Open(r))
      BY <1>6, <2>1, <1>a DEF Write, Goto, TypeOK
    <3>2. ~alone'[r]
      BY <1>a, <3>1 DEF RunRight, LoopRight
    <3> QED
      BY <1>6, <1>a, <3>1, <3>2, RunFrame DEF Write
  <2>2. CASE r = x
    <3>1. /\ rpc[r] = "loop" /\ rpc'[r] = "read" /\ seq[r] <= Count
          /\ UNCHANGED <<seq, samples, sock, hits>> /\ alone'[r] = alone[r]
          /\ net' \subseteq net \cup {Packet("reply", r, seq[r])}
      BY <1>6, <2>2, <1>a DEF Write, Goto, TypeOK
    <3>2. LoopRight(r)'
      BY <1>a, <1>b, <3>1 DEF RunRight, LoopRight, Past, Open
    <3>3. HitsRight(r)'
      BY <1>a, <3>1 DEF RunRight, HitsRight, Open, Replies
    <3>4. Packet("reply", r, seq[r]).by = r
      BY PacketFields
    <3>5. AloneRight(r)'
      BY <1>a, <3>1, <3>4 DEF RunRight, AloneRight
    <3> QED
      BY <3>1, <3>2, <3>3, <3>5 DEF RunRight, EventRight
  <2> QED
    BY <2>1, <2>2
<1>7. ASSUME NEW x \in Runs, WriteFail(x) \/ ReadFail(x) PROVE RunRight(r)'
  <2>1. seq[x] <= Count
    BY <1>7 DEF WriteFail, ReadFail, IInv, RunRight, LoopRight
  <2> QED
    BY <1>7, <1>f, <2>1 DEF WriteFail, ReadFail
<1>8. ASSUME NEW x \in Runs, NEW p \in Heard(x), ReadReply(x, p) PROVE RunRight(r)'
  <2>1. CASE r # x
    <3>1. /\ rpc'[r] = rpc[r] /\ seq'[r] = seq[r] /\ samples'[r] = samples[r]
          /\ sock'[r] = sock[r] /\ hits'[r] = hits[r]
      BY <1>8, <2>1, <1>a DEF ReadReply, Goto, TypeOK
    <3> QED
      BY <1>8, <1>a, <3>1, RunFrame DEF ReadReply
  <2>2. CASE r = x
    <3>1. /\ rpc[r] = "read" /\ UNCHANGED <<net, alone>>
          /\ \A k \in 1 .. Count : samples'[r][k] = IF k = seq[r] THEN p ELSE samples[r][k]
          /\ sock'[r] \subseteq sock[r] /\ hits'[r] = hits[r] + 1
          /\ \/ seq[r] < Count /\ rpc'[r] = "pause" /\ seq'[r] = seq[r]
             \/ ~(seq[r] < Count) /\ rpc'[r] = "loop" /\ seq'[r] = seq[r] + 1
      BY <1>8, <2>2, <1>a, <1>b DEF ReadReply, Goto, TypeOK
    <3>2. p \in Packets /\ seq[r] \in 1 .. Count
      BY <1>8, <2>2, <3>1, <1>a, <1>b, HeardPackets DEF RunRight, LoopRight
    <3>3. samples[r][seq[r]] = Zero
      BY <1>a, <3>1, <3>2 DEF RunRight, LoopRight, Past
    <3>4. LoopRight(r)'
      <4>1. \A k \in 1 .. Count : samples[r][k] = Zero <=> ~(k < seq[r])
        BY <1>a, <3>1 DEF RunRight, LoopRight, Past
      <4>2. \A k \in 1 .. Count : samples'[r][k] = Zero <=> ~(k < seq[r] + 1)
        BY <3>1, <3>2, <4>1, SampleKinds
      <4>3. \A k \in 1 .. Count : Past(r, k)' <=> k < seq[r] + 1
        BY <3>1, <3>2 DEF Past
      <4> QED
        BY <3>1, <3>2, <4>2, <4>3 DEF LoopRight, Open
    <3>5. Replies(r)' = Replies(r) \cup {seq[r]} /\ seq[r] \notin Replies(r)
      BY <3>1, <3>2, <3>3, SampleKinds DEF Replies
    <3>6. HitsRight(r)'
      <4>1. Cardinality(Replies(r) \cup {seq[r]}) = Cardinality(Replies(r)) + 1
        BY <3>5, RepliesFinite, FS_AddElement
      <4> QED
        BY <1>a, <3>1, <3>5, <4>1 DEF RunRight, HitsRight, Open
    <3>7. alone[r] => Answers(r, seq[r], p)
      BY <1>a, <1>8, <2>2, TakenAnswers DEF RunRight, AloneRight, ReadReply
    <3>8. AloneRight(r)'
      BY <1>a, <3>1, <3>7 DEF RunRight, AloneRight
    <3> QED
      BY <3>1, <3>4, <3>6, <3>8 DEF RunRight, EventRight
  <2> QED
    BY <2>1, <2>2
<1>9. ASSUME NEW x \in Runs, NEW p, ReadOther(x, p) PROVE RunRight(r)'
  <2>1. CASE r # x
    <3>1. sock'[r] = sock[r]
      BY <1>9, <2>1, <1>a DEF ReadOther, TypeOK
    <3> QED
      BY <1>9, <1>a, <3>1, RunFrame DEF ReadOther
  <2>2. CASE r = x
    <3>1. /\ rpc[r] = "read" /\ UNCHANGED <<rpc, seq, samples, net, hits, alone>>
          /\ sock'[r] \subseteq sock[r]
      BY <1>9, <2>2, <1>a DEF ReadOther, TypeOK
    <3>2. LoopRight(r)'
      BY <1>a, <3>1 DEF RunRight, LoopRight, Past, Open
    <3> QED
      BY <1>e, <3>1, <3>2 DEF Open
  <2> QED
    BY <2>1, <2>2
<1>10. ASSUME NEW x \in Runs, Pause(x) PROVE RunRight(r)'
  <2>1. CASE r # x
    <3>1. rpc'[r] = rpc[r] /\ seq'[r] = seq[r] /\ samples'[r] = samples[r]
      BY <1>10, <2>1, <1>a DEF Pause, Fill, LostFrom, Goto, TypeOK
    <3> QED
      BY <1>10, <1>a, <3>1, RunFrame DEF Pause
  <2>2. CASE r = x
    <3>1. /\ rpc[r] = "pause" /\ rpc'[r] = "loop" /\ UNCHANGED <<sock, net, hits, alone>>
          /\ seq[r] < Count
      BY <1>10, <2>2, <1>a DEF Pause, Goto, TypeOK, RunRight, LoopRight
    <3>2. \/ samples'[r] = samples[r] /\ seq'[r] = seq[r] + 1
          \/ /\ \A k \in 1 .. Count : samples'[r][k] = IF k >= seq[r] + 1 THEN Lost ELSE samples[r][k]
             /\ seq'[r] = Count + 2
      BY <1>10, <2>2, <1>a, <1>b DEF Pause, Fill, LostFrom, TypeOK
    <3>4. \A k \in 1 .. Count : samples[r][k] = Zero <=> ~(k < seq[r] + 1)
      BY <1>a, <1>b, <3>1 DEF RunRight, LoopRight, Past
    <3>3. \A k \in 1 .. Count : k >= seq[r] + 1 => samples[r][k] = Zero
      BY <1>b, <3>4
    <3>5. \A k \in 1 .. Count : samples'[r][k] = Zero <=> ~(k < seq'[r])
      <4>1. CASE samples'[r] = samples[r] /\ seq'[r] = seq[r] + 1
        BY <3>4, <4>1
      <4>2. CASE /\ \A k \in 1 .. Count : samples'[r][k] = IF k >= seq[r] + 1 THEN Lost ELSE samples[r][k]
                 /\ seq'[r] = Count + 2
        <5>1. \A k \in 1 .. Count : k < seq'[r]
          BY <1>a, <4>2
        <5>2. ASSUME NEW k \in 1 .. Count PROVE samples'[r][k] # Zero
          <6>1. CASE k >= seq[r] + 1
            BY <4>2, <6>1, SampleKinds
          <6>2. CASE ~(k >= seq[r] + 1)
            BY <1>b, <3>4, <4>2, <6>2
          <6> QED
            BY <6>1, <6>2
        <5> QED
          BY <5>1, <5>2
      <4> QED
        BY <3>2, <4>1, <4>2
    <3>6. LoopRight(r)'
      BY <3>1, <3>5 DEF LoopRight, Past, Open
    <3> QED
      BY <1>e, <3>1, <3>2, <3>3, <3>6 DEF Open
  <2> QED
    BY <2>1, <2>2
<1>11. ASSUME NEW x \in Runs, Aggregate(x) PROVE RunRight(r)'
  <2>1. CASE r # x
    <3>1. /\ rpc'[r] = rpc[r] /\ seq'[r] = seq[r] /\ samples'[r] = samples[r] /\ result'[r] = result[r]
          /\ sock'[r] = sock[r] /\ alone'[r] = alone[r]
      BY <1>11, <2>1, <1>a DEF Aggregate, Report, Goto, TypeOK
    <3> QED
      BY <1>11, <1>a, <3>1, RunFrame DEF Aggregate
  <2>2. CASE r = x
    <3>1. /\ rpc[r] = "loop" /\ rpc'[r] = "emit" /\ seq[r] > Count /\ seq'[r] = 1
          /\ result'[r] = aggregateResults(r) /\ sock'[r] = {} /\ ~alone'[r] /\ hits' = hits
          /\ \A k \in 1 .. Count : samples'[r][k] = Zero
      BY <1>11, <2>2, <1>a DEF Aggregate, Report, Goto, TypeOK
    <3>2. \A k \in 1 .. Count : samples[r][k] # Zero
      BY <1>a, <1>b, <3>1 DEF RunRight, LoopRight, Past
    <3>3. {k \in 1 .. Count : samples[r][k] # Lost} = Replies(r)
      BY <1>b, <3>2, SampleKinds DEF Replies, Samples
    <3>4. hits[r] = Cardinality(Replies(r))
      BY <1>a, <3>1 DEF RunRight, HitsRight, Open
    <3>5. aggregateResults(r) = Stats("icmp", Count, hits[r])
      BY <3>3, <3>4 DEF aggregateResults
    <3>6. EventRight(r)'
      BY <1>a, <1>b, <3>1, <3>5, ReportFields DEF EventRight
    <3> QED
      BY <3>1, <3>6 DEF RunRight, LoopRight, HitsRight, AloneRight, Open, Past
  <2> QED
    BY <2>1, <2>2
<1>12. ASSUME NEW p \in net, Deliver(p) PROVE RunRight(r)'
  <2>1. /\ UNCHANGED <<rpc, seq, samples, result, hits, alone>> /\ net' \subseteq net
        /\ sock'[r] = IF Open(r) THEN sock[r] \cup {p} ELSE sock[r]
    BY <1>12 DEF Deliver
  <2>2. LoopRight(r)' /\ HitsRight(r)' /\ EventRight(r)'
    BY <1>a, <2>1 DEF RunRight, LoopRight, HitsRight, EventRight, Open, Past, Replies
  <2>3. AloneRight(r)'
    BY <1>a, <2>1 DEF RunRight, AloneRight
  <2> QED
    BY <2>2, <2>3 DEF RunRight
<1>13. CASE Stop \/ Engine \/ (\E x \in Runs : Expire(x)) \/ UNCHANGED vars
  BY <1>13, <1>a, RunFrame DEF Stop, Engine, Expire, vars
<1> QED
  BY <1>1, <1>2, <1>3, <1>4, <1>5, <1>6, <1>7, <1>8, <1>9, <1>10, <1>11, <1>12, <1>13
  DEF Next, Step, Advance

LEMMA PingInvariant == Spec => []IInv
<1>1. IInv /\ [Next]_vars => IInv'
  BY PingTypeStep, RunStep DEF IInv
<1> QED
  BY <1>1, PingInit, PTL DEF Spec

\* Counters, samples and events of ping tasks keep their types, however many Runs overlap.
THEOREM PingTypeCorrect == Spec => []TypeOK
<1>1. IInv => TypeOK
  BY DEF IInv
<1> QED
  BY <1>1, PingInvariant, PTL

\* An event reports as received exactly the replies its Run has read, whichever way the
\* loop was left, and a Run that no other overlaps takes nothing but the replies to its
\* own packets and to those of processes with its identifier: for any number of packets,
\* Runs and other processes, and every process number.
THEOREM PingReportsHonestly == Spec => []Honest
<1>1. IInv => Honest
  <2> SUFFICES ASSUME IInv, NEW r \in Runs
               PROVE  /\ EventRight(r)
                      /\ \A k \in 1 .. Count :
                           alone[r] /\ samples[r][k] \notin {Zero, Lost} => Answers(r, k, samples[r][k])
    BY DEF Honest, EventRight, Answers
  <2>1. RunRight(r) /\ samples \in [Runs -> [1 .. Count -> Samples]]
    BY DEF IInv, TypeOK, Samples
  <2> QED
    BY <2>1 DEF RunRight, AloneRight, Samples
<1> QED
  BY <1>1, PingInvariant, PTL
=============================================================================
