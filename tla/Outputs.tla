------------------------------ MODULE Outputs ------------------------------
(***************************************************************************)
(* What monitorbeat does with events: the engine takes them from the event *)
(* channel and publishes each to every output in turn (internal/engine);   *)
(* the file output appends to a file that it rotates; the HTTP output      *)
(* sends with retries and falls back to a spool with numbered backups      *)
(* (internal/output).                                                      *)
(*                                                                         *)
(* A file is a sequence of lines, each the number of the write that put it *)
(* there, and the bytes it holds; a line has any number of bytes up to     *)
(* MaxLine, and may differ from one output to the other.  A write that     *)
(* fails has put nothing in the file; a file that is not there is an empty *)
(* one.  main never closes an output, so the Close methods do not occur,   *)
(* and neither does a nil file handle of the file output: Init has opened  *)
(* the file.                                                               *)
(*                                                                         *)
(* A definition whose comment begins with "Mutant" is a wrong form of the  *)
(* one after it, against which the properties are tried.                   *)
(***************************************************************************)
EXTENDS Integers, Sequences, SequencesExt

CONSTANTS
  Wired,       \* the outputs of the configuration, in their order
  EventCap,    \* capacity of the event channel
  FileMax,     \* File.maxBytes; 0 for a max_size_mb below one
  RetryMax,    \* retry_max of the HTTP output
  HasFallback, \* is a fallback_path configured?
  SpoolMax,    \* fallback_max_size, in bytes
  MaxBackups,  \* fallback_max_backups
  DiskFails,   \* may operations on files fail?
  MaxLine,     \* bound: bytes of a line
  MaxEvents,   \* bound: events made
  MaxLives     \* bound: how often the process is started

ASSUME OutputsAssumption ==
  /\ Wired \in Seq({"file", "http"})
  /\ EventCap \in Nat \ {0} /\ FileMax \in Nat /\ SpoolMax \in Nat \ {0}
  /\ MaxLine \in Nat \ {0}
  /\ RetryMax \in Nat /\ MaxBackups \in Nat /\ MaxEvents \in Nat /\ MaxLives \in Nat \ {0}
  /\ HasFallback \in BOOLEAN /\ DiskFails \in BOOLEAN

Backups == 1 .. (MaxBackups + 1)

VARIABLES
  made,          \* events made so far
  ch,            \* the number of events in Engine.ch
  ctxDone,       \* the process context is cancelled
  lives,         \* how often the process was started
  epc, outs,     \* the engine, and the outputs the event in hand is still for
  opc,           \* where the Publish in progress is
  open, written, \* File.f is an open file; File.written
  log, oldLog,   \* <path> and <path>.1
  logBytes, oldBytes, \* their sizes on disk
  attempt,       \* trySend's attempt
  fbOpen, fbSize,\* HTTPOutput.fbFile is open; fbSize
  slot,          \* rotateFallback's i
  spool,         \* 0: the fallback file, i: its backup .i
  spoolBytes,    \* their sizes on disk
  \* history variables: the writes to the log and to the spool so far; of the
  \* event in hand, the outputs whose Publish has returned, with an error, and
  \* who has stored it; and the rotations that were cut short
  nLog, nSpool, returned, failed, stored, cut

engVars == <<epc, outs>>
fileVars == <<open, written, log, oldLog, logBytes, oldBytes, nLog>>
spoolVars == <<spool, spoolBytes>>
httpVars == <<attempt, fbOpen, fbSize, slot, spoolVars, nSpool>>
envVars == <<made, ch, ctxDone, lives>>
pubVars == <<returned, failed, stored>>
vars == <<envVars, engVars, opc, fileVars, httpVars, pubVars, cut>>

Init ==
  /\ made = 0 /\ ch = 0 /\ ctxDone = FALSE /\ lives = 1
  /\ epc = "select" /\ outs = <<>> /\ opc = "none"
  /\ open = TRUE /\ written = 0
  /\ log = <<>> /\ oldLog = <<>> /\ logBytes = 0 /\ oldBytes = 0
  /\ attempt = 0 /\ fbOpen = FALSE /\ fbSize = 0 /\ slot = 0
  /\ spool = [i \in {0} \cup Backups |-> <<>>]
  /\ spoolBytes = [i \in {0} \cup Backups |-> 0]
  /\ nLog = 0 /\ nSpool = 0
  /\ returned = {} /\ failed = {} /\ stored = {} /\ cut = {}

(***************************************************************************)
(* The engine.                                                             *)
(***************************************************************************)

\* A task sends an event; it blocks while the channel is full.
Produce ==
  /\ made < MaxEvents
  /\ ch < EventCap
  /\ made' = made + 1
  /\ ch' = ch + 1
  /\ UNCHANGED <<ctxDone, lives, engVars, opc, fileVars, httpVars, pubVars, cut>>

\* The engine begins to publish an event to every output.
PublishAll ==
  /\ epc = "select"
  /\ outs' = Wired
  /\ epc' = "publish"
  /\ UNCHANGED <<ctxDone, lives, opc, fileVars, httpVars, pubVars, cut>>

Take ==
  /\ ch > 0
  /\ ch' = ch - 1
  /\ PublishAll
  /\ UNCHANGED made

\* publishHeartbeat.
Heartbeat ==
  /\ made < MaxEvents
  /\ made' = made + 1
  /\ PublishAll
  /\ UNCHANGED ch

\* All outputs have had the event.
EventDone ==
  /\ epc = "publish"
  /\ outs = <<>>
  /\ epc' = "select"
  /\ returned' = {} /\ failed' = {} /\ stored' = {}
  /\ UNCHANGED <<envVars, outs, opc, fileVars, httpVars, cut>>

\* Run ends; what is in the channel stays there.
EngineStop ==
  /\ epc = "select"
  /\ ctxDone
  /\ epc' = "exit"
  /\ UNCHANGED <<envVars, outs, opc, fileVars, httpVars, pubVars, cut>>

\* The Publish in progress is the one of output o, and is at pc.
At(o, pc) == epc = "publish" /\ outs # <<>> /\ Head(outs) = o /\ opc = pc

\* Mutant: an output that fails ends the round.
SkipOthers(ok) == IF ok THEN Tail(outs) ELSE <<>>

\* Mutant: an output that fails gets the event again.
SameAgain(ok) == IF ok THEN Tail(outs) ELSE outs

\* The outputs that remain: an error is logged and nothing more.
Remaining(ok) == Tail(outs)

\* Publish returns, without an error or with one.
Return(ok) ==
  /\ opc' = "none"
  /\ outs' = Remaining(ok)
  /\ returned' = returned \cup {Head(outs)}
  /\ failed' = IF ok THEN failed ELSE failed \cup {Head(outs)}

Goto(pc) == opc' = pc /\ UNCHANGED <<outs, returned, failed>>

(***************************************************************************)
(* The file output.                                                        *)
(***************************************************************************)

\* The size is looked at after the write.
FilePublish ==
  /\ At("file", "none")
  /\ open
  /\ nLog' = nLog + 1
  /\ log' = Append(log, nLog')
  /\ stored' = stored \cup {"file"}
  /\ \E n \in 1 .. MaxLine :
       /\ logBytes' = logBytes + n
       /\ written' = written + n
  /\ IF written' >= FileMax THEN Goto("rename") /\ open' = FALSE
     ELSE Return(TRUE) /\ UNCHANGED open
  /\ UNCHANGED <<envVars, epc, oldLog, oldBytes, httpVars, cut>>

\* Marshalling or the write fails: on a handle that a rotation has closed the
\* write always does.
FilePublishFail ==
  /\ At("file", "none")
  /\ Return(FALSE)
  /\ UNCHANGED <<envVars, epc, fileVars, httpVars, stored, cut>>

\* rotate: the file replaces <path>.1.
FileRename ==
  /\ At("file", "rename")
  /\ oldLog' = log /\ oldBytes' = logBytes
  /\ log' = <<>> /\ logBytes' = 0
  /\ Goto("reopen")
  /\ UNCHANGED <<envVars, epc, open, written, nLog, httpVars, stored, cut>>

FileRenameFail ==
  /\ At("file", "rename")
  /\ DiskFails
  /\ cut' = cut \cup {"file"}
  /\ Goto("reopen")
  /\ UNCHANGED <<envVars, epc, fileVars, httpVars, stored>>

\* Mutant: a file that is opened counts as empty.
CountFromZero(bytes) == 0

\* File.open and writeFallback go on from the size that Stat gives of the file.
CountFrom(bytes) == bytes

FileReopen ==
  /\ At("file", "reopen")
  /\ open' = TRUE
  /\ written' = CountFrom(logBytes)
  /\ Return(TRUE)
  /\ UNCHANGED <<envVars, epc, log, oldLog, logBytes, oldBytes, nLog, httpVars, stored, cut>>

\* The closed handle stays; Publish returns no error.
FileReopenFail ==
  /\ At("file", "reopen")
  /\ DiskFails
  /\ Return(TRUE)
  /\ UNCHANGED <<envVars, epc, fileVars, httpVars, stored, cut>>

(***************************************************************************)
(* The HTTP output.                                                        *)
(***************************************************************************)

HttpPublish ==
  /\ At("http", "none")
  /\ attempt' = 0
  /\ Goto("send")
  /\ UNCHANGED <<envVars, epc, fileVars, fbOpen, fbSize, slot, spoolVars, nSpool, stored, cut>>

\* formatBody fails for an event whose data is not a map.
FormatFail ==
  /\ At("http", "none")
  /\ Return(FALSE)
  /\ UNCHANGED <<envVars, epc, fileVars, httpVars, stored, cut>>

\* trySend: the server answers 2xx.
SendOk ==
  /\ At("http", "send")
  /\ stored' = stored \cup {"server"}
  /\ Return(TRUE)
  /\ UNCHANGED <<envVars, epc, fileVars, httpVars, cut>>

\* Mutant: one attempt too many.
MoreThanMax == attempt <= RetryMax

\* The condition of trySend's loop, for the next attempt.
MoreAttempts == attempt < RetryMax

\* An error, a timeout or another status: the server may have taken the event in.
SendFail ==
  /\ At("http", "send")
  /\ stored' \in {stored, stored \cup {"server"}}
  /\ IF MoreAttempts THEN Goto("backoff") /\ attempt' = attempt + 1
     ELSE Goto("fallback") /\ UNCHANGED attempt
  /\ UNCHANGED <<envVars, epc, fileVars, fbOpen, fbSize, slot, spoolVars, nSpool, cut>>

Backoff ==
  /\ At("http", "backoff")
  /\ Goto("send")
  /\ UNCHANGED <<envVars, epc, fileVars, httpVars, stored, cut>>

\* Mutant: a cancelled send counts as sent.
GiveUpSilently == Return(TRUE)

\* The backoff is cut short by the context: false, as after the last attempt.
GiveUp == Goto("fallback")

BackoffCancelled ==
  /\ At("http", "backoff")
  /\ ctxDone
  /\ GiveUp
  /\ UNCHANGED <<envVars, epc, fileVars, httpVars, stored, cut>>

\* writeFallback, up to the write.
FallbackOpen ==
  /\ At("http", "fallback")
  /\ HasFallback
  /\ fbOpen' = TRUE
  /\ fbSize' = IF fbOpen THEN fbSize ELSE CountFrom(spoolBytes[0])
  /\ Goto("write")
  /\ UNCHANGED <<envVars, epc, fileVars, attempt, slot, spoolVars, nSpool, stored, cut>>

\* There is no fallback file, or it does not open.
FallbackFail ==
  /\ At("http", "fallback")
  /\ ~HasFallback \/ (DiskFails /\ ~fbOpen)
  /\ Return(FALSE)
  /\ UNCHANGED <<envVars, epc, fileVars, httpVars, stored, cut>>

\* Mutant: the loop begins one too low.
OldestMissed == IF MaxBackups = 0 THEN 0 ELSE MaxBackups - 1

\* The first i of rotateFallback's loop, which goes down to the newest backup.
Oldest == MaxBackups

\* A full spool is closed and rotated.
FallbackWrite ==
  /\ At("http", "write")
  /\ nSpool' = nSpool + 1
  /\ spool' = [spool EXCEPT ![0] = Append(@, nSpool')]
  /\ stored' = stored \cup {"http"}
  /\ \E n \in 1 .. MaxLine :
       /\ spoolBytes' = [spoolBytes EXCEPT ![0] = @ + n]
       /\ fbSize' = fbSize + n
  /\ IF fbSize' >= SpoolMax THEN Goto("shift") /\ fbOpen' = FALSE /\ slot' = Oldest
     ELSE Return(TRUE) /\ UNCHANGED <<fbOpen, slot>>
  /\ UNCHANGED <<envVars, epc, fileVars, attempt, cut>>

FallbackWriteFail ==
  /\ At("http", "write")
  /\ DiskFails
  /\ Return(FALSE)
  /\ UNCHANGED <<envVars, epc, fileVars, httpVars, stored, cut>>

\* os.Rename of file i to file i + 1, if there is a file i: f is what the files
\* hold, or their sizes, and none is what there is of no file.
Shifted(f, none, i) ==
  IF spool[i] = <<>> THEN f ELSE [f EXCEPT ![i + 1] = f[i], ![i] = none]

Renamed(i) == spool' = Shifted(spool, <<>>, i) /\ spoolBytes' = Shifted(spoolBytes, 0, i)

Shift ==
  /\ At("http", "shift")
  /\ slot > 0
  /\ Renamed(slot)
  /\ slot' = slot - 1
  /\ UNCHANGED <<envVars, engVars, opc, fileVars, attempt, fbOpen, fbSize, nSpool, pubVars,
                 cut>>

ShiftBase ==
  /\ At("http", "shift")
  /\ slot = 0
  /\ Renamed(0)
  /\ fbSize' = 0
  /\ Return(TRUE)
  /\ UNCHANGED <<envVars, epc, fileVars, attempt, fbOpen, slot, nSpool, stored, cut>>

\* A rename fails: Publish returns its error, though the event is in the spool.
ShiftFail ==
  /\ At("http", "shift")
  /\ DiskFails
  /\ spool[slot] # <<>>
  /\ cut' = cut \cup {"spool"}
  /\ slot' = 0
  /\ Return(FALSE)
  /\ UNCHANGED <<envVars, epc, fileVars, attempt, fbOpen, fbSize, spoolVars, nSpool, stored>>

(***************************************************************************)
(* The process.                                                            *)
(***************************************************************************)

Cancel ==
  /\ ~ctxDone
  /\ ctxDone' = TRUE
  /\ UNCHANGED <<made, ch, lives, engVars, opc, fileVars, httpVars, pubVars, cut>>

\* The process is started again, after its end or a crash: wireOutputs opens
\* the files anew.
Boot ==
  /\ lives < MaxLives
  /\ lives' = lives + 1
  /\ ch' = 0 /\ ctxDone' = FALSE
  /\ epc' = "select" /\ outs' = <<>> /\ opc' = "none"
  /\ open' = TRUE /\ written' = CountFrom(logBytes)
  /\ attempt' = 0 /\ fbOpen' = FALSE /\ fbSize' = 0 /\ slot' = 0
  /\ cut' = cut \cup {f \in {"file", "spool"} :
                        \/ f = "file" /\ opc = "rename"
                        \/ f = "spool" /\ opc = "shift"}
  /\ returned' = {} /\ failed' = {} /\ stored' = {}
  /\ UNCHANGED <<made, log, oldLog, logBytes, oldBytes, nLog, spoolVars, nSpool>>

FileNext ==
  \/ FilePublish \/ FilePublishFail \/ FileRename \/ FileRenameFail
  \/ FileReopen \/ FileReopenFail

HttpNext ==
  \/ HttpPublish \/ FormatFail \/ SendOk \/ SendFail \/ Backoff \/ BackoffCancelled
  \/ FallbackOpen \/ FallbackFail \/ FallbackWrite \/ FallbackWriteFail
  \/ Shift \/ ShiftBase \/ ShiftFail

EngineNext == Take \/ EventDone \/ EngineStop \/ FileNext \/ HttpNext

\* The engine has ended: nothing more is required to happen.
Terminated == epc = "exit" /\ UNCHANGED vars

Next == EngineNext \/ Heartbeat \/ Produce \/ Cancel \/ Boot \/ Terminated

Spec == Init /\ [][Next]_vars

(***************************************************************************)
(* Fairness: the engine's goroutine runs, requests end (the client has a   *)
(* timeout and the context), and select does not pass over a case that is  *)
(* ready again and again.                                                  *)
(***************************************************************************)
Fairness == WF_vars(EngineNext) /\ SF_vars(Take) /\ SF_vars(EngineStop)

FairSpec == Spec /\ Fairness

(***************************************************************************)
(* Properties.                                                             *)
(***************************************************************************)
\* Every variable has its type; the channel and the retries keep their limits.
TypeOK ==
  /\ made \in 0 .. MaxEvents
  /\ ch \in 0 .. EventCap
  /\ ctxDone \in BOOLEAN /\ lives \in 1 .. MaxLives
  /\ epc \in {"select", "publish", "exit"}
  /\ outs \in Seq({"file", "http"})
  /\ opc \in {"none", "rename", "reopen", "send", "backoff", "fallback", "write", "shift"}
  /\ open \in BOOLEAN /\ written \in Nat
  /\ log \in Seq(Nat) /\ oldLog \in Seq(Nat) /\ nLog \in Nat
  /\ logBytes \in Nat /\ oldBytes \in Nat
  /\ attempt \in 0 .. RetryMax
  /\ fbOpen \in BOOLEAN /\ fbSize \in Nat /\ slot \in 0 .. MaxBackups
  /\ spool \in [{0} \cup Backups -> Seq(Nat)] /\ nSpool \in Nat
  /\ spoolBytes \in [{0} \cup Backups -> Nat]
  /\ returned \subseteq {"file", "http"} /\ failed \subseteq returned
  /\ stored \subseteq {"file", "http", "server"}
  /\ cut \subseteq {"file", "spool"}

\* Whatever fails, is retried or cancelled: when Publish has returned without an
\* error, the event is in the file, with the server or in the spool.
NoSilentLoss ==
  /\ "file" \in returned \ failed => "file" \in stored
  /\ "http" \in returned \ failed => stored \cap {"http", "server"} # {}

\* An output that fails keeps no event from the others: the engine goes on to
\* the next event when every output has had this one.
OutputsIndependent == epc = "publish" /\ outs = <<>> => returned = ToSet(Wired)

\* The spool, from its oldest backup to the fallback file.
Spool == FlattenSeq([i \in 1 .. (MaxBackups + 2) |-> spool[MaxBackups + 2 - i]])

\* The last lines of n written, without a gap and in order.
Newest(s, n) == \A i \in 1 .. Len(s) : s[i] = n - Len(s) + i

\* Whatever rename fails and wherever the process dies: the log and the spool are
\* the newest part of what was written to them, in its order and without a gap.
\* Unless a rotation was cut short, a spool that has dropped lines is full in all
\* its files but one: the fallback file or, in a rotation, the one just moved.
NewestKept ==
  /\ Newest(oldLog \o log, nLog)
  /\ Newest(Spool, nSpool)
  /\ "spool" \notin cut /\ Len(Spool) < nSpool =>
       \E e \in {0} \cup Backups :
         \A k \in ({0} \cup Backups) \ {e} : spoolBytes[k] >= SpoolMax

\* Unless a rotation was cut short, no file or backup passes its limit by a whole
\* longest line, over restarts too: Publish and writeFallback look at the size after
\* the write.  With a limit of no bytes a file holds at most one line.
SizesBounded ==
  /\ "spool" \notin cut =>
       \A k \in {0} \cup Backups : spoolBytes[k] < SpoolMax + MaxLine
  /\ "file" \notin cut =>
       \A bytes \in {logBytes, oldBytes} : bytes < FileMax + MaxLine \/ bytes <= MaxLine

\* No server and no disk holds the engine up for good: a full event channel, on which
\* tasks block, is drained unless the process is told to stop, and after SIGTERM the
\* engine ends.
EngineKeepsUp ==
  /\ (ch = EventCap) ~> (ch < EventCap \/ ctxDone)
  /\ ctxDone ~> (epc = "exit" \/ ~ctxDone)
=============================================================================
