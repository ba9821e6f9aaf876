------------------------------ MODULE Keyword ------------------------------
(***************************************************************************)
(* Keyword collection in monitorbeat: the long-running scheduler           *)
(* (scheduler/keyword), the task that turns log lines into events          *)
(* (tasks/keyword), the harvester that tails the file in a goroutine of    *)
(* its own and the registry of read offsets (internal/input/file).         *)
(*                                                                         *)
(* A file is a number of bytes, a line is LineLen of them; a write may end *)
(* in the middle of a line.  What the harvester hands on is an item: the   *)
(* pair of the offsets where it begins and ends.                           *)
(*                                                                         *)
(* A definition whose comment begins with "Mutant" is a wrong form of the  *)
(* one after it, against which the properties are tried.                   *)
(***************************************************************************)
EXTENDS Integers, Sequences

CONSTANTS
  Tasks,       \* keyword tasks, each with a file of its own
  Worlds,      \* the settings and environments: [fromBegin (the setting from_begin), writes
               \* (how much a write to a log file may append), truncate (may one be
               \* truncated?), and the bounds maxSize (of a log file) and maxLives (how
               \* often the process is started)]
  Ahead,       \* size of the read buffer
  ChanCap,     \* capacity of the harvester's line channel
  EventCap,    \* capacity of the event channel
  LineLen      \* bytes in a line, its end included

ASSUME KeywordAssumption ==
  /\ \A w \in Worlds : /\ w.fromBegin \in BOOLEAN /\ w.truncate \in BOOLEAN
                       /\ w.writes \subseteq Nat \ {0} /\ w.maxSize \in Nat /\ w.maxLives \in Nat
  /\ LineLen \in Nat \ {0} /\ Ahead \in Nat /\ Ahead >= LineLen
  /\ ChanCap \in Nat \ {0} /\ EventCap \in Nat \ {0}

None == -1
NoItem == <<0, 0>>

VARIABLES
  world,    \* the one of Worlds that this is
  size,     \* the log files
  disk,     \* the registry file: an offset for a task's file, or None
  mpc,      \* main: "up", "stopping" (scheduler stopped), "down"
  lives,    \* how often the process was started
  events,   \* events in the event channel
  ctxDone,  \* the scheduler's context, which every task runs with, is cancelled
  cpc, cur, \* the task's goroutine, and the item it is working on
  mem,      \* the task's OffsetRegistry
  rpc, item, err, \* the reader goroutine, the item and the error it has read
  bpos, fpos,     \* the reader's buffer holds the bytes from bpos to fpos
  offset,   \* Harvester.offset
  lines,    \* Harvester.lineCh
  done,     \* Harvester.done is closed
  closed,   \* Harvester.file is closed
  \* history variables: where the last item handled began and ended, and how
  \* far the file has been handled by this life and the ones before it
  last, next, known

schedVars == <<world, mpc, lives>>
taskVars == <<ctxDone, cpc, cur, mem>>
readerVars == <<rpc, item, err, bpos, fpos, offset>>
sharedVars == <<lines, done, closed>>
ghostVars == <<last, next, known>>
vars == <<size, disk, schedVars, events, taskVars, readerVars, sharedVars, ghostVars>>

AllTasks(v) == [t \in Tasks |-> v]

\* What a process has in memory when it starts.
Fresh ==
  /\ ctxDone = FALSE /\ cpc = AllTasks("begin") /\ cur = AllTasks(NoItem)
  /\ mem = AllTasks(AllTasks(None))
  /\ rpc = AllTasks("none") /\ item = AllTasks(NoItem) /\ err = AllTasks("none")
  /\ bpos = AllTasks(0) /\ fpos = AllTasks(0) /\ offset = AllTasks(0)
  /\ lines = AllTasks(<<>>) /\ done = AllTasks(FALSE) /\ closed = AllTasks(FALSE)
  /\ events = 0
  /\ last = AllTasks(0) /\ next = AllTasks(0)

Init ==
  /\ world \in Worlds
  /\ size \in [Tasks -> {n \in 0 .. world.maxSize : n % LineLen = 0}]
  /\ disk = AllTasks(None)
  /\ mpc = "up"
  /\ lives = 1
  /\ Fresh
  /\ known = AllTasks(0)

(***************************************************************************)
(* The task: Gather.Run.                                                   *)
(***************************************************************************)

\* Mutant: an offset that is not there is used.
StartSaved(t, saved) == IF world.fromBegin THEN 0 ELSE saved[t]

\* The offset of a file in a registry, zero if it is not there.
Get(data, t) == IF data[t] = None THEN 0 ELSE data[t]

\* Where New positions the reader.
StartOffset(t, saved) ==
  IF world.fromBegin THEN 0 ELSE IF Get(saved, t) > 0 THEN Get(saved, t) ELSE size[t]

\* NewOffsetRegistry: every task has a registry of its own, with all that is in the file.
load(t) == mem' = [mem EXCEPT ![t] = disk]

\* The registry is loaded, New opens the file and starts the reader.
Begin(t) ==
  LET start == StartOffset(t, disk)
  IN  /\ cpc[t] = "begin"
      /\ cpc' = [cpc EXCEPT ![t] = "read"]
      /\ load(t)
      /\ rpc' = [rpc EXCEPT ![t] = "read"]
      /\ bpos' = [bpos EXCEPT ![t] = start]
      /\ fpos' = [fpos EXCEPT ![t] = start]
      /\ offset' = [offset EXCEPT ![t] = start]
      /\ last' = [last EXCEPT ![t] = start]
      /\ next' = [next EXCEPT ![t] = start]
      /\ known' = [known EXCEPT ![t] = IF disk[t] = None THEN start ELSE @]
      /\ UNCHANGED <<size, disk, schedVars, events, ctxDone, cur, item, err, sharedVars>>

\* The registry or the file cannot be opened: an event says so, and Run ends.
BeginFail(t) ==
  /\ cpc[t] = "begin"
  /\ cpc' = [cpc EXCEPT ![t] = "error"]
  /\ UNCHANGED <<size, disk, schedVars, events, ctxDone, cur, mem, readerVars, sharedVars,
                 ghostVars>>

EmitError(t) ==
  /\ cpc[t] = "error"
  /\ \/ events < EventCap /\ events' = events + 1
     \/ ctxDone /\ UNCHANGED events
  /\ cpc' = [cpc EXCEPT ![t] = "done"]
  /\ UNCHANGED <<size, disk, schedVars, ctxDone, cur, mem, readerVars, sharedVars,
                 ghostVars>>

\* The task has dealt with an item.
Handled(t, i) ==
  /\ last' = [last EXCEPT ![t] = i[1]]
  /\ next' = [next EXCEPT ![t] = i[2]]
  /\ known' = [known EXCEPT ![t] = i[2]]

\* ReadLine returns a line that matches the pattern.
ReadLine(t) ==
  /\ cpc[t] = "read"
  /\ lines[t] # <<>>
  /\ cur' = [cur EXCEPT ![t] = Head(lines[t])]
  /\ lines' = [lines EXCEPT ![t] = Tail(@)]
  /\ cpc' = [cpc EXCEPT ![t] = "emit"]
  /\ UNCHANGED <<size, disk, schedVars, events, ctxDone, mem, readerVars, done, closed,
                 ghostVars>>

\* ReadLine returns a line that does not.
SkipLine(t) ==
  /\ cpc[t] = "read"
  /\ lines[t] # <<>>
  /\ Handled(t, Head(lines[t]))
  /\ lines' = [lines EXCEPT ![t] = Tail(@)]
  /\ UNCHANGED <<size, disk, schedVars, events, taskVars, readerVars, done, closed>>

\* The event is sent.
Emit(t) ==
  /\ cpc[t] = "emit"
  /\ events < EventCap
  /\ events' = events + 1
  /\ Handled(t, cur[t])
  /\ cur' = [cur EXCEPT ![t] = NoItem]
  /\ cpc' = [cpc EXCEPT ![t] = "read"]
  /\ UNCHANGED <<size, disk, schedVars, ctxDone, mem, readerVars, sharedVars>>

\* Mutant: ReadLine does not look at the context.
CancelledSending(t) == cpc[t] = "emit" /\ ctxDone

\* ReadLine, and sending the event, give up when the context is cancelled.
Cancelled(t) == cpc[t] \in {"read", "emit"} /\ ctxDone

\* Run returns: its context is cancelled, or the reader has gone and its channel
\* is empty.
Return(t) ==
  /\ \/ Cancelled(t)
     \/ cpc[t] = "read" /\ rpc[t] = "exited" /\ lines[t] = <<>>
  /\ cpc' = [cpc EXCEPT ![t] = "close"]
  /\ UNCHANGED <<size, disk, schedVars, events, ctxDone, cur, mem, readerVars, sharedVars,
                 ghostVars>>

\* Harvester.Close.
CloseDone(t) ==
  /\ cpc[t] = "close"
  /\ done' = [done EXCEPT ![t] = TRUE]
  /\ cpc' = [cpc EXCEPT ![t] = "set"]
  /\ UNCHANGED <<size, disk, schedVars, events, ctxDone, cur, mem, readerVars, lines,
                 closed, ghostVars>>

\* Mutant: the registry keeps what it had.
SetNot(t) == UNCHANGED mem

\* OffsetRegistry.Set.
Set(t) == mem' = [mem EXCEPT ![t][t] = offset[t]]

CloseSet(t) ==
  /\ cpc[t] = "set"
  /\ Set(t)
  /\ cpc' = [cpc EXCEPT ![t] = "closefile"]
  /\ UNCHANGED <<size, disk, schedVars, events, ctxDone, cur, readerVars, sharedVars,
                 ghostVars>>

CloseFile(t) ==
  /\ cpc[t] = "closefile"
  /\ closed' = [closed EXCEPT ![t] = TRUE]
  /\ cpc' = [cpc EXCEPT ![t] = "save"]
  /\ UNCHANGED <<size, disk, schedVars, events, ctxDone, cur, mem, readerVars, lines, done,
                 ghostVars>>

\* OffsetRegistry.Save: the whole registry of the task replaces the file.
Save(t) ==
  /\ cpc[t] = "save"
  /\ disk' = mem[t]
  /\ cpc' = [cpc EXCEPT ![t] = "done"]
  /\ UNCHANGED <<size, schedVars, events, ctxDone, cur, mem, readerVars, sharedVars,
                 ghostVars>>

\* Save fails, and Run ignores its error: the file stays as it was.
SaveFail(t) ==
  /\ cpc[t] = "save"
  /\ cpc' = [cpc EXCEPT ![t] = "unsaved"]
  /\ UNCHANGED <<size, disk, schedVars, events, ctxDone, cur, mem, readerVars, sharedVars,
                 ghostVars>>

(***************************************************************************)
(* The reader goroutine: Harvester.loop.                                   *)
(***************************************************************************)

\* The end of the line that byte p belongs to.
LineEnd(p) == p - (p % LineLen) + LineLen
HasLine(t) == LineEnd(bpos[t]) <= fpos[t]
Min2(a, b) == IF a <= b THEN a ELSE b

\* A read that returns nothing.
AtEnd(t) == fpos[t] >= size[t]

\* ReadString finds no end of line in the buffer and reads on.
Fill(t) ==
  /\ rpc[t] = "read"
  /\ ~HasLine(t)
  /\ ~closed[t]
  /\ ~AtEnd(t)
  /\ fpos' = [fpos EXCEPT ![t] = Min2(size[t], bpos[t] + Ahead)]
  /\ UNCHANGED <<size, disk, schedVars, events, taskVars, rpc, item, err, bpos, offset,
                 sharedVars, ghostVars>>

\* The reader has an item to send.
Holds(t, i, e) ==
  /\ item' = [item EXCEPT ![t] = i]
  /\ err' = [err EXCEPT ![t] = e]
  /\ bpos' = [bpos EXCEPT ![t] = i[2]]
  /\ rpc' = [rpc EXCEPT ![t] = "send"]

\* readOne: a line.
TakeLine(t) ==
  /\ rpc[t] = "read"
  /\ HasLine(t)
  /\ Holds(t, <<bpos[t], LineEnd(bpos[t])>>, "none")
  /\ UNCHANGED <<size, disk, schedVars, events, taskVars, fpos, offset, sharedVars,
                 ghostVars>>

\* readOne at the end of the file: what is left in the buffer, if anything.
TakeRest(t) ==
  /\ rpc[t] = "read"
  /\ ~HasLine(t)
  /\ ~closed[t]
  /\ AtEnd(t)
  /\ IF bpos[t] < fpos[t]
     THEN Holds(t, <<bpos[t], fpos[t]>>, "eof")
     ELSE rpc' = [rpc EXCEPT ![t] = "wait"] /\ UNCHANGED <<item, err, bpos>>
  /\ UNCHANGED <<size, disk, schedVars, events, taskVars, fpos, offset, sharedVars,
                 ghostVars>>

\* The read fails because the file is closed: after what is left in the buffer,
\* if anything, the loop ends.
ReadFail(t) ==
  /\ rpc[t] = "read"
  /\ ~HasLine(t)
  /\ closed[t]
  /\ IF bpos[t] < fpos[t]
     THEN Holds(t, <<bpos[t], fpos[t]>>, "closed")
     ELSE rpc' = [rpc EXCEPT ![t] = "exited"] /\ UNCHANGED <<item, err, bpos>>
  /\ UNCHANGED <<size, disk, schedVars, events, taskVars, fpos, offset, sharedVars,
                 ghostVars>>

\* "h.lineCh <- line" blocks while the channel is full, closed or not.
Send(t) ==
  /\ rpc[t] = "send"
  /\ Len(lines[t]) < ChanCap
  /\ lines' = [lines EXCEPT ![t] = Append(@, item[t])]
  /\ item' = [item EXCEPT ![t] = NoItem]
  /\ rpc' = [rpc EXCEPT ![t] = "track"]
  /\ UNCHANGED <<size, disk, schedVars, events, taskVars, err, bpos, fpos, offset, done,
                 closed, ghostVars>>

\* trackOffset: the position of the file, which the buffer has read ahead to.
Position(t) == IF closed[t] THEN offset[t] ELSE fpos[t]

\* ... and then, unless the read ended with an error, maybeSaveOffset.
Track(t) ==
  /\ rpc[t] = "track"
  /\ offset' = [offset EXCEPT ![t] = Position(t)]
  /\ rpc' = [rpc EXCEPT ![t] = CASE err[t] = "none" -> "save"
                                 [] err[t] = "eof" -> "wait"
                                 [] err[t] = "closed" -> "exited"]
  /\ UNCHANGED <<size, disk, schedVars, events, taskVars, item, err, bpos, fpos,
                 sharedVars, ghostVars>>

\* maybeSaveOffset: five seconds have passed, or not.
MaybeSave(t) ==
  /\ rpc[t] = "save"
  /\ Set(t) \/ UNCHANGED mem
  /\ rpc' = [rpc EXCEPT ![t] = "read"]
  /\ UNCHANGED <<size, disk, schedVars, events, ctxDone, cpc, cur, item, err, bpos, fpos,
                 offset, sharedVars, ghostVars>>

\* Mutants: the seek is relative to the beginning, or to the end, of the file.
ResetToStart(t) == 0
ResetToEnd(t) == size[t]

\* waitMore makes a new buffer at the file's position.
Reset(t) == fpos[t]

\* The watcher or the timer wakes the reader up.
Wake(t) ==
  /\ rpc[t] = "wait"
  /\ bpos' = [bpos EXCEPT ![t] = Reset(t)]
  /\ fpos' = [fpos EXCEPT ![t] = Reset(t)]
  /\ err' = [err EXCEPT ![t] = "none"]
  /\ rpc' = [rpc EXCEPT ![t] = "read"]
  /\ UNCHANGED <<size, disk, schedVars, events, taskVars, item, offset, sharedVars,
                 ghostVars>>

\* waitMore sees that the harvester is closed.
WaitClosed(t) ==
  /\ rpc[t] = "wait"
  /\ done[t]
  /\ rpc' = [rpc EXCEPT ![t] = "exited"]
  /\ UNCHANGED <<size, disk, schedVars, events, taskVars, item, err, bpos, fpos, offset,
                 sharedVars, ghostVars>>

(***************************************************************************)
(* The scheduler and the process.                                          *)
(***************************************************************************)

\* SIGTERM, or Scheduler.Stop after it: the context of all tasks is cancelled.
Stop ==
  /\ mpc = "up"
  /\ mpc' = "stopping"
  /\ ctxDone' = TRUE
  /\ UNCHANGED <<world, size, disk, lives, events, cpc, cur, mem, readerVars, sharedVars,
                 ghostVars>>

\* Scheduler.Wait returns.  The process ends, and with it the readers and what
\* was in the event channel.
Wait ==
  /\ mpc = "stopping"
  /\ \A t \in Tasks : cpc[t] \in {"done", "unsaved"}
  /\ mpc' = "down"
  /\ rpc' = [t \in Tasks |-> IF rpc[t] = "none" THEN "none" ELSE "exited"]
  /\ events' = 0
  /\ UNCHANGED <<world, size, disk, lives, taskVars, item, err, bpos, fpos, offset, sharedVars,
                 ghostVars>>

\* What a start of the process leaves in memory.
Reborn ==
  /\ ctxDone' = FALSE /\ cpc' = AllTasks("begin") /\ cur' = AllTasks(NoItem)
  /\ mem' = AllTasks(AllTasks(None))
  /\ rpc' = AllTasks("none") /\ item' = AllTasks(NoItem) /\ err' = AllTasks("none")
  /\ bpos' = AllTasks(0) /\ fpos' = AllTasks(0) /\ offset' = AllTasks(0)
  /\ lines' = AllTasks(<<>>) /\ done' = AllTasks(FALSE) /\ closed' = AllTasks(FALSE)
  /\ events' = 0
  /\ last' = AllTasks(0) /\ next' = AllTasks(0)

\* The process is started again, after its end or after a crash.
Boot ==
  /\ lives < world.maxLives
  /\ lives' = lives + 1
  /\ mpc' = "up"
  /\ Reborn
  /\ UNCHANGED <<world, size, disk, known>>

(***************************************************************************)
(* The environment.                                                        *)
(***************************************************************************)

\* The engine takes an event.
Engine ==
  /\ events > 0
  /\ events' = events - 1
  /\ UNCHANGED <<size, disk, schedVars, taskVars, readerVars, sharedVars, ghostVars>>

\* A log is appended to.
Write(t, n) ==
  /\ size[t] + n <= world.maxSize
  /\ size' = [size EXCEPT ![t] = @ + n]
  /\ UNCHANGED <<disk, schedVars, events, taskVars, readerVars, sharedVars, ghostVars>>

Truncate(t) ==
  /\ world.truncate
  /\ size[t] > 0
  /\ size' = [size EXCEPT ![t] = 0]
  /\ UNCHANGED <<disk, schedVars, events, taskVars, readerVars, sharedVars, ghostVars>>

TaskNext(t) ==
  \/ Begin(t) \/ BeginFail(t) \/ EmitError(t) \/ ReadLine(t) \/ SkipLine(t) \/ Emit(t)
  \/ Return(t) \/ CloseDone(t) \/ CloseSet(t) \/ CloseFile(t) \/ Save(t)
  \/ SaveFail(t)

ReaderNext(t) ==
  \/ Fill(t) \/ TakeLine(t) \/ TakeRest(t) \/ ReadFail(t) \/ Send(t) \/ Track(t)
  \/ MaybeSave(t) \/ Wake(t) \/ WaitClosed(t)

Terminated == mpc = "down" /\ UNCHANGED vars

Next ==
  \/ \E t \in Tasks : TaskNext(t) \/ ReaderNext(t) \/ Truncate(t)
  \/ \E t \in Tasks, n \in world.writes : Write(t, n)
  \/ Engine \/ Stop \/ Wait \/ Boot
  \/ Terminated

Spec == Init /\ [][Next]_vars

(***************************************************************************)
(* Fairness: goroutines run, and the engine drains the event channel until *)
(* the process is told to stop (its loop ends with the context).  Nothing  *)
(* is assumed of the operator, or of which case of a select is taken.      *)
(***************************************************************************)
Fairness ==
  /\ \A t \in Tasks : WF_vars(TaskNext(t)) /\ WF_vars(ReaderNext(t))
  /\ WF_vars(mpc = "up" /\ Engine)
  /\ WF_vars(Wait)

FairSpec == Spec /\ Fairness

(***************************************************************************)
(* Properties.                                                             *)
(***************************************************************************)
Offsets == Nat \cup {None}
Items == Nat \X Nat
TaskPcs == {"begin", "error", "read", "emit", "close", "set", "closefile", "save", "done",
            "unsaved"}
ReaderPcs == {"none", "read", "send", "track", "save", "wait", "exited"}

\* The state of the tasks, the harvesters and the registries has its type, and
\* the channels hold no more than they can.
TypeOK ==
  /\ world \in Worlds
  /\ size \in [Tasks -> Nat]
  /\ disk \in [Tasks -> Offsets]
  /\ mpc \in {"up", "stopping", "down"}
  /\ lives \in Nat
  /\ events \in 0 .. EventCap
  /\ ctxDone \in BOOLEAN
  /\ cpc \in [Tasks -> TaskPcs]
  /\ cur \in [Tasks -> Items]
  /\ mem \in [Tasks -> [Tasks -> Offsets]]
  /\ rpc \in [Tasks -> ReaderPcs]
  /\ item \in [Tasks -> Items]
  /\ err \in [Tasks -> {"none", "eof", "closed"}]
  /\ bpos \in [Tasks -> Nat] /\ fpos \in [Tasks -> Nat] /\ offset \in [Tasks -> Nat]
  /\ lines \in [Tasks -> Seq(Items)]
  /\ \A t \in Tasks : Len(lines[t]) <= ChanCap
  /\ done \in [Tasks -> BOOLEAN] /\ closed \in [Tasks -> BOOLEAN]
  /\ last \in [Tasks -> Nat]
  /\ next \in [Tasks -> Nat] /\ known \in [Tasks -> Nat]

\* Logs are written in whole lines and read from their beginning.
Tidy == world.fromBegin /\ ~world.truncate /\ \A n \in world.writes : n % LineLen = 0

\* Within a life, the items the task handles follow one another in the file
\* without a gap and without a repeat, whatever the buffer, the channel and the
\* waits at the end of the file do; and when logs are written in whole lines, no
\* line is cut or joined with another.
InOrder ==
  [][\A t \in Tasks :
       cpc[t] # "begin" /\ lives' = lives /\ next'[t] # next[t] =>
         /\ last'[t] = next[t]
         /\ Tidy => last'[t] % LineLen = 0 /\ next'[t] = last'[t] + LineLen]_vars

\* After a clean stop that saved it, the registry on disk is not behind the last item handled:
\* at most that item is handled again by the next life.
OffsetsSaved ==
  mpc = "down" =>
    \A t \in Tasks : cpc[t] = "done" /\ rpc[t] # "none" => disk[t] >= last[t]

\* A clean stop ends.
ShutdownCompletes == mpc = "stopping" ~> mpc # "stopping"

Reading(t) == cpc[t] \in {"read", "emit"} /\ ~ctxDone /\ mpc = "up"

\* What is in a file that is never truncated is handled in the end.
LinesArrive ==
  \A t \in Tasks : Reading(t) /\ ~world.truncate ~> (next[t] = size[t] \/ size[t] = 0 \/ ~Reading(t))

Resumes(t) == cpc[t] = "begin" /\ cpc'[t] = "read" /\ disk[t] # None

\* What the task says of the registry: after a restart it goes on reading where
\* it stopped, so that no line is skipped.
NoLineSkipped ==
  [][\A t \in Tasks : Resumes(t) /\ disk[t] > 0 => bpos'[t] <= known[t]]_vars
=============================================================================
