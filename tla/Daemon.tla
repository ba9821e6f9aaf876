------------------------------- MODULE Daemon -------------------------------
(***************************************************************************)
(* The periodic scheduler of monitorbeat (scheduler/daemon) together with  *)
(* the goroutines that share it:                                           *)
(*                                                                         *)
(*   - main: registers tasks, starts the scheduler, and on SIGTERM stops   *)
(*     it and waits for it (cmd/monitorbeat/main.go);                      *)
(*   - the run loop: on each tick it pops the due jobs, starts one         *)
(*     goroutine per job, advances the jobs and pushes them back; such a   *)
(*     goroutine may begin the task's run much later;                      *)
(*   - reload goroutines: one per received SIGUSR1, each builds a new      *)
(*     daemonState, moves the jobs of the old one over and installs it     *)
(*     (internal/reloader/reloader.go, Daemon.Reload).                     *)
(*                                                                         *)
(* A daemonState is an address in StateIds: 1 is the one New makes, the    *)
(* others are allocated by reloads.  A job is the pair of its ident and    *)
(* the state that was being built when it was made; a state build makes at *)
(* most one job for an ident, so the pair identifies the Job object.       *)
(* A task configuration is abstracted to its period, the one field the     *)
(* scheduler itself reads; Absent stands for "no such task configured".    *)
(*                                                                         *)
(* Accesses to shared variables are interleaved one by one.  The pointer   *)
(* Daemon.daemonState is read and written without a lock: the model reads  *)
(* it where the code does and uses the value later, however stale.         *)
(***************************************************************************)
EXTENDS Integers, FiniteSets

CONSTANTS
  Idents,         \* task idents ("type:id")
  KeywordIdents,  \* the idents of keyword tasks, which have their own scheduler
  Periods,        \* task periods, in units of the model's clock
  Configs,        \* the task lists a valid configuration file can hold
  BadConfigs,     \* the file contents that do not load or clean
  Reloaders,      \* the reload goroutines that may exist at the same time
  MayStop,        \* bound: is the process told to stop?
  MaxReloads,     \* bound: SIGUSR1 signals delivered
  MaxTime         \* bound: clock

Absent == 0

ASSUME PeriodsAssumption == Periods \subseteq Nat \ {0}
ASSUME BoundsAssumption ==
  MaxReloads \in Nat /\ MaxTime \in Nat /\ MayStop \in BOOLEAN
ASSUME ConfigsAssumption ==
  /\ Configs \subseteq [Idents -> Periods \cup {Absent}]
  /\ BadConfigs \cap Configs = {}
ASSUME KeywordAssumption == KeywordIdents \subseteq Idents

StateIds == 1 .. (MaxReloads + 1)
Jobs == Idents \X StateIds
Ident(j) == j[1]
Tasks(conf) == {i \in Idents : conf[i] # Absent}
NoTick == -1
NoTasks == [i \in Idents |-> Absent]

VARIABLES
  file,        \* the configuration file on disk
  unsignalled, \* it was edited (or never signalled) since the last SIGUSR1
  sig,         \* the reloader's signal channel (capacity 1): 0, or the
               \* address the reload it starts will allocate
  nsig,        \* SIGUSR1 signals accepted by that channel so far
  listening,   \* Reloader.Run is still in its select loop
  now,         \* the clock
  tick,        \* the ticker's channel (capacity 1)
  ctxDone,     \* the process context is cancelled
  cur,         \* Daemon.daemonState
  status,      \* daemonState.Status
  tasks,       \* daemonState.tasks
  queue,       \* daemonState.jobs: the queue is sorted by check time, and is
               \* only ever emptied or cut at a check time, so a set will do
  busy,        \* daemonState.jobAtomic
  made,        \* the Job objects that exist
  cfg,         \* job.task.GetConfig(): what SetConfig replaces
  own,         \* the configuration the concrete task was built with and that
               \* its Run reads
  checkTime,   \* job.checkTime
  cancelled,   \* job.Stop() was called
  spawned,     \* the jobs with a goroutine that has yet to call Job.Run
  inflight,    \* the jobs with a task run begun and not finished
  lpc, lstate, ltick, batch,        \* the run loop and its locals
  rpc, rconf, rold, rnew, todo, hand, \* reload goroutines and their locals
  mpc, toAdd                        \* main

envVars == <<file, unsignalled>>
sigVars == <<sig, nsig, listening>>
stateVars == <<cur, status, tasks, queue, busy>>
jobVars == <<made, cfg, own, checkTime, cancelled, spawned, inflight>>
loopVars == <<lpc, lstate, ltick, batch>>
reloadVars == <<rpc, rconf, rold, rnew, todo, hand>>
mainVars == <<mpc, toAdd>>
vars == <<envVars, sigVars, now, tick, ctxDone, stateVars, jobVars, loopVars,
          reloadVars, mainVars>>

Init ==
  /\ file \in Configs
  /\ unsignalled = TRUE
  /\ sig = 0
  /\ nsig = 0
  /\ listening = TRUE
  /\ now = 0
  /\ tick = NoTick
  /\ ctxDone = FALSE
  /\ cur = 1
  /\ status = [s \in StateIds |-> "new"]
  /\ tasks = [s \in StateIds |-> NoTasks]
  /\ queue = [s \in StateIds |-> {}]
  /\ busy = [s \in StateIds |-> FALSE]
  /\ made = {}
  /\ cfg = [j \in Jobs |-> Absent]
  /\ own = [j \in Jobs |-> Absent]
  /\ checkTime = [j \in Jobs |-> 0]
  /\ cancelled = [j \in Jobs |-> FALSE]
  /\ spawned = {}
  /\ inflight = {}
  /\ lpc = "none"
  /\ lstate = 1
  /\ ltick = 0
  /\ batch = {}
  /\ rpc = [r \in Reloaders |-> "idle"]
  /\ rconf = [r \in Reloaders |-> NoTasks]
  /\ rold = [r \in Reloaders |-> 1]
  /\ rnew = [r \in Reloaders |-> 1]
  /\ todo = [r \in Reloaders |-> {}]
  /\ hand = [r \in Reloaders |-> {}]
  /\ mpc = "add"
  /\ toAdd = Tasks(file) \ KeywordIdents

(***************************************************************************)
(* The operations on jobs, queues and flags the goroutines share.  A       *)
(* definition whose comment begins with "Mutant" is a wrong form of the    *)
(* one after it, against which the properties are tried.                   *)
(***************************************************************************)

\* Mutant: the period is subtracted.
JobNextBackwards(j) == checkTime[j] - cfg[j]

\* Job.Next: the check time advances by the task's current period.
JobNext(j) == checkTime[j] + cfg[j]

\* Mutant: the job is dropped without a call to Stop.
JobStopNot(j) == UNCHANGED cancelled

\* Job.Stop: the job's context is cancelled.
JobStop(j) == cancelled' = [cancelled EXCEPT ![j] = TRUE]

\* Mutant: the comparison with the tick is dropped.
PopUntilAny(q, t) == q

\* LockQueue.PopUntil.
PopUntil(q, t) == {j \in q : checkTime[j] <= t}

\* Mutant: the queue is not cleared.
PopAllCopy(s) == UNCHANGED queue

\* LockQueue.PopAll, its effect on the queue of state s.
PopAll(s) == queue' = [queue EXCEPT ![s] = {}]

\* Mutant: the flag is not looked at.
FreeAlways(s) == TRUE

\* jobAtomic.CompareAndSwap(false, true) succeeds.
Free(s) == ~busy[s]

Take(s) == Free(s) /\ busy' = [busy EXCEPT ![s] = TRUE]

\* Mutant: a forgotten Store.
DropNot(s) == UNCHANGED busy

\* jobAtomic.Store(false).
Drop(s) == busy' = [busy EXCEPT ![s] = FALSE]

\* taskMaps.Remove.
Without(T, i) == T \ {i}

\* Mutant: the new state is built and forgotten.
InstallNot(s) == UNCHANGED cur

\* The last statement of Reload.
Install(s) == cur' = s

\* Mutant: the select has no such case.
NeverDone == FALSE

\* The case ctx.Done() of the run loop's select is ready.
Done == ctxDone

(***************************************************************************)
(* main: registration, start and shutdown.                                 *)
(***************************************************************************)

\* Daemon.Add, as main's registration loop calls it: before Start, for every
\* task that does not belong to the keyword scheduler.
Add(i) ==
  /\ mpc = "add"
  /\ i \in toAdd
  /\ tasks' = [tasks EXCEPT ![cur][i] = file[i]]
  /\ toAdd' = toAdd \ {i}
  /\ UNCHANGED <<envVars, sigVars, now, tick, ctxDone, cur, status, queue, busy,
                 jobVars, loopVars, reloadVars, mpc>>

\* NewJob and Job.Init for the idents I, on behalf of the state s whose tasks
\* are conf: the first check time is the current time.
MakeJobs(I, s, conf) ==
  LET new == I \X {s}
  IN  /\ made' = made \cup new
      /\ cfg' = [j \in Jobs |-> IF j \in new THEN conf[Ident(j)] ELSE cfg[j]]
      /\ own' = [j \in Jobs |-> IF j \in new THEN conf[Ident(j)] ELSE own[j]]
      /\ checkTime' = [j \in Jobs |-> IF j \in new THEN now ELSE checkTime[j]]
      /\ UNCHANGED <<cancelled, spawned, inflight>>

\* Daemon.Start: a job for every registered task, then the run loop.
Start ==
  /\ mpc = "add"
  /\ toAdd = {}
  /\ status' = [status EXCEPT ![cur] = "running"]
  /\ MakeJobs(Tasks(tasks[cur]), cur, tasks[cur])
  /\ queue' = [queue EXCEPT ![cur] = @ \cup (Tasks(tasks[cur]) \X {cur})]
  /\ lpc' = "start"
  /\ mpc' = "running"
  /\ UNCHANGED <<envVars, sigVars, now, tick, ctxDone, cur, tasks, busy,
                 lstate, ltick, batch, reloadVars, toAdd>>

\* SIGINT or SIGTERM cancels the context every goroutine was given.
Cancel ==
  /\ MayStop
  /\ mpc = "running"
  /\ ~ctxDone
  /\ ctxDone' = TRUE
  /\ UNCHANGED <<envVars, sigVars, now, tick, stateVars, jobVars, loopVars,
                 reloadVars, mainVars>>

\* sched.Stop() after <-ctx.Done(): marks the state installed at that moment.
Stop ==
  /\ mpc = "running"
  /\ ctxDone
  /\ status' = [status EXCEPT ![cur] = "finished"]
  /\ mpc' = "wait"
  /\ UNCHANGED <<envVars, sigVars, now, tick, ctxDone, cur, tasks, queue, busy,
                 jobVars, loopVars, reloadVars, toAdd>>

\* Daemon.Wait, first part: the wait group is the run loop's; then the jobs of
\* the installed state are popped.  Their tasks' Wait returns at once: no task
\* ever registers a run with BaseTask's wait group.
WaitDrain ==
  /\ mpc = "wait"
  /\ lpc = "exited"
  /\ PopAll(cur)
  /\ mpc' = "drained"
  /\ UNCHANGED <<envVars, sigVars, now, tick, ctxDone, cur, status, tasks, busy,
                 jobVars, loopVars, reloadVars, toAdd>>

\* Daemon.Wait, last line.
WaitFinish ==
  /\ mpc = "drained"
  /\ status' = [status EXCEPT ![cur] = "finished"]
  /\ mpc' = "done"
  /\ UNCHANGED <<envVars, sigVars, now, tick, ctxDone, cur, tasks, queue, busy,
                 jobVars, loopVars, reloadVars, toAdd>>

(***************************************************************************)
(* Time.  The clock is coarser than the ticker: any number of ticks may    *)
(* fire at one clock value, and a tick that finds the channel full is      *)
(* dropped.                                                                *)
(***************************************************************************)

Clock ==
  /\ mpc # "add"
  /\ now < MaxTime
  /\ now' = now + 1
  /\ UNCHANGED <<envVars, sigVars, tick, ctxDone, stateVars, jobVars, loopVars,
                 reloadVars, mainVars>>

Fire ==
  /\ lpc \notin {"none", "exited"}
  /\ tick = NoTick
  /\ tick' = now
  /\ UNCHANGED <<envVars, sigVars, now, ctxDone, stateVars, jobVars, loopVars,
                 reloadVars, mainVars>>

(***************************************************************************)
(* The run loop.                                                           *)
(***************************************************************************)

\* The goroutine's first statement sets the status of the installed state.
LoopStart ==
  /\ lpc = "start"
  /\ status' = [status EXCEPT ![cur] = "running"]
  /\ lpc' = "check"
  /\ UNCHANGED <<envVars, sigVars, now, tick, ctxDone, cur, tasks, queue, busy,
                 jobVars, lstate, ltick, batch, reloadVars, mainVars>>

LoopCheck ==
  /\ lpc = "check"
  /\ lpc' = IF status[cur] = "running" THEN "select" ELSE "exited"
  /\ UNCHANGED <<envVars, sigVars, now, tick, ctxDone, stateVars, jobVars,
                 lstate, ltick, batch, reloadVars, mainVars>>

LoopDone ==
  /\ lpc = "select"
  /\ Done
  /\ lpc' = "exited"
  /\ UNCHANGED <<envVars, sigVars, now, tick, ctxDone, stateVars, jobVars,
                 lstate, ltick, batch, reloadVars, mainVars>>

\* A tick is received and the installed state read; it is used from here on.
LoopTick ==
  /\ lpc = "select"
  /\ tick # NoTick
  /\ tick' = NoTick
  /\ ltick' = tick
  /\ lstate' = cur
  /\ lpc' = "cas"
  /\ UNCHANGED <<envVars, sigVars, now, ctxDone, stateVars, jobVars, batch,
                 reloadVars, mainVars>>

LoopAcquire ==
  /\ lpc = "cas"
  /\ Take(lstate)
  /\ lpc' = "pop"
  /\ UNCHANGED <<envVars, sigVars, now, tick, ctxDone, cur, status, tasks, queue,
                 jobVars, lstate, ltick, batch, reloadVars, mainVars>>

\* The locals of an iteration end with it.
ForgetTick == lstate' = 1 /\ ltick' = 0

\* The flag is taken by a reload: this tick is given up.
LoopSkip ==
  /\ lpc = "cas"
  /\ ~Free(lstate)
  /\ lpc' = "check"
  /\ ForgetTick
  /\ UNCHANGED <<envVars, sigVars, now, tick, ctxDone, stateVars, jobVars,
                 batch, reloadVars, mainVars>>

LoopPop ==
  /\ lpc = "pop"
  /\ batch' = PopUntil(queue[lstate], ltick)
  /\ queue' = [queue EXCEPT ![lstate] = @ \ batch']
  /\ lpc' = IF batch' = {} THEN "release" ELSE "run"
  /\ UNCHANGED <<envVars, sigVars, now, tick, ctxDone, cur, status, tasks, busy,
                 jobVars, lstate, ltick, reloadVars, mainVars>>

\* The go statement, for every popped job.
LoopSpawn ==
  /\ lpc = "run"
  /\ spawned' = spawned \cup batch
  /\ lpc' = "push"
  /\ UNCHANGED <<envVars, sigVars, now, tick, ctxDone, stateVars, made, cfg, own, checkTime,
                 cancelled, inflight, lstate, ltick, batch, reloadVars, mainVars>>

\* Job.Next for every popped job, then Push to the queue they came from.
LoopPush ==
  /\ lpc = "push"
  /\ checkTime' = [j \in Jobs |-> IF j \in batch THEN JobNext(j) ELSE checkTime[j]]
  /\ queue' = [queue EXCEPT ![lstate] = @ \cup batch]
  /\ batch' = {}
  /\ lpc' = "release"
  /\ UNCHANGED <<envVars, sigVars, now, tick, ctxDone, cur, status, tasks, busy,
                 made, cfg, own, cancelled, spawned, inflight, lstate, ltick,
                 reloadVars, mainVars>>

LoopRelease ==
  /\ lpc = "release"
  /\ Drop(lstate)
  /\ lpc' = "check"
  /\ ForgetTick
  /\ UNCHANGED <<envVars, sigVars, now, tick, ctxDone, cur, status, tasks, queue,
                 jobVars, batch, reloadVars, mainVars>>

\* Job.Run is called, by the last of the job's goroutines that had yet to: whatever
\* has become of the job since it was popped.
RunBegin(j) ==
  /\ j \in spawned
  /\ spawned' = spawned \ {j}
  /\ inflight' = inflight \cup {j}
  /\ UNCHANGED <<envVars, sigVars, now, tick, ctxDone, stateVars, made, cfg, own,
                 checkTime, cancelled, loopVars, reloadVars, mainVars>>

\* The last of a job's runs in flight returns.
RunEnd(j) ==
  /\ j \in inflight
  /\ inflight' = inflight \ {j}
  /\ UNCHANGED <<envVars, sigVars, now, tick, ctxDone, stateVars, made, cfg, own,
                 checkTime, cancelled, spawned, loopVars, reloadVars, mainVars>>

(***************************************************************************)
(* The operator, the reloader and the reload goroutines.                   *)
(***************************************************************************)

\* The operator edits the configuration file.
Edit(f) ==
  /\ mpc = "running"
  /\ f # file
  /\ file' = f
  /\ unsignalled' = TRUE
  /\ UNCHANGED <<sigVars, now, tick, ctxDone, stateVars, jobVars, loopVars,
                 reloadVars, mainVars>>

\* SIGUSR1: os/signal drops it when the channel is full.
Signal ==
  /\ mpc = "running"
  /\ IF sig = 0
     THEN /\ nsig < MaxReloads
          /\ nsig' = nsig + 1
          /\ sig' = nsig + 2
     ELSE UNCHANGED <<sig, nsig>>
  /\ unsignalled' = FALSE
  /\ UNCHANGED <<file, listening, now, tick, ctxDone, stateVars, jobVars, loopVars,
                 reloadVars, mainVars>>

\* Reloader.Run receives the signal and starts a goroutine for it.
Spawn(r) ==
  /\ listening
  /\ sig # 0
  /\ rpc[r] = "idle"
  /\ rnew' = [rnew EXCEPT ![r] = sig]
  /\ sig' = 0
  /\ rpc' = [rpc EXCEPT ![r] = "load"]
  /\ UNCHANGED <<envVars, nsig, listening, now, tick, ctxDone, stateVars, jobVars,
                 loopVars, rconf, rold, todo, hand, mainVars>>

\* Reloader.Run leaves its select on ctx.Done().  It then waits for the reload
\* goroutines, which nobody waits for it to do.
ReloaderExit ==
  /\ listening
  /\ ctxDone
  /\ listening' = FALSE
  /\ UNCHANGED <<envVars, sig, nsig, now, tick, ctxDone, stateVars, jobVars,
                 loopVars, reloadVars, mainVars>>

\* The goroutine returns, its locals end with it.
ReloadReturn(r) ==
  /\ rpc' = [rpc EXCEPT ![r] = "idle"]
  /\ rconf' = [rconf EXCEPT ![r] = NoTasks]
  /\ rold' = [rold EXCEPT ![r] = 1]
  /\ rnew' = [rnew EXCEPT ![r] = 1]

\* The reload function of main: load, clean, build the tasks; an error ends it.
ReloadLoad(r) ==
  /\ rpc[r] = "load"
  /\ IF file \in BadConfigs
     THEN ReloadReturn(r)
     ELSE /\ rpc' = [rpc EXCEPT ![r] = "begin"]
          /\ rconf' = [rconf EXCEPT ![r] = file]
          /\ UNCHANGED <<rold, rnew>>
  /\ UNCHANGED <<envVars, sigVars, now, tick, ctxDone, stateVars, jobVars,
                 loopVars, todo, hand, mainVars>>

\* Daemon.Reload up to the spin loop: a new state with the status of the old
\* one and the new tasks, keyword tasks among them.
ReloadBegin(r) ==
  /\ rpc[r] = "begin"
  /\ rold' = [rold EXCEPT ![r] = cur]
  /\ status' = [status EXCEPT ![rnew[r]] = status[cur]]
  /\ tasks' = [tasks EXCEPT ![rnew[r]] = rconf[r]]
  /\ todo' = [todo EXCEPT ![r] = Tasks(rconf[r])]
  /\ rpc' = [rpc EXCEPT ![r] = "spin"]
  /\ UNCHANGED <<envVars, sigVars, now, tick, ctxDone, cur, queue, busy, jobVars,
                 loopVars, rconf, rnew, hand, mainVars>>

ReloadAcquire(r) ==
  /\ rpc[r] = "spin"
  /\ Take(rold[r])
  /\ rpc' = [rpc EXCEPT ![r] = "popall"]
  /\ UNCHANGED <<envVars, sigVars, now, tick, ctxDone, cur, status, tasks, queue,
                 jobVars, loopVars, rconf, rold, rnew, todo, hand, mainVars>>

ReloadPopAll(r) ==
  /\ rpc[r] = "popall"
  /\ hand' = [hand EXCEPT ![r] = queue[rold[r]]]
  /\ PopAll(rold[r])
  /\ rpc' = [rpc EXCEPT ![r] = "move"]
  /\ UNCHANGED <<envVars, sigVars, now, tick, ctxDone, cur, status, tasks, busy,
                 jobVars, loopVars, rconf, rold, rnew, todo, mainVars>>

\* PopAll keeps the queue's order: the earliest check time comes first.
First(j, q) == j \in q /\ \A k \in q : checkTime[j] <= checkTime[k]

\* A job whose ident is still configured gets the new configuration and moves
\* to the new state with its check time.
ReloadKeep(r, j) ==
  /\ rpc[r] = "move"
  /\ First(j, hand[r])
  /\ Ident(j) \in todo[r]
  /\ cfg' = [cfg EXCEPT ![j] = rconf[r][Ident(j)]]
  /\ queue' = [queue EXCEPT ![rnew[r]] = @ \cup {j}]
  /\ todo' = [todo EXCEPT ![r] = Without(@, Ident(j))]
  /\ hand' = [hand EXCEPT ![r] = @ \ {j}]
  /\ UNCHANGED <<envVars, sigVars, now, tick, ctxDone, cur, status, tasks, busy,
                 made, own, checkTime, cancelled, spawned, inflight, loopVars,
                 rpc, rconf, rold, rnew, mainVars>>

\* Any other job is stopped: its context is cancelled.
ReloadStop(r, j) ==
  /\ rpc[r] = "move"
  /\ First(j, hand[r])
  /\ Ident(j) \notin todo[r]
  /\ JobStop(j)
  /\ hand' = [hand EXCEPT ![r] = @ \ {j}]
  /\ UNCHANGED <<envVars, sigVars, now, tick, ctxDone, stateVars, made, cfg, own,
                 checkTime, spawned, inflight, loopVars, rpc, rconf, rold, rnew,
                 todo, mainVars>>

ReloadRelease(r) ==
  /\ rpc[r] = "move"
  /\ hand[r] = {}
  /\ Drop(rold[r])
  /\ rpc' = [rpc EXCEPT ![r] = "create"]
  /\ UNCHANGED <<envVars, sigVars, now, tick, ctxDone, cur, status, tasks, queue,
                 jobVars, loopVars, rconf, rold, rnew, todo, hand, mainVars>>

\* Jobs for the configured idents that had none.
ReloadCreate(r) ==
  /\ rpc[r] = "create"
  /\ MakeJobs(todo[r], rnew[r], rconf[r])
  /\ queue' = [queue EXCEPT ![rnew[r]] = @ \cup (todo[r] \X {rnew[r]})]
  /\ todo' = [todo EXCEPT ![r] = {}]
  /\ rpc' = [rpc EXCEPT ![r] = "install"]
  /\ UNCHANGED <<envVars, sigVars, now, tick, ctxDone, cur, status, tasks, busy,
                 loopVars, rconf, rold, rnew, hand, mainVars>>

ReloadInstall(r) ==
  /\ rpc[r] = "install"
  /\ Install(rnew[r])
  /\ ReloadReturn(r)
  /\ UNCHANGED <<envVars, sigVars, now, tick, ctxDone, status, tasks, queue, busy,
                 jobVars, loopVars, todo, hand, mainVars>>

(***************************************************************************)
(* The specification.                                                      *)
(***************************************************************************)

MainNext == (\E i \in Idents : Add(i)) \/ Start \/ Stop \/ WaitDrain \/ WaitFinish

LoopNext ==
  \/ LoopStart \/ LoopCheck \/ LoopDone \/ LoopTick \/ LoopAcquire \/ LoopSkip
  \/ LoopPop \/ LoopSpawn \/ LoopPush \/ LoopRelease

ReloadNext(r) ==
  \/ Spawn(r) \/ ReloadLoad(r) \/ ReloadBegin(r) \/ ReloadAcquire(r)
  \/ ReloadPopAll(r) \/ ReloadRelease(r) \/ ReloadCreate(r) \/ ReloadInstall(r)
  \/ \E j \in Jobs : ReloadKeep(r, j) \/ ReloadStop(r, j)

\* The process has shut down: nothing more is required to happen.
Terminated == mpc = "done" /\ UNCHANGED vars

Next ==
  \/ MainNext
  \/ LoopNext
  \/ Cancel \/ Clock \/ Fire \/ Signal \/ ReloaderExit
  \/ \E f \in Configs \cup BadConfigs : Edit(f)
  \/ \E j \in Jobs : RunBegin(j) \/ RunEnd(j)
  \/ \E r \in Reloaders : ReloadNext(r)
  \/ Terminated

Spec == Init /\ [][Next]_vars

(***************************************************************************)
(* Fairness: every goroutine that can take a step is scheduled.  select    *)
(* picks among ready cases at random, so a case that is ready at infinitely *)
(* many selects is taken; a goroutine that retries a compare-and-swap in a *)
(* spin loop retries far more often than the loop takes the flag, which it *)
(* does once a tick.  Nothing is assumed of the operator, of SIGTERM or of *)
(* how long a task runs.                                                   *)
(***************************************************************************)
Fairness ==
  /\ WF_vars(MainNext)
  /\ WF_vars(LoopNext)
  /\ SF_vars(LoopDone)
  /\ WF_vars(Clock)
  /\ WF_vars(Fire)
  /\ \A r \in Reloaders : WF_vars(ReloadNext(r)) /\ SF_vars(ReloadAcquire(r))

FairSpec == Spec /\ Fairness

(***************************************************************************)
(* Properties.                                                             *)
(***************************************************************************)

LoopHolding == {"pop", "run", "push", "release"}
LoopPcs == {"none", "start", "check", "select", "cas", "exited"} \cup LoopHolding
ReloadHolding == {"popall", "move"}
ReloadPcs == {"idle", "load", "begin", "spin", "create", "install"} \cup ReloadHolding
MainPcs == {"add", "running", "wait", "drained", "done"}
Statuses == {"new", "running", "finished"}

\* Every variable has its type; in particular no reload ever allocates beyond
\* the signals delivered, and check times are natural numbers.
TypeOK ==
  /\ file \in Configs \cup BadConfigs
  /\ unsignalled \in BOOLEAN
  /\ sig \in {0} \cup StateIds
  /\ nsig \in 0 .. MaxReloads
  /\ listening \in BOOLEAN
  /\ now \in Nat
  /\ tick \in Nat \cup {NoTick}
  /\ ctxDone \in BOOLEAN
  /\ cur \in StateIds
  /\ status \in [StateIds -> Statuses]
  /\ tasks \in [StateIds -> [Idents -> Periods \cup {Absent}]]
  /\ queue \in [StateIds -> SUBSET Jobs]
  /\ busy \in [StateIds -> BOOLEAN]
  /\ made \in SUBSET Jobs
  /\ cfg \in [Jobs -> Periods \cup {Absent}]
  /\ own \in [Jobs -> Periods \cup {Absent}]
  /\ checkTime \in [Jobs -> Nat]
  /\ cancelled \in [Jobs -> BOOLEAN]
  /\ spawned \in SUBSET Jobs
  /\ inflight \in SUBSET Jobs
  /\ lpc \in LoopPcs
  /\ lstate \in StateIds
  /\ ltick \in Nat
  /\ batch \in SUBSET Jobs
  /\ rpc \in [Reloaders -> ReloadPcs]
  /\ rconf \in [Reloaders -> [Idents -> Periods \cup {Absent}]]
  /\ rold \in [Reloaders -> StateIds]
  /\ rnew \in [Reloaders -> StateIds]
  /\ todo \in [Reloaders -> SUBSET Idents]
  /\ hand \in [Reloaders -> SUBSET Jobs]
  /\ mpc \in MainPcs
  /\ toAdd \in SUBSET Idents

LoopHolds(s) == lpc \in LoopHolding /\ lstate = s
ReloadHolds(r, s) == rpc[r] \in ReloadHolding /\ rold[r] = s

\* jobAtomic keeps the run loop and any number of reloads from working on one
\* queue at the same time: the flag of a state is up exactly while one of them
\* is between its compare-and-swap and its Store(false).
FlagExclusion ==
  \A s \in StateIds :
    /\ busy[s] <=> (LoopHolds(s) \/ \E r \in Reloaders : ReloadHolds(r, s))
    /\ \A r \in Reloaders : ~(LoopHolds(s) /\ ReloadHolds(r, s))
    /\ \A r1, r2 \in Reloaders :
         ReloadHolds(r1, s) /\ ReloadHolds(r2, s) => r1 = r2

\* A Job object is somewhere: in a queue, in the loop's batch or in the hands
\* of a reload.
Held(j) ==
  \/ \E s \in StateIds : j \in queue[s]
  \/ j \in batch
  \/ \E r \in Reloaders : j \in hand[r]

\* However ticks and reloads interleave, a Job object is never in two places at
\* once (it would run twice a period), and once a reload has stopped it, it is
\* nowhere: no queue can hand it to the run loop again.
JobInOnePlace ==
  \A j \in Jobs :
    /\ \A s, t \in StateIds : j \in queue[s] /\ j \in queue[t] => s = t
    /\ \A q, r \in Reloaders : j \in hand[q] /\ j \in hand[r] => q = r
    /\ \A s \in StateIds, r \in Reloaders : ~(j \in queue[s] /\ j \in hand[r])
    /\ \A s \in StateIds : ~(j \in queue[s] /\ j \in batch)
    /\ \A r \in Reloaders : ~(j \in hand[r] /\ j \in batch)
    /\ Held(j) => j \in made /\ ~cancelled[j]



Reloading(r) == rpc[r] \in {"spin", "popall", "move", "create", "install"}
Quiet == mpc = "running" /\ \A r \in Reloaders : ~Reloading(r)

\* While reloads do not overlap, no ident ever has two jobs (a task is not collected
\* twice because its configuration was reloaded).  Between reloads the scheduler has
\* exactly one job for each task of the installed state, none for anything else, and
\* each has the configuration the last reload passed on: reloads neither lose nor
\* invent a task.
JobsMatchTasks ==
  /\ \A j, k \in Jobs : Held(j) /\ Held(k) /\ Ident(j) = Ident(k) => j = k
  /\ Quiet =>
       LET live == queue[cur] \cup batch
       IN  /\ \A j \in live : cfg[j] = tasks[cur][Ident(j)] /\ cfg[j] # Absent
           /\ \A i \in Tasks(tasks[cur]) : \E j \in live : Ident(j) = i
           /\ \A s \in StateIds \ {cur} : queue[s] = {}

\* A job the scheduler can still get at: in the installed state, in the loop's
\* batch, or with a reload that has not installed its state yet.
Scheduled(j) ==
  \/ j \in queue[cur] \cup batch
  \/ \E r \in Reloaders : Reloading(r) /\ j \in hand[r] \cup queue[rnew[r]]

\* Until the scheduler is drained, a job that was made is either still scheduled
\* or has been stopped: no reload drops a job without cancelling its context.
NothingLeftBehind ==
  mpc \in {"running", "wait"} => \A j \in made : Scheduled(j) \/ cancelled[j]

\* Once the reloads asked for are over and the file has not been edited since
\* the last signal, the installed tasks are those of the file.
ConfigConverges ==
  /\ \A r \in Reloaders : rpc[r] = "idle"
  /\ sig = 0
  /\ ~unsignalled
  /\ file \notin BadConfigs
  => tasks[cur] = file

\* A task run never starts before the job's check time, and a scheduled job's
\* next check is at most one longest period ahead of the clock: no delay,
\* skipped tick or reload makes a task run early or lose a period.
Pace ==
  /\ lpc = "run" => \A j \in batch : checkTime[j] <= now
  /\ \A j \in Jobs :
       Held(j) => \E p \in Periods : checkTime[j] <= now + p

\* A reload that has started ends: the spin on jobAtomic is not starved.
ReloadCompletes ==
  \A r \in Reloaders : (rpc[r] = "load") ~> (rpc[r] = "idle")

\* After SIGTERM main gets through Stop and Wait, even when a reload copied the
\* status "running" before Stop and installed it after.
ShutdownCompletes == ctxDone ~> (mpc = "done")

\* A scheduled job that is due is run, or stopped, or the process shuts down:
\* neither ticks given up to a reload nor a change of state starve it.
DueJobsRun ==
  \A j \in Jobs, t \in 0 .. MaxTime :
    (Held(j) /\ checkTime[j] = t /\ t <= now)
      ~> (checkTime[j] > t \/ cancelled[j] \/ ctxDone)

\* What Reload's comment says of a kept job: a run after the reload works with
\* the new configuration.
ReloadReachesRuns ==
  Quiet => \A j \in queue[cur] : own[j] = tasks[cur][Ident(j)]
=============================================================================
