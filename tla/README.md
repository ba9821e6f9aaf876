# monitorbeat: TLA+ models and proofs

This directory models the agent `monitorbeat` (schedulers, hot reload, log
tailing, engine and outputs, the tasks and the configuration they are made from)
and, of the web service `monitorweb`, the alerting and the registry of agents. The
modules are checked with TLC on small instances, and every invariant of a passing
run is proved with TLAPS for every value of the constants, four of them under a
hypothesis that section 4 names. `PROJECT.json` maps each definition to the lines
it models and lists runs, mutants, hazards, findings and theorems.

    tlc -workers 2 -config DaemonSerial.cfg MCDaemon
    for m in Daemon Outputs Keyword Alerts Agents Ping Exceptions Checker; do
      tlapm ${m}Proofs.tla
    done

## 1. The system

### monitorbeat (agent)

| component | state it keeps | operations | correct when |
|---|---|---|---|
| daemon scheduler (`scheduler/daemon`) | pointer to a `daemonState`: status, task map, job queue sorted by check time, flag `jobAtomic`; per job a check time and a context | `Add`, `Start`, run loop (tick, pop, run, push), `Reload`, `Stop`, `Wait` | one job per configured ident, none lost or doubled by a reload, none run early, dropped jobs are stopped, reload and shutdown end |
| reloader (`internal/reloader`), `main` | signal channel of capacity 1, one goroutine per signal | SIGUSR1, load, build tasks, `Reload`; SIGTERM | the last configuration signalled is the one that runs |
| keyword scheduler and task (`scheduler/keyword`, `tasks/keyword`) | task map, one goroutine per task | `Start`, `Stop`, `Wait`, `Run` | every line of the file is handled once and in order; a stop ends |
| harvester (`internal/input/file`) | file position, read buffer, line channel (16), offset | reader goroutine, `ReadLine`, `Close` | same, and `Close` ends the reader |
| offset registry (`internal/input/file`) | offsets in memory and in a JSON file | load, `Get`, `Set`, `Save` | a restart goes on where the last life stopped |
| engine and outputs (`internal/engine`, `internal/output`) | event channel; file and its size; spool, its size and numbered backups | publish to each output in turn, send with retries, spool, rotate | an accepted event is stored, no output starves another, rotation drops only the oldest lines, the engine never hangs |
| ping (`tasks/ping`) | a raw socket per run, one identifier per process | send, read until the reply or a deadline, summarise; or parse the output of `ping` | an event counts the replies that came, a run ends |
| exceptionbeat (`tasks/exceptionbeat`) | time of the last core check, last OOM count, shared by overlapping runs | read mounts, core directories, `/proc/vmstat` | what is reported was so, nothing new is passed over |
| probes, script, metricbeat, dmesg, process, socket and host metrics (`tasks/...`) | none between runs | `Run` emits events | an event says what was read, and a failing part spoils that part only |
| configuration (`configs`), task factory, wiring of outputs (`cmd/monitorbeat`) | none | defaults, sections, idents, build | every usable entry becomes one task or output with sensible settings |
| checker scheduler (`scheduler/checker`) | task map, status | `Add`, `Start`, `Reload`, `Stop`, `Wait`: runs tasks once | a run serves one configuration and ends; not wired into `main` |
| registry sender (`tasks/registry`) | none | heartbeat loop over HTTP | see agent registry |
| admin server | none | HTTP | — |

### monitorweb (server)

| component | state | operations | correct when |
|---|---|---|---|
| alert store (`web/alerts/store.go`) | SQLite tables of rules, states, history | one SQL statement each, no transaction | state rows belong to a rule that exists and to its current expression |
| evaluator (`web/alerts/evaluator.go`) | none between rounds; works on copies | query, read rows, per instance a sequence of statements and a mail | notifications are held for the duration, rate limited, suppressed by an acknowledgement, and followed by one recovery |
| alert API (`web/api/alerts.go`) | none | create, update, delete a rule, acknowledge | same |
| agent registry (`web/registry`) | table of agents: a row per host name, `last_seen` in seconds | heartbeat (upsert), list, clean-up | hosts heard of within the TTL are listed as online, others not, stale rows go |
| query API, VictoriaMetrics client, SMTP, UI | none | proxies | — |

### How they interact, and what is hard

* The run loop and any number of reload goroutines share `Daemon.daemonState`, a
  pointer read and written without a lock. The atomic flag belongs to a state,
  not to the daemon, so it excludes only goroutines that hold the same state.
* A reload reads the configuration file in its own goroutine; two of them are
  not ordered.
* The harvester's reader and the task share a channel, the offset and the
  registry; at a stop they race.
* The evaluator and the API handlers share the tables and nothing else. Every
  decision of the evaluator rests on what it read before.
* The engine calls the outputs one after the other in its own goroutine, while
  tasks block on its channel; each output has several ways to fail half-way.
* Every handler of the registry, its list and its clean loop read the clock
  first and execute their statement later, in any order; processes of one host
  write the same row.
* The daemon starts a task again while an earlier run of it is in progress: runs
  of a ping share the ICMP identifier, runs of exceptionbeat its two fields.
* Failures: configuration that does not load, a query or a statement that
  fails, a server that does not answer, a reply that is lost or late, a rename that
  fails, a crash between two statements, a torn write to a log, a truncated log,
  a signal dropped by a full channel.

`PROJECT.json` lists these as hazards, each at its line.

## 2. The modules

### Daemon.tla — scheduler, reloader, shutdown

One action per access to shared state. A `daemonState` is an address (1 for the
one `New` makes, the others allocated by reloads); a job is the pair of its
ident and the state that was under construction when it was made. `cur` is the
pointer `Daemon.daemonState`; `busy` the flag `jobAtomic`; `queue` the job
queue, a set, since it is only ever emptied, added to, or cut at a check time.
A task configuration is its period, the one field the scheduler reads.

| process | actions (in program order) |
|---|---|
| main | `Add`, `Start`, `Cancel`, `Stop`, `WaitDrain`, `WaitFinish` |
| run loop | `LoopStart`, `LoopCheck`, `LoopDone` or `LoopTick`, `LoopAcquire` or `LoopSkip`, `LoopPop`, `LoopSpawn` (the `go` statements), `LoopPush`, `LoopRelease` |
| reloader | `Signal`, `Spawn`, `ReloaderExit` |
| a reload | `ReloadLoad`, `ReloadBegin`, `ReloadAcquire`, `ReloadPopAll`, `ReloadKeep`/`ReloadStop`, `ReloadRelease`, `ReloadCreate`, `ReloadInstall` |
| a run of a job | `RunBegin` (the goroutine calls `Job.Run`, at any time after its `go` statement, a stop or a reload in between included), `RunEnd` |
| environment | `Clock`, `Fire` (ticker), `Edit` |

### Keyword.tla — tailing a log

`Tasks` keyword tasks, each with a file. A file is a number of bytes, a line is
`LineLen` bytes; an item is a pair of offsets. The reader goroutine (`Fill`,
`TakeLine`, `TakeRest`, `ReadFail`, `Send`, `Track`, `MaybeSave`, `Wake`,
`WaitClosed`) and the task (`Begin`, `ReadLine`, `SkipLine`, `Emit`, `Return`,
`CloseDone`, `CloseSet`, `CloseFile`, `Save` or `SaveFail`) are interleaved;
`Boot` starts the process again after an end or, at any moment, a crash. The
read-ahead of the buffer is explicit (`bpos`, `fpos`), because the recorded offset
is the position of the file and not that of the line. `world` is the setting a
behaviour takes place in (how logs are written, where reading starts, how many
lives), so that one run covers several. The gb18030 decoder is left out, and every
task has a registry file.

### Outputs.tla — engine, file output, HTTP output

Events are alike, so the channel is a number. A file is a sequence of lines, each
the number of the write that made it, and a number of bytes (`logBytes`,
`oldBytes`, `spoolBytes`). A line has between 1 and `MaxLine` bytes, chosen at each
write, and sizes are compared with their limits after it, as in `file.go:144` and
`http.go:335`; `FileMax` may be 0. `epc` is the
engine, `outs` what remains of its loop over the outputs, `opc` the place inside
the `Publish` in progress; `Return` is the return of a `Publish`.

| part | actions |
|---|---|
| engine | `Take`, `Heartbeat` (both `PublishAll`), `EventDone`, `EngineStop` |
| file output | `FilePublish`, then, at the limit, `FileRename`, `FileReopen`; each with its `...Fail` |
| HTTP output | `HttpPublish` or `FormatFail`; `SendOk`, `SendFail`, `Backoff`, `BackoffCancelled`; `FallbackOpen`, `FallbackWrite`; at the limit `Shift` per backup, `ShiftBase`; each with its `...Fail` |
| environment | `Produce` (tasks), `Cancel`, `Boot` (restart after an end, or a crash at any moment) |

`returned`, `failed`, `stored` (of the event in hand), `nLog`, `nSpool` and `cut`
(rotations cut short by a failure or a crash) are history variables. A failed
send may have reached the server. A write that fails is assumed to have put nothing
in the file.

### Alerts.tla — evaluator, store, API

The evaluator and a request are sequences of SQL statements, one statement a
step (`EvalStep`, `ApiStep`), any of which may fail (`EvalFail`, `ApiFail`).
`Plan` is the transition table of `evaluateRule`, which computes the sequence
from the rows read before. The store keeps whole seconds (`Stored`), the clock
runs in units of 1/`Sec`. `mailed`, `lastFired`, `sinceAck`, `seen` and the
column `expr` of a row are history variables. At most one request is in
progress at a time. `world` says, among others, whether requests may overlap an
evaluation and whether statements may fail; `Calm` worlds have neither.

### Directory.tla and Agents.tla — the agent registry

`Directory` is what the registry promises: for every host the second it was last
heard of, written down at most `Slack` seconds late, and kept for at least `Ttl`
seconds. `Agents` implements it (`Promise`, by `INSTANCE Directory WITH` the
clock in seconds and the column `last_seen`). A process is one life of
`monitorbeat`; a restarted agent, or a second one, is another process of the host.

| process | actions |
|---|---|
| sender | `Boot`, `Send` or `SendFail`, `NextBeat`, `GiveUp` (client timeout), `Leave` (the process ends; its request may still arrive) |
| a handler | `Receive` reads the clock, `Heartbeat` or `HeartbeatFail` executes |
| clean loop | `CleanStale` reads the clock, `CleanExec` or `CleanFail` executes |
| list | `ListAgents` reads the clock, `ListDone` queries |
| environment | `Tick`, `WebRestart` |

The clock runs in ticks of 1/`Sec` second. `Stall` is the time a statement may be
kept waiting (`busy_timeout`).

### Ping.tla — overlapping probes

Each Run of a ping goes through backend selection (`Run`), `Listen`, and per
packet `Write`, reads (`ReadReply`, `ReadOther`, `ReadFail`) and
`Pause`; `LoopCancelled` leaves the loop, `Aggregate` summarises and `Emit` sends
the event. `Command` is the
other backend: any output `ping` may print, reduced to what the code finds in
it. Every open raw socket gets a copy of every reply that arrives (`Deliver`),
however late, those to other Runs too, and hears the requests the host sends
(`Requests`) and the packets of other programs (`Foreign`). The identifier is the
process number modulo 2^16, so another program (`Others`) may have the agent's. A
request is not kept in a buffer: a Run that reads it drops it, as often as it is
heard. `Expire` (the timeout) and `Stop` come at any moment. `hits` and `alone`
are history variables, and so is the field `by` of a packet.

### Exceptions.tla — exceptionbeat

Runs of one task go through their checks step by step and share `lastCoreCheck`
and `lastOOMKillCount` without a lock. A `time.Time` has several words, so a Run may
read it half written (`Torn`), which comparisons take for a time before every file or,
when the second word is seen without the first, for one after every file (`Apparent`).
A Run that saw no earlier time, or a half-written one, is part of the base line. Files
and process are assumed to have one clock. Meanwhile the host acts: `Dump`, `Remove` (core
files), `Kill` (the OOM counter), `Change` (a mount). `New` replaces the task on
a reload. What has been told, and during which states of the disks a Run took
place, are history variables.

### Settings.tla, Collectors.tla and Checker.tla — from the file to the events

`Settings` has the pure functions from a configuration file to tasks and outputs:
defaults, the fourteen sections, idents, what can be built, what is wired. An ident
is ordered as the string it is (`Precedes`, on the digits of the id), so that
`tcp:10` comes before `tcp:2` in the tree map. Sizes are in thousandths of a
megabyte, because the file output takes fractions and cuts them off. `Collectors` has
what each task's `Run` makes of its inputs: the stages of a probe, the parsers,
dmesg's matching, the selection of processes, the parts of basereport. A line of
text is its kind, key and value; `extractValue` gives 0 for a histogram or a summary,
and `Scanned` ends at a line beyond the scanner's 64 KiB. The text of metricbeat is
the first ten megabytes of the page, which is what it reads. That the commands and
system calls behind dmesg (`dmesg.go:120`) and the disk usage (`basereport.go:145`)
return is an assumption about the operating system: no time limit is set on them.
`Checker` composes them: it loads a file (`Boot`, `LoadFail`), runs its tasks in
turn on inputs that are open (`Begin`, `Collect`, `Silently`, `Panic`, `Send`),
and is stopped, reloaded and started again. Since `main` does not use the
checker scheduler, its caller follows the comment of `Reload`.

### MC modules and mutants

`MCDaemon`, `MCKeyword`, `MCOutputs`, `MCAlerts`, `MCAgents`, `MCPing`,
`MCExceptions` and `MCChecker` give TLC the constants. Definitions
marked "Mutant" are plausible mistakes in the code; each property is violated
under one of them.

## 3. What the runs show

Passing:

| run | properties | what it shows |
|---|---|---|
| DaemonSerial | `TypeOK`, `Pace`, `JobsMatchTasks`, `NothingLeftBehind`, `ConfigConverges`, `JobInOnePlace` | with reloads one after the other, some of a file that does not load: the jobs are those of the configuration last signalled, one per ident and in one place, a job that was dropped is stopped and in no queue, and no job is taken from the queue early, although the run loop works on a stale pointer |
| DaemonLive | `ReloadCompletes`, `ShutdownCompletes`, `DueJobsRun` | with a shutdown at any moment, the spin loop ends, the process ends, due jobs run |
| Keyword | `TypeOK`, `OffsetsSaved`, `InOrder`, `ShutdownCompletes`, `LinesArrive` | over stops, crashes, torn writes and truncation: a clean stop leaves an offset that repeats at most one item, and a life handles what it reads in order, without gaps or repetition, and in whole lines if they are written so; a stop ends although the engine may have gone; written lines are handled |
| Outputs | `TypeOK`, `NoSilentLoss`, `OutputsIndependent`, `NewestKept`, `SizesBounded`, `EngineKeepsUp` | whatever fails, is cancelled or crashes: an accepted event is stored, every output gets every event, file and spool hold the newest lines without a gap, none passes its limit by a whole longest line, the channel is drained and the engine ends |
| Alerts | `TypeOK`, `AckRespected`, `RowsRight`, `NotifiedWhenDue` | in calm worlds the alert life cycle: acknowledgements at any moment are respected, notifications wait for the duration, are rate limited and followed by one recovery, rows belong to their rule and its expression; with failing statements, overlap and restarts, the rows stay coherent |
| Agents | `TypeOK`, `Promise`, `AnswersRight`, `StaleForgotten` | with slow statements, requests that overtake each other, abandoned requests and restarts of either side: the table implements `Directory`; who is listed as online was heard of within the TTL and a second, and who was stored within the TTL is listed; stale rows go |
| Ping | `TypeOK`, `Honest`, `RunEnds` | a reply is counted once and only if it was read, an error comes without packets; a Run that overlaps no other takes no request, no late reply, and no foreign one unless that process has the agent's 16-bit identifier; every Run ends, however many foreign packets it hears |
| Exceptions | `TypeOK`, `DiskRight`, `CoreReported`, `OOMAccounted` | the mounts reported were so during the Run; no core file is passed over even if Runs overlap; without overlap every kill after the base line is reported once |
| Checker | `TypeOK`, `Served`, `EventsRight`, `RunEnds` | a run serves exactly one of the files loaded, each usable entry once and in the order of the ident strings; every event agrees with an independent definition of what it should say; a run ends (deadlock is not checked, because the program ends) |

Overlapping reloads are explored by DaemonLostStop; exclusion, `JobInOnePlace`
and `Pace` are proved for any number of them (section 4).

Violations: each run below states what a comment or document says, and TLC
finds a behaviour of the code that contradicts it. The quotations are in
`PROJECT.json`.

| run | property | what happens |
|---|---|---|
| DaemonLostStop | `NothingLeftBehind` | two reloads at once: a dropped job is never stopped |
| DaemonConfig | `ReloadReachesRuns` | a kept job goes on with its old settings; only its period changes |
| KeywordSkip | `NoLineSkipped` | the saved offset is that of the read-ahead; a restart skips lines |

### Further disagreements

The models have these behaviours too. No run is kept for them; changing the
constants of a run as indicated shows most of them.

* Two reloads at once may install their states in the opposite order of their
  reads, so that the older task list stays (`DaemonSerial` with two
  `Reloaders`, `ConfigConverges`); `docs/monitorbeat-三阶段实现计划.md:154`
  promises a hot reload per signal.
* `Daemon.Wait` is said to wait for the remaining task runs
  (`scheduler.go:76`), but no task registers its runs with the wait group.
* After a truncation the harvester stays beyond the end of the file until it has
  grown past the old position (`LinesArrive` excepts it);
  `harvester.go:161` says the reset is there for rotated or truncated files.
* A reader that is blocked on a full line channel is not ended by
  `Harvester.Close` (`harvester.go:152`, against the comment at line 240).
* A saved offset of 0 is taken for no offset, and the reader seeks to the end
  (`harvester.go:85`, against line 58).
* A line that is written in two parts becomes two items (`Rough` writes;
  `InOrder` promises whole lines only for `Tidy` worlds), against `keyword.go:8`.
* Two tasks with the same registry file overwrite each other's entries
  (`Keyword` with two `Tasks`, `OffsetsSaved`); `registry.go:22` says
  it is safe for concurrent harvesters.
* A pending instance may be acknowledged, and when it goes the acknowledgement
  stays for the next incident (`evaluator.go:195`); the design documents of
  2026-07-16 (line 139) and 2026-07-23 (line 239) say otherwise.
* A silence is only stored with an acknowledgement, which is tested first, so
  its expiry is never acted on (`evaluator.go:160`; design of 2026-07-16, line
  192). `RowsRight` states the premise.
* The five minutes between firing notifications (`README.md:287`) hold within
  an incident, not across a recovery, and not when the statement that records
  the notification fails (`NotifiedWhenDue` without
  `Calm`).
* Every start drops the alert tables (`store.go:44`, the model's `Restart`),
  against `README.md:286` and the design of 2026-07-23 (line 88).
* A rule that is deleted during an evaluation gets its rows and its history back,
  and nothing removes them: the evaluator works on rules read before and upserts
  without looking again (`evaluator.go:131`; `RowsRight` without
  `Calm`), against `store.go:135`. Likewise a rule that is updated then
  gets a row for its old expression, against `store.go:114`.
* The spool keeps `fallback_max_backups` + 1 backups: the loop renames the last
  one to the next number instead of removing it (`http.go:349`). `NewestKept`
  states what is kept.
* A failed reopen leaves the file output with a closed handle that is not nil, so
  that every later `Publish` fails until a restart (`file.go:113`).
* A failed rotation of the spool makes `Publish` return an error for an event
  that is in the spool (`http.go:337`).
* A reload gives keyword tasks to the daemon scheduler too (`main.go:148`), which
  then starts them again and again; `keyword.go:16` says they are not scheduled
  by it. The model has it (`KeywordIdents`).
* Pings at the same time use one ICMP identifier, and take each other's replies
  for theirs (`icmp.go:182`); so do the agent and a process whose number is the
  same modulo 2^16 (`icmp.go:81`), as the sender's address is dropped
  (`icmp.go:166`). `Honest` states what holds for a Run on its own.
* An OOM count of zero means that there is no base line yet, so the first kills after
  a start at zero become the base line and are not reported
  (`exceptionbeat.go:312`).
* A host is online when its last heartbeat is exactly the TTL ago (`store.go:95`,
  `>= cutoff`); `2026-07-17-p4-agent-registry-design.md:294` says `< ttl`. The model and
  `AnswersRight` follow the code.
* Idents that are equal, given or made from equal ids, shadow each other: the
  later entry, in the order of the sections, replaces the earlier (`Wanted` in
  `Checker`). An entry with `enabled: false` is built and run all the same.
* dmesg stops at the first pattern a line is new for, so a line that is repeated
  is reported once more under the next pattern that matches it (`DmesgRight`).
* Labels parsed from a script or from metrics replace the event's own
  `hostname`; metricbeat swallows a text that does not parse, and does not look
  at the HTTP status.
* A text in the Prometheus format that does not parse gives no metrics at all; the
  comment at `parser.go:42` says that what is returned "may be partial", but nothing
  has been stored by then. A histogram or summary is reported with the value 0
  (`parser.go:72`).
* A line beyond 64 KiB ends the scan of a script's output without an error
  (`parser.go:78`), and of a page metricbeat parses the first ten megabytes, whatever
  the cut leaves of the last line (`metricbeat.go:98`).
* `max_size_mb` between 0 and 1 becomes a limit of zero bytes (`file.go:72`), with
  which the file is rotated after every event; in `Outputs` it is `FileMax` = 0, which the
  theorems include, and `TypeOK` of `Checker` allows it.
* basereport uses one key for the disk `/` and the disk `/root`
  (`basereport.go:211`): one of the two readings is lost.
* Every Run of metricbeat writes the timeout of a client that all of them share
  (`metricbeat.go:60`).
* A script whose descendants keep its output open holds its Run beyond the
  time limit (`runner.go:21`); `RunEnds` of `Checker` excepts it.

### Bounds

* Daemon: two idents and two periods, so that a reload keeps one job, drops one
  and makes one; one ident is that of a keyword task; two reloads, one after the
  other or (DaemonLostStop) at once, since the hazards are between pairs of
  goroutines; in DaemonSerial a clock 0..2, so that a job is due, not due and,
  with a period of 1 and a delayed tick, late, and no shutdown (`MayStop`),
  which DaemonLive has, with one ident that is configured or not and one reload.
* Keyword: lines of two bytes, a buffer of three, so that buffers end inside a
  line; channels of one; in the world `Rough` two lines and three lives (stop,
  crash, resume), in `Plain` three lines and one life.
* Outputs: the file output before the HTTP output, three events (and heartbeats,
  which are published too), lines of one or two bytes, so that a file ends at its
  limit or beyond it, a channel of one so that it is full, a file and a spool of two
  bytes with one configured backup, so that the spool fills all its backups and
  drops a line, one retry, and two lives, the second on the files of the first.
* Alerts: one rule and one instance, because no statement reads the rows of
  another; a second of two units, so that rounding shows, and a rate limit of
  two seconds; in `Serial` two expressions, durations of 0 and one second, a
  disabled rule, and time for a second notification beyond the rate limit; in
  `Faulty` one configuration, a restart and any failure.
* Agents: two processes of one host, as rows of different hosts do not meet in any
  statement but the clean-up; a TTL of one and a half seconds, so that it does not
  fall on the seconds the store keeps; two requests on their way, so that one
  overtakes the other; time 0..4, which is beyond the TTL of a first heartbeat.
* Ping: two Runs of two packets each, so that a packet has an earlier one, a
  later one and one of another Run with its number; an event channel of one. Two
  other processes ping, one of them with the agent's identifier. Symmetry is not
  used, since `RunEnds` is checked in the same run.
* Exceptions: two Runs, a mount on both lists and one on the black list only, one
  core file name that is written again, three kills, two changes of mounts; the
  checks are enabled in three groups that share no state.
* Checker: six files that have between them every task type of `Collectors` and
  every output type, defaults given and missing, equal idents, ids of one and two
  digits, a fraction of a megabyte and unusable entries; texts of up to three lines,
  one of them too long or a histogram, and logs of up to three, as each line is
  compared with those before it; two status codes and up to two connections of a
  family; two starts and a reload.

### Fairness

Weak fairness of each goroutine's steps: the Go scheduler is preemptive and lets
every runnable goroutine run. DaemonLive assumes in addition strong fairness of
two steps. `LoopDone`: Go's `select` chooses among ready cases at random, so a
cancelled context that is ready at every select is not passed over for ever.
`ReloadAcquire`: a reload retries its compare-and-swap in a tight loop, and the
run loop gives the flag up after every tick. In `Outputs` weak fairness of the
engine's goroutine rests on the client's timeout (`HTTPOutputConfig.Clean` makes
it positive), and strong fairness of `Take` and `EngineStop` on `select` again:
heartbeats do not win for ever. In `Keyword` the engine drains the event channel
only until the process is told to stop. In `Agents` weak fairness of `CleanStale`
(its ticker goes on) and strong fairness of `CleanExec`: the statement does not
fail every time. In `Ping` weak fairness of what a Run does without a packet from
outside (`Advance`) rests on the read deadline of each packet and on the command
being killed at the timeout: that packets keep arriving does not help a Run to
end. In `Checker` it rests on the time limits that the defaults make positive, and
for dmesg and the disks on the operating system; in both the engine drains the
channel. Nothing is assumed of operators, agents, users, signals, log writers,
crashes or of how long a task runs.

## 4. What is proved

Each theorem holds for every value of the constants: every number of goroutines,
tasks, hosts, rules, instances or outputs, all limits, sizes and times, and
behaviours of any length. TLC has checked each inductive invariant on the
instance of the module's run before it was proved.

### DaemonProofs.tla

For any number of reloads, overlapping or not:

* `TypeCorrect`: `[]TypeOK`.
* `FlagExcludes`: `[]FlagExclusion`, by an invariant that ties each holder's
  program counter to the flag of the state it holds.
* `JobsInOnePlace`: `[]JobInOnePlace`. It is not inductive: two reloads could be
  building the same state, or make the same job. `Addresses` says that addresses
  under construction are distinct from each other, from the pending signal and
  from anything installed; `FreshJobs` that a state under construction has made
  no job yet; `PlaceInv` joins them with exclusion.
* `JobsKeepPace`: `[]Pace`. `PaceInv` adds that a tick is not ahead of the clock
  and that every job made has a configured period.

For reloads that do not overlap, `SerialReloadsKeepJobs`,
`SerialReloadsLeaveNothing` and `SerialReloadsConverge` state `JobsMatchTasks`,
`NothingLeftBehind` and `ConfigConverges` under the hypothesis `[]NoOverlap`: at
most one reload goroutine exists at a time. The hypothesis is needed:
`NothingLeftBehind` fails without it (DaemonLostStop), and so does
`ConfigConverges`. It is the case that signals are further apart than a reload
takes, and the corollary `OneReloaderIsSerial` drops it for a single reloader.
`SerialInv` follows a reload step by step: jobs wait in the installed state until
its queue is emptied and in the new one afterwards (`QueueInv`), what was moved,
made and is still to do are together the new tasks (`NewInv`), no stale pointer of
the run loop is an address under construction (`StatesInv`), and a file that was
signalled is to be read, was read by the reload in progress, or is installed
(`ConvergeInv`).

### OutputsProofs.tla

* `OutputsTypeCorrect`: `[]TypeOK`, with the bound on the retries.
* `NothingLostSilently`: `[]NoSilentLoss`. `PubInv` adds that a rotation is in
  progress only for an event that is already written, which is why a rotation
  may return without an error.
* `EveryOutputGetsEveryEvent`: `[]OutputsIndependent`. `RoundInv`: the outputs
  that have had the event and those in `outs` are all of them.
* `FilesBounded`: `[]SizesBounded`: in bytes, no file or backup reaches its limit plus
  the longest line, for all limits and lengths of lines. `FileInv` and `SpoolInv` say
  that the counter of an open file is its size on disk, which reopening and restarting
  must restore, and that a file is at its limit or beyond only while it is about to be
  rotated, so that the last write alone can take it past.
* `NewestLinesKept`: `[]NewestKept`. `LogInv` numbers the lines of the file and
  of its predecessor; `Marks` gives the number of the line at which each file of
  the spool begins, so that consecutive files join without a gap; `ChainInv` says
  that a rename never meets a file in its way except at the oldest backup, and that
  backups are full and contiguous unless a rotation was cut short. What the
  concatenation of all files contains follows by induction on the number of
  files, written as the choice of a least counterexample.

### KeywordProofs.tla

`IInv` describes each task and its harvester: the parts of its life that go
together (`Life`), the read buffer (`Buffer`), the chain of items from the last
one handled over the line channel to the one the reader holds, each beginning
where the one before ends (`Queue`), what the registry has in memory against
what was handled (`Saved`), and that in `Tidy` worlds every item is a whole line
(`Lined`).

* `KeywordTypeCorrect`: `[]TypeOK`, no channel beyond its capacity.
* `ItemsInOrder`: the action property `InOrder`.
* `SavesAreCurrent`: a save that succeeds writes, for the task's own file, an
  offset that is not behind the last item handled, although the reader may still
  be moving the offset while the task closes. For any number of tasks.
* `OffsetsAreSaved`: `[]OffsetsSaved` for one task with its registry file. The
  hypothesis `Tasks = {t0}` is needed: every registry writes the whole file, so a
  second task may put an older entry back (section 3).

### AlertsProofs.tla

* `AlertsTypeCorrect`: `[]TypeOK`, in every world. `TypeInv` adds the types of the
  statements that are queued, that a rule that is there has an expression, and
  what `RowsRight` says of every row at every moment; from this `Plans` derives
  the six plans that `evaluateRule` can make.
* `RowsAreRight`, `AcksAreRespected`, `NotificationsAreDue`: `RowsRight`,
  `AckRespected` and the action property `NotifiedWhenDue`. What these promise
  only for calm worlds rests on `CalmInv`. `TablesInv`: while a request writes a
  rule the evaluator is idle and that rule alone is unsettled. `RulesInv`: the
  rules the evaluator has read are those in the table. `PlanInv` has one case
  (`Stage`) for each point of each plan, with what the rest of the plan relies on: a
  firing notification is due, a recovery follows one. `InstanceInv` relates a
  row to the history variables (the stored times are the true ones rounded down,
  a row is firing exactly when a firing notification was the last, unless its plan is
  in progress; a pending row is not older than the sightings by a second or more)
  and to the copy that the evaluator has read, which an acknowledgement alone can
  outdate.

### AgentsProofs.tla

`IInv` adds to the types that no clock that was read is ahead of the clock
(`ClockInv`) and relates each row to the last heartbeat heard and stored (`RowInv`).

* `AgentsTypeCorrect`: `[]TypeOK`; `AnswersAreRight`: the action property
  `AnswersRight`.
* `AgentsImplementDirectory`: `Promise`, the refinement: the initial states map
  to initial states of `Directory`, and every step to a step of it or a stutter.

### PingProofs.tla

* `PingTypeCorrect`: `[]TypeOK`.
* `PingReportsHonestly`: `[]Honest`. `RunRight` says for each Run which packets
  are behind it (`LoopRight`), that the replies counted are the samples that are
  packets (`HitsRight`), and that a Run that is alone has no reply but those to
  its own packets or to those of a process with its identifier (`AloneRight`). It
  holds for every process number: the processes that share the identifier
  (`Twins`) are in the statement, not in the assumptions.

### ExceptionsProofs.tla

* `ExceptionsTypeCorrect`: `[]TypeOK`.
* `DisksAreReported`: `[]DiskRight`, for overlapping Runs, by `DiskInv`: at each
  point of a Run, what was so throughout is in its event.
* `CoresAreReported`: `[]CoreReported`. `CoreInv`: a file older than the shared
  time of the last check is reported or about to be, and so is every file that a
  Run in progress has examined, whichever Run writes the shared time next.
  `TwiceInv` bounds the reports while Runs do not overlap.
* `KillsAreAccounted`: `[]OOMAccounted`. `OOMInv` ties the last count to the kills
  told and to what the Run in progress has read.

### CheckerProofs.tla — from the file to the events

* `TypeCorrect`: `[]TypeOK`; `RunServes`: `[]Served`; `EventsAreRight`:
  `[]EventsRight`. For every configuration file, text, kernel log and table of
  processes, and any number of starts and reloads.

`IInv` has five parts. `Scalars` are the types and the limits of the outputs.
`CallerInv` ties the caller to the run. `TreeInv`: the tree map holds, of the
tasks made from the file and added so far, the latest of each ident (`Latest`),
and once a run was started those of the whole file loaded last (`Target`).
`RunInv`: a run has a copy of the `Target` of one file loaded since its start, in
the order of the idents as strings; of its tasks k are begun and j are over
(`Progress`), and what was begun, is still to do, was sent and had no event
follows from the copy and these two numbers. `EventInv`: the event was made from
the input, when the context was cancelled already or not yet.

Most of the argument is about what the code's loops compute. Each loop is a
`FoldLeft`; the library's induction theorems are about an operator and cannot be
used, so induction is written as the choice of a least counterexample
(`UpFrom0`), and `FoldExists` and `FoldLoop` turn a fold into the sequence of what
it has accumulated after each place, to which the loop's own invariant is
attached:

* `AmongPicks`, `AllListed` and `BuildAll`: sections, defaults and refused
  entries; what main hands to the scheduler is every usable entry, once, by
  section and then by line. `TargetWanted`: what is left after equal idents have
  replaced each other is `Wanted`, which is stated without a loop.
* `WiredWorkable`: the outputs before the first whose `Init` fails, with limits
  that are positive, or not negative for the size of a file output.
* `ParsedFold`: of the text as far as it is read, a metric or label has the value that
  was printed last, a histogram or summary 0.
* `DmesgFold`: after i lines, each text is reported under its first patterns, as
  many as it occurred times. It rests on the place of a pattern among those that
  match (`Place`): the least pattern not reported yet is the next one
  (`LeastOther`).
* `DiskFold`: a path that can be read has its key, and the path under a key is one
  with that key.
* `ProcessesEventRight`: any of the results of the unstable sort, cut off, is a set of
  the busiest.

### Assumptions

Each is named in its module and evaluated by TLC: `PeriodsAssumption` (periods are
positive), `BoundsAssumption`, `ConfigsAssumption`, `KeywordAssumption` (of
`Daemon`: keyword idents are idents; of `Keyword`: sizes and capacities are
positive and the reader's buffer holds at least a line), `OutputsAssumption`
(limits are natural numbers, sizes and capacity positive), `AlertsAssumption` (ids
are positive, a second has a unit, times are natural numbers), `AgentsAssumption`,
`PingAssumption` and `ExceptionsAssumption` (types and positive bounds; Runs and
other processes are distinct), and of `Checker` `BoundsAssumption`,
`FilesAssumption` (the types that the YAML decoder gives the fields, and that an
entry knows its place in the file) and `WorldAssumption` (a line of the kernel log
is a text, on which the patterns it matches depend; a table of processes is
finite; only a sample of the Prometheus format has a label, and a family is a
histogram or summary throughout or not at all). The disks of basereport are those
of `Paths`, two of which have one key. Apart from `NoOverlap` and `Tasks = {t0}`
the theorems have no other hypotheses.

Of the results `FlagExclusion` and that of `SavesAreCurrent` are not properties of a
run; the others are.

### Only model-checked

All liveness: `ReloadCompletes`, `ShutdownCompletes`, `DueJobsRun`, `LinesArrive`,
`EngineKeepsUp`, `StaleForgotten` and `RunEnds`, since fairness is out of the prover's
reach. `ReloadReachesRuns` and `NoLineSkipped`, which the code violates, have no
theorem either.

## 5. What is not modelled, and the plan

Not modelled: console output, the admin endpoints and the UI (pure I/O); the
stateless proxies of the query API; the text of mails; YAML decoding; the
gb18030 decoder, whose position in the file differs from that of the text; file
times coarser than the clock of the process; writes that succeed in part;
several API requests at once in `Alerts`; round-trip times and packet layout in
`Ping`; the readings of the operating system themselves. In `Exceptions` and `Ping`
the Runs are of one task and one process.

Theorems to add: which of the serial-reload properties survive when reloads overlap
but install in the order of their signals.
