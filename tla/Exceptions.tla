----------------------------- MODULE Exceptions -----------------------------
(***************************************************************************)
(* The exceptionbeat task of monitorbeat (tasks/exceptionbeat): Run calls  *)
(* the enabled collectors one after the other and sends one event.  The    *)
(* collectors of core files and of OOM kills compare what they read with   *)
(* what an earlier Run left in the task (lastCoreCheck, lastOOMKillCount), *)
(* without a lock; a Run that lasts longer than the period overlaps with   *)
(* the next one.                                                           *)
(*                                                                         *)
(* Every reading of the clock, and every core file, has a time of its own. *)
(* Mount points and patterns are reduced to which mount matches a list;    *)
(* items of an event to the mount, the file and its time, or the number.   *)
(*                                                                         *)
(* A definition whose comment begins with "Mutant" is a wrong form of the  *)
(* one after it, against which the properties are tried.                   *)
(***************************************************************************)
EXTENDS Integers, FiniteSets

CONSTANTS
  Runs,             \* calls of Run that may be in progress at the same time
  CheckSets,        \* the sets of collectors that a configuration enables
  Mounts,           \* mounted partitions
  WhiteList,        \* mounts that match DiskROWhiteList
  BlackList,        \* mounts that match DiskROBlackList
  DiskStates,       \* what a partition may be like: [ro, used, free]
  DiskUsagePercent, DiskMinFreeGB,
  Names,            \* names of core files
  MaxTime,          \* bound: readings of the clock
  MaxKills,         \* bound: OOM kills
  MaxChanges        \* bound: changes of a partition

ASSUME ExceptionsAssumption ==
  /\ WhiteList \subseteq Mounts /\ BlackList \subseteq Mounts
  /\ \E d \in DiskStates : ~d.ro
  /\ \A d \in DiskStates : d.ro \in BOOLEAN /\ d.used \in Int /\ d.free \in Int
  /\ DiskUsagePercent \in Nat /\ DiskMinFreeGB \in Nat
  /\ MaxTime \in Nat \ {0} /\ MaxKills \in Nat \ {0} /\ MaxChanges \in Nat

None == 0   \* the zero time.Time, and the time of a file that does not exist
Torn == -1  \* a time.Time of which one word is written
Late == MaxTime + 1  \* a time after every file

NoEvent == [ro |-> {}, space |-> {}, core |-> {}, oom |-> 0]

VARIABLES
  checks,           \* the collectors that are enabled
  clock, disk, changes, files, kills, \* the host
  lastCoreCheck, lastOOMKillCount,    \* the state of the task
  stopped,          \* its context is cancelled
  pc, event,        \* per Run: where it is, the items collected so far
  now, todo, first, cur,
  \* history variables: two Runs have overlapped; per Run the states of the disks
  \* since its start and the collectors that logged an error; the base line of
  \* each collector; how often a core file was reported, how many kills
  overlapped, during, failed, coreBase, oomBase, coreTold, oomTold

hostVars == <<clock, disk, changes, files, kills>>
taskVars == <<lastCoreCheck, lastOOMKillCount, stopped>>
localVars == <<now, todo, first, cur>>
histVars == <<overlapped, during, failed, coreBase, oomBase, coreTold, oomTold>>
vars == <<checks, hostVars, taskVars, pc, event, localVars, histVars>>

Times == 1 .. MaxTime

Init ==
  /\ checks \in CheckSets
  /\ clock = 1
  /\ disk = [m \in Mounts |-> CHOOSE d \in DiskStates : ~d.ro] /\ changes = 0
  /\ files = [f \in Names |-> None]
  /\ kills \in IF "oom" \in checks THEN 0 .. 1 ELSE {0}
  /\ lastCoreCheck = None /\ lastOOMKillCount = 0 /\ stopped = FALSE
  /\ pc = [r \in Runs |-> "idle"] /\ event = [r \in Runs |-> NoEvent]
  /\ now = [r \in Runs |-> None] /\ todo = [r \in Runs |-> {}]
  /\ first = [r \in Runs |-> FALSE] /\ cur = [r \in Runs |-> 0]
  /\ overlapped = FALSE
  /\ during = [r \in Runs |-> {}] /\ failed = [r \in Runs |-> {}]
  /\ coreBase = None /\ oomBase = 0
  /\ coreTold = [c \in Names \X Times |-> 0] /\ oomTold = 0

\* New: a reload builds the task anew, and a Run of the old one has no effect on it.
New ==
  /\ stopped
  /\ \A r \in Runs : pc[r] = "idle"
  /\ lastCoreCheck' = None /\ lastOOMKillCount' = 0 /\ stopped' = FALSE
  /\ overlapped' = FALSE /\ coreBase' = None /\ oomBase' = 0
  /\ coreTold' = [c \in Names \X Times |-> 0] /\ oomTold' = 0
  /\ UNCHANGED <<checks, hostVars, pc, event, localVars, during, failed>>

(***************************************************************************)
(* Run.                                                                    *)
(***************************************************************************)

Order == <<"ro", "space", "core", "oom">>

\* Where Run goes after its first i collectors.
Stage(i) ==
  LET left == {j \in i + 1 .. 4 : Order[j] \in checks}
  IN  IF left = {} THEN "emit" ELSE Order[CHOOSE j \in left : \A k \in left : j <= k]

\* The readings of the clock that are left, without the ones of Runs that have started.
TimeLeft == MaxTime - clock - Cardinality({r \in Runs : pc[r] \in {"ro", "space", "core"}})

Goto(r, place) == pc' = [pc EXCEPT ![r] = place]

Start(r) ==
  /\ pc[r] = "idle"
  /\ ~stopped
  /\ TimeLeft > 0
  /\ Goto(r, Stage(0))
  /\ overlapped' = (overlapped \/ \E x \in Runs : pc[x] # "idle")
  /\ during' = [during EXCEPT ![r] = {disk}]
  /\ UNCHANGED <<checks, hostVars, taskVars, event, localVars,
                 failed, coreBase, oomBase, coreTold, oomTold>>

\* A collector returns nil.
Nothing(r, i) ==
  /\ Goto(r, Stage(i))
  /\ UNCHANGED event

\* A collector cannot read what it looks at, and logs it.
ReadError(r) ==
  \E i \in 1 .. 4 :
    /\ pc[r] = IF Order[i] = "core" THEN "list" ELSE Order[i]
    /\ Nothing(r, i)
    /\ failed' = [failed EXCEPT ![r] = @ \cup {Order[i]}]
    /\ UNCHANGED <<checks, hostVars, taskVars, localVars,
                   overlapped, during, coreBase, oomBase, coreTold, oomTold>>

\* The event is sent, or the context is cancelled.
Emit(r) ==
  /\ pc[r] = "emit"
  /\ \/ /\ coreTold' = [c \in Names \X Times |->
                          coreTold[c] + (IF c \in event[r].core THEN 1 ELSE 0)]
        /\ oomTold' = oomTold + event[r].oom
     \/ stopped /\ UNCHANGED <<coreTold, oomTold>>
  /\ Goto(r, "idle")
  /\ event' = [event EXCEPT ![r] = NoEvent]
  /\ now' = [now EXCEPT ![r] = None] /\ cur' = [cur EXCEPT ![r] = 0]
  /\ first' = [first EXCEPT ![r] = FALSE]
  /\ during' = [during EXCEPT ![r] = {}] /\ failed' = [failed EXCEPT ![r] = {}]
  /\ UNCHANGED <<checks, hostVars, taskVars, todo, overlapped, coreBase, oomBase>>

(***************************************************************************)
(* Disks.                                                                  *)
(***************************************************************************)

\* Mutant: the black list is looked at first.
BlackFirst(m) == m \notin BlackList

\* The white list wins over the black list.
Listed(m) == m \in WhiteList \/ m \notin BlackList

isReadOnly(m) == disk[m].ro

collectDiskRO(r) ==
  /\ pc[r] = "ro"
  /\ event' = [event EXCEPT ![r].ro = {m \in Mounts : isReadOnly(m) /\ Listed(m)}]
  /\ Goto(r, Stage(1))
  /\ UNCHANGED <<checks, hostVars, taskVars, localVars, histVars>>

Alert(m) == disk[m].used > DiskUsagePercent \/ disk[m].free < DiskMinFreeGB

\* The usage of some of the partitions may not be known; these are left out.
collectDiskSpace(r) ==
  /\ pc[r] = "space"
  /\ \E known \in SUBSET Mounts :
       /\ event' = [event EXCEPT ![r].space = {m \in known : Alert(m)}]
       /\ failed' = [failed EXCEPT ![r] = IF known = Mounts THEN @ ELSE @ \cup {"space"}]
  /\ Goto(r, Stage(2))
  /\ UNCHANGED <<checks, hostVars, taskVars, localVars,
                 overlapped, during, coreBase, oomBase, coreTold, oomTold>>

(***************************************************************************)
(* Core files.                                                             *)
(***************************************************************************)

\* collectCorefile reads the clock; resolveCoreDir finds no directory, or one.
CoreNow(r) ==
  /\ pc[r] = "core"
  /\ clock' = clock + 1
  /\ now' = [now EXCEPT ![r] = clock]
  /\ Goto(r, "list") \/ Goto(r, Stage(3))
  /\ UNCHANGED <<checks, disk, changes, files, kills, taskVars, event, todo, first, cur, histVars>>

ReadDir(r) ==
  /\ pc[r] = "list"
  /\ todo' = [todo EXCEPT ![r] = {f \in Names : files[f] # None}]
  /\ Goto(r, "examine")
  /\ UNCHANGED <<checks, hostVars, taskVars, event, now, first, cur, histVars>>

\* What a comparison may take lastCoreCheck for.  A half-written one is not zero: it is a
\* time before every file when its first word is there, any time when the second is.
Apparent == IF lastCoreCheck = Torn THEN {Torn, Late} ELSE {lastCoreCheck}

\* One turn of the loop: the time of the file, which may be gone, is read now, and
\* so is lastCoreCheck.
Examine(r, f) ==
  /\ pc[r] = "examine"
  /\ f \in todo[r]
  /\ todo' = [todo EXCEPT ![r] = @ \ {f}]
  /\ first' = [first EXCEPT ![r] = @ \/ lastCoreCheck \in {None, Torn}]
  /\ \E last \in Apparent : event' = [event EXCEPT ![r].core =
       IF last = None \/ files[f] = None \/ files[f] < last
       THEN @ ELSE @ \cup {<<f, files[f]>>}]
  /\ UNCHANGED <<checks, hostVars, taskVars, pc, now, cur, histVars>>

\* Mutant: the time of the check is the time at its end.
CheckedAtEnd(r) == clock

\* The time of the check is the time at its beginning.
Checked(r) == now[r]

\* Both words of lastCoreCheck are written.
CoreSet(r) ==
  /\ lastCoreCheck' = Checked(r)
  /\ coreBase' = IF (first[r] \/ lastCoreCheck \in {None, Torn}) /\ Checked(r) > coreBase
                 THEN Checked(r) ELSE coreBase
  /\ Goto(r, Stage(3))

\* The end of the loop.  A first check may be seen half written; later the word that
\* comparisons look at is overwritten by another time, in one piece.
Record(r) ==
  /\ pc[r] = "examine"
  /\ todo[r] = {}
  /\ \/ CoreSet(r)
     \/ lastCoreCheck = None /\ lastCoreCheck' = Torn /\ Goto(r, "torn") /\ UNCHANGED coreBase
  /\ UNCHANGED <<checks, hostVars, lastOOMKillCount, stopped, event, localVars,
                 overlapped, during, failed, oomBase, coreTold, oomTold>>

RecordRest(r) ==
  /\ pc[r] = "torn"
  /\ CoreSet(r)
  /\ UNCHANGED <<checks, hostVars, lastOOMKillCount, stopped, event, localVars,
                 overlapped, during, failed, oomBase, coreTold, oomTold>>

(***************************************************************************)
(* OOM kills.                                                              *)
(***************************************************************************)

\* The counter of /proc/vmstat is read.
ReadVmstat(r) ==
  /\ pc[r] = "oom"
  /\ cur' = [cur EXCEPT ![r] = kills]
  /\ Goto(r, "oomcheck")
  /\ UNCHANGED <<checks, hostVars, taskVars, event, now, todo, first, histVars>>

\* lastOOMKillCount is looked at: zero stands for no base line.
CheckOOM(r) ==
  /\ pc[r] = "oomcheck"
  /\ CASE lastOOMKillCount = 0 -> Goto(r, "oombase")
       [] lastOOMKillCount # 0 /\ cur[r] <= lastOOMKillCount -> Goto(r, Stage(4))
       [] OTHER -> Goto(r, "oomnew")
  /\ UNCHANGED <<checks, hostVars, taskVars, event, localVars, histVars>>

BaseOOM(r) ==
  /\ pc[r] = "oombase"
  /\ lastOOMKillCount' = cur[r]
  /\ oomBase' = cur[r]
  /\ Goto(r, Stage(4))
  /\ UNCHANGED <<checks, hostVars, lastCoreCheck, stopped, event, localVars,
                 overlapped, during, failed, coreBase, coreTold, oomTold>>

\* Mutant: the count is kept.
OOMKept(r) == lastOOMKillCount

\* Mutant: the count is added to the last one.
OOMAdded(r) == lastOOMKillCount + cur[r]

\* The count that the next Run compares with.
OOMSeen(r) == cur[r]

\* lastOOMKillCount may be another one than CheckOOM has seen.
NewOOM(r) ==
  /\ pc[r] = "oomnew"
  /\ event' = [event EXCEPT ![r].oom = cur[r] - lastOOMKillCount]
  /\ lastOOMKillCount' = OOMSeen(r)
  /\ Goto(r, Stage(4))
  /\ UNCHANGED <<checks, hostVars, lastCoreCheck, stopped, localVars, histVars>>

(***************************************************************************)
(* The host.                                                               *)
(***************************************************************************)

\* A process dumps core into a file, new or not.
Dump(f) ==
  /\ "core" \in checks
  /\ TimeLeft > 0
  /\ clock' = clock + 1
  /\ files' = [files EXCEPT ![f] = clock]
  /\ UNCHANGED <<checks, disk, changes, kills, taskVars, pc, event, localVars, histVars>>

Remove(f) ==
  /\ files[f] # None
  /\ files' = [files EXCEPT ![f] = None]
  /\ UNCHANGED <<checks, clock, disk, changes, kills, taskVars, pc, event, localVars, histVars>>

Kill ==
  /\ "oom" \in checks
  /\ kills < MaxKills
  /\ kills' = kills + 1
  /\ UNCHANGED <<checks, clock, disk, changes, files, taskVars, pc, event, localVars, histVars>>

Change(m, d) ==
  /\ checks \cap {"ro", "space"} # {}
  /\ changes < MaxChanges
  /\ changes' = changes + 1
  /\ disk' = [disk EXCEPT ![m] = d]
  /\ during' = [r \in Runs |-> IF pc[r] = "idle" THEN {} ELSE during[r] \cup {disk'}]
  /\ UNCHANGED <<checks, clock, files, kills, taskVars, pc, event, localVars,
                 overlapped, failed, coreBase, oomBase, coreTold, oomTold>>

\* The context of the scheduler is cancelled.
Stop ==
  /\ ~stopped
  /\ stopped' = TRUE
  /\ UNCHANGED <<checks, hostVars, lastCoreCheck, lastOOMKillCount, pc, event, localVars, histVars>>

Step(r) ==
  \/ Start(r) \/ ReadError(r) \/ Emit(r)
  \/ collectDiskRO(r) \/ collectDiskSpace(r)
  \/ CoreNow(r) \/ ReadDir(r) \/ (\E f \in Names : Examine(r, f)) \/ Record(r) \/ RecordRest(r)
  \/ ReadVmstat(r) \/ CheckOOM(r) \/ BaseOOM(r) \/ NewOOM(r)

Host ==
  \/ \E f \in Names : Dump(f) \/ Remove(f)
  \/ \E m \in Mounts, d \in DiskStates : Change(m, d)
  \/ Kill \/ Stop

Next == (\E r \in Runs : Step(r)) \/ New \/ Host

Spec == Init /\ [][Next]_vars

(***************************************************************************)
(* Properties.                                                             *)
(***************************************************************************)

Cores == Names \X Times

\* Times and counts stay in their ranges; an event never takes back kills unless
\* Runs have overlapped.
TypeOK ==
  /\ checks \in CheckSets
  /\ clock \in Times /\ disk \in [Mounts -> DiskStates] /\ changes \in 0 .. MaxChanges
  /\ files \in [Names -> 0 .. MaxTime] /\ kills \in 0 .. MaxKills
  /\ lastCoreCheck \in {Torn, None} \cup Times /\ lastOOMKillCount \in 0 .. MaxKills
  /\ pc \in [Runs -> {"idle", "ro", "space", "core", "list", "examine", "torn",
                      "oom", "oomcheck", "oombase", "oomnew", "emit"}]
  /\ \A r \in Runs :
       /\ event[r].ro \subseteq Mounts /\ event[r].space \subseteq Mounts
       /\ event[r].core \subseteq Cores
       /\ event[r].oom \in IF overlapped THEN -MaxKills .. MaxKills ELSE 0 .. MaxKills
       /\ now[r] \in 0 .. MaxTime /\ todo[r] \subseteq Names /\ cur[r] \in 0 .. MaxKills

\* An event names the mounts that were read-only, and the ones that were full, at
\* some moment of the Run; it leaves out none that was so all the time, unless it
\* could not be read, and a mount on both lists is reported.
DiskRight ==
  \A r \in Runs : pc[r] = "emit" => \A m \in Mounts :
    LET full(d) == d[m].used > DiskUsagePercent \/ d[m].free < DiskMinFreeGB
        due == m \in WhiteList \/ m \notin BlackList
    IN  /\ m \in event[r].ro => due /\ \E d \in during[r] : d[m].ro
        /\ m \in event[r].space => \E d \in during[r] : full(d)
        /\ "ro" \in checks \ failed[r] /\ due /\ (\A d \in during[r] : d[m].ro) => m \in event[r].ro
        /\ "space" \in checks \ failed[r] /\ (\A d \in during[r] : full(d)) => m \in event[r].space

\* A core file written after the base line, and before the check that is the last one
\* now, is in an event: no check passes it over, even when Runs overlap and write
\* lastCoreCheck in any order.  The base line is the latest of the checks that came
\* across no earlier time, or one that was half written.
\* Without overlapping Runs the same core is reported at most twice (the second time
\* because the clock is read before the directory).
CoreReported ==
  /\ \A f \in Names :
       ~stopped /\ coreBase # None /\ coreBase <= files[f] /\ files[f] < lastCoreCheck =>
         \/ coreTold[<<f, files[f]>>] > 0
         \/ \E r \in Runs : <<f, files[f]>> \in event[r].core
  /\ \A c \in Cores : ~overlapped => coreTold[c] <= 2

\* Without overlapping Runs every kill after the base line, the first count that is
\* not zero, is reported once: what has been reported, and what the event of a Run
\* is about to, make up the difference to the last count.
OOMAccounted ==
  ~overlapped /\ ~stopped =>
    \/ \E r \in Runs : oomBase + oomTold + event[r].oom = lastOOMKillCount
    \/ lastOOMKillCount = 0 /\ oomTold = 0
=============================================================================
