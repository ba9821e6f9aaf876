-------------------------- MODULE ExceptionsProofs --------------------------
(***************************************************************************)
(* Theorems about Exceptions, for any number of overlapping Runs, of       *)
(* mounts, core files and OOM kills.                                       *)
(***************************************************************************)
EXTENDS Exceptions, FiniteSetTheorems, TLAPS

USE ExceptionsAssumption DEF None, Torn

Pcs == {"idle", "ro", "space", "core", "list", "examine", "torn",
        "oom", "oomcheck", "oombase", "oomnew", "emit"}
Kinds == {"ro", "space", "core", "oom"}
Disks == [Mounts -> DiskStates]
Events == [ro : SUBSET Mounts, space : SUBSET Mounts, core : SUBSET Cores, oom : -MaxKills .. MaxKills]

\* Runs that are yet to read the clock.
Early == {r \in Runs : pc[r] \in {"ro", "space", "core"}}

\* The types, those of the history variables too; the clock is left a reading for every
\* Run that has yet to make it.
TypeInv ==
  /\ checks \in CheckSets
  /\ clock \in Times /\ disk \in Disks /\ changes \in 0 .. MaxChanges
  /\ files \in [Names -> 0 .. MaxTime] /\ kills \in 0 .. MaxKills
  /\ lastCoreCheck \in {Torn, None} \cup Times /\ lastOOMKillCount \in 0 .. MaxKills
  /\ stopped \in BOOLEAN
  /\ pc \in [Runs -> Pcs] /\ event \in [Runs -> Events]
  /\ now \in [Runs -> 0 .. MaxTime] /\ todo \in [Runs -> SUBSET Names]
  /\ first \in [Runs -> BOOLEAN] /\ cur \in [Runs -> 0 .. MaxKills]
  /\ overlapped \in BOOLEAN
  /\ during \in [Runs -> SUBSET Disks] /\ failed \in [Runs -> SUBSET Kinds]
  /\ coreBase \in 0 .. MaxTime /\ oomBase \in 0 .. MaxKills
  /\ coreTold \in [Cores -> Nat] /\ oomTold \in Int
  /\ IsFiniteSet(Early) /\ clock + Cardinality(Early) <= MaxTime

\* A Run fills the fields of its event in the order of the collectors.
EventInv ==
  \A r \in Runs :
    /\ pc[r] = "idle" => event[r] = NoEvent
    /\ pc[r] \in {"ro", "space", "core", "list"} => event[r].core = {}
    /\ pc[r] # "emit" => event[r].oom = 0

Due(m) == m \in WhiteList \/ m \notin BlackList
Full(d, m) == d[m].used > DiskUsagePercent \/ d[m].free < DiskMinFreeGB

\* What a Run knows of the disks, once its collector has looked at them.
DiskInv ==
  \A r \in Runs : pc[r] # "idle" =>
    /\ disk \in during[r]
    /\ \A m \in event[r].ro : Due(m) /\ \E d \in during[r] : d[m].ro
    /\ \A m \in event[r].space : \E d \in during[r] : Full(d, m)
    /\ pc[r] # "ro" => \A m \in Mounts :
         "ro" \in checks \ failed[r] /\ Due(m) /\ (\A d \in during[r] : d[m].ro) => m \in event[r].ro
    /\ pc[r] \notin {"ro", "space"} => \A m \in Mounts :
         "space" \in checks \ failed[r] /\ (\A d \in during[r] : Full(d, m)) => m \in event[r].space

\* As long as none has overlapped with another, one Run is in progress.
AloneInv == ~overlapped => \A r, x \in Runs : pc[r] # "idle" /\ pc[x] # "idle" => r = x

\* Core <<f, t>> was reported, or is about to be.
Told(c) == coreTold[c] > 0 \/ \E r \in Runs : c \in event[r].core

Examining(r) == pc[r] \in {"examine", "torn"}

\* A time that was recorded is past, and there is a base line once one is recorded.  A
\* file the Run has examined and that is older than the Run has been reported, unless
\* it is from before the base line, which the Run may be about to move.
CoreInv ==
  /\ lastCoreCheck < clock /\ \A r \in Runs : now[r] < clock
  /\ \A f \in Names : files[f] < clock
  /\ lastCoreCheck \in Times => coreBase # None
  /\ \A r \in Runs : /\ pc[r] = "torn" => todo[r] = {}
                     /\ pc[r] = "list" \/ Examining(r) => now[r] # None
  /\ ~stopped => \A f \in Names : files[f] # None =>
       /\ coreBase <= files[f] /\ files[f] < lastCoreCheck => Told(<<f, files[f]>>)
       /\ \A r \in Runs : Examining(r) /\ f \notin todo[r] /\ files[f] < now[r] =>
            first[r] \/ files[f] < coreBase \/ Told(<<f, files[f]>>)

\* Reports of a core, while Runs do not overlap: one that was told is older than the
\* Run in progress, and one told twice is older than the last check.
TwiceInv ==
  /\ \A c \in Cores : coreTold[c] > 0 \/ (\E r \in Runs : c \in event[r].core) => c[2] < clock
  /\ ~overlapped =>
       /\ \A r \in Runs : event[r].core # {} /\ ~Examining(r) => lastCoreCheck = now[r]
       /\ \A c \in Cores :
            /\ coreTold[c] <= 2
            /\ coreTold[c] = 2 => c[2] < lastCoreCheck /\ \A r \in Runs : c \notin event[r].core
            /\ coreTold[c] > 0 =>
                 \A r \in Runs : pc[r] = "list" \/ Examining(r) \/ event[r].core # {} => c[2] < now[r]

\* The count of the collector of OOM kills, while Runs do not overlap.
OOMInv ==
  /\ Runs = {} => lastOOMKillCount = 0 /\ oomTold = 0
  /\ ~overlapped =>
       /\ oomTold >= 0
       /\ \A r \in Runs : /\ event[r].oom >= 0
                          /\ pc[r] = "oombase" => lastOOMKillCount = 0
                          /\ pc[r] = "oomnew" => cur[r] > lastOOMKillCount
       /\ ~stopped => /\ \A r \in Runs : pc[r] # "idle" =>
                           oomBase + oomTold + event[r].oom = lastOOMKillCount
                      /\ (\A r \in Runs : pc[r] = "idle") => oomBase + oomTold = lastOOMKillCount

IInv == TypeInv /\ EventInv /\ DiskInv /\ AloneInv /\ CoreInv /\ TwiceInv /\ OOMInv

(***************************************************************************)
(* The operators of the model.                                             *)
(***************************************************************************)

\* The collectors left are taken in their order.
LEMMA StageFacts ==
  /\ Stage(0) \in {"ro", "space", "core", "oom", "emit"} /\ ("ro" \in checks => Stage(0) = "ro")
  /\ "space" \in checks => Stage(0) \in {"ro", "space"}
  /\ Stage(1) \in {"space", "core", "oom", "emit"} /\ ("space" \in checks => Stage(1) = "space")
  /\ Stage(2) \in {"core", "oom", "emit"}
  /\ Stage(3) \in {"oom", "emit"}
  /\ Stage(4) = "emit"
<1>1. Order[1] = "ro" /\ Order[2] = "space" /\ Order[3] = "core" /\ Order[4] = "oom"
  BY DEF Order
<1>2. ASSUME NEW S \in SUBSET (1 .. 4), S # {} PROVE \E j \in S : \A k \in S : j <= k
  <2>1. \A j \in S : j = 1 \/ j = 2 \/ j = 3 \/ j = 4
    OBVIOUS
  <2>2. CASE 1 \in S
    BY <2>1, <2>2
  <2>3. CASE 1 \notin S /\ 2 \in S
    BY <2>1, <2>3
  <2>4. CASE 1 \notin S /\ 2 \notin S /\ 3 \in S
    BY <2>1, <2>4
  <2>5. CASE 1 \notin S /\ 2 \notin S /\ 3 \notin S
    <3>1. \A j \in S : j = 4
      BY <2>1, <2>5
    <3>2. PICK j : j \in S
      BY <1>2
    <3>3. \A k \in S : j <= k
      BY <3>1, <3>2
    <3> QED
      BY <3>2, <3>3
  <2> QED
    BY <2>2, <2>3, <2>4, <2>5
<1> DEFINE Left(i) == {j \in i + 1 .. 4 : Order[j] \in checks}
<1>3. ASSUME NEW i \in 0 .. 4
      PROVE  \/ Left(i) = {} /\ Stage(i) = "emit"
             \/ \E m \in Left(i) : (\A k \in Left(i) : m <= k) /\ Stage(i) = Order[m]
  <2>1. Left(i) \in SUBSET (1 .. 4)
    OBVIOUS
  <2>2. CASE Left(i) = {}
    BY <2>2 DEF Stage
  <2>3. CASE Left(i) # {}
    <3>1. \E j \in Left(i) : \A k \in Left(i) : j <= k
      BY <1>2, <2>1, <2>3
    <3>2. Stage(i) = Order[CHOOSE j \in Left(i) : \A k \in Left(i) : j <= k]
      BY <2>3 DEF Stage
    <3> QED
      BY <3>1, <3>2
  <2> QED
    BY <2>2, <2>3
<1>4. /\ Stage(0) \in {"ro", "space", "core", "oom", "emit"} /\ ("ro" \in checks => Stage(0) = "ro")
      /\ "space" \in checks => Stage(0) \in {"ro", "space"}
  <2>1. \/ Left(0) = {} /\ Stage(0) = "emit"
        \/ \E m \in Left(0) : (\A k \in Left(0) : m <= k) /\ Stage(0) = Order[m]
    BY <1>3
  <2>2. \A m \in Left(0) : m \in {1, 2, 3, 4}
    OBVIOUS
  <2>3. ("ro" \in checks => 1 \in Left(0)) /\ ("space" \in checks => 2 \in Left(0))
    BY <1>1
  <2> HIDE DEF Left
  <2> QED
    BY <1>1, <2>1, <2>2, <2>3
<1>5. Stage(1) \in {"space", "core", "oom", "emit"} /\ ("space" \in checks => Stage(1) = "space")
  <2>1. \/ Left(1) = {} /\ Stage(1) = "emit"
        \/ \E m \in Left(1) : (\A k \in Left(1) : m <= k) /\ Stage(1) = Order[m]
    BY <1>3
  <2>2. \A m \in Left(1) : m \in {2, 3, 4}
    OBVIOUS
  <2>3. "space" \in checks => 2 \in Left(1)
    BY <1>1
  <2> HIDE DEF Left
  <2> QED
    BY <1>1, <2>1, <2>2, <2>3
<1>6. Stage(2) \in {"core", "oom", "emit"} /\ Stage(3) \in {"oom", "emit"} /\ Stage(4) = "emit"
  <2>1. \A i \in {2, 3, 4} : \/ Stage(i) = "emit"
                             \/ \E m \in Left(i) : Stage(i) = Order[m]
    BY <1>3
  <2>2. (\A m \in Left(2) : m \in {3, 4}) /\ (\A m \in Left(3) : m = 4) /\ Left(4) = {}
    OBVIOUS
  <2> HIDE DEF Left
  <2> QED
    BY <1>1, <2>1, <2>2
<1> QED
  BY <1>4, <1>5, <1>6

\* Setting one field of an event leaves the other fields and events alone.
LEMMA EventFields ==
  ASSUME event \in [Runs -> Events], NEW r \in Runs
  PROVE  /\ \A v \in SUBSET Mounts :
              LET e == [event EXCEPT ![r].ro = v]
              IN  /\ e \in [Runs -> Events] /\ \A x \in Runs : x # r => e[x] = event[x]
                  /\ e[r].ro = v /\ e[r].space = event[r].space /\ e[r].core = event[r].core
                  /\ e[r].oom = event[r].oom
         /\ \A v \in SUBSET Mounts :
              LET e == [event EXCEPT ![r].space = v]
              IN  /\ e \in [Runs -> Events] /\ \A x \in Runs : x # r => e[x] = event[x]
                  /\ e[r].ro = event[r].ro /\ e[r].space = v /\ e[r].core = event[r].core
                  /\ e[r].oom = event[r].oom
         /\ \A v \in SUBSET Cores :
              LET e == [event EXCEPT ![r].core = v]
              IN  /\ e \in [Runs -> Events] /\ \A x \in Runs : x # r => e[x] = event[x]
                  /\ e[r].ro = event[r].ro /\ e[r].space = event[r].space /\ e[r].core = v
                  /\ e[r].oom = event[r].oom
         /\ \A v \in -MaxKills .. MaxKills :
              LET e == [event EXCEPT ![r].oom = v]
              IN  /\ e \in [Runs -> Events] /\ \A x \in Runs : x # r => e[x] = event[x]
                  /\ e[r].ro = event[r].ro /\ e[r].space = event[r].space /\ e[r].core = event[r].core
                  /\ e[r].oom = v
  BY DEF Events

LEMMA NoEventFields ==
  /\ NoEvent \in Events
  /\ NoEvent.ro = {} /\ NoEvent.space = {} /\ NoEvent.core = {} /\ NoEvent.oom = 0
<1>1. 0 \in -MaxKills .. MaxKills
  OBVIOUS
<1> QED
  BY <1>1 DEF NoEvent, Events

\* A step of a Run leaves the other Runs alone.
LEMMA OthersKeep ==
  ASSUME TypeInv, NEW r \in Runs, Step(r), NEW x \in Runs, x # r
  PROVE  /\ pc'[x] = pc[x] /\ event'[x] = event[x] /\ now'[x] = now[x] /\ todo'[x] = todo[x]
         /\ first'[x] = first[x] /\ cur'[x] = cur[x] /\ during'[x] = during[x] /\ failed'[x] = failed[x]
<1> USE DEF hostVars, taskVars, localVars, histVars, Goto
<1>0. pc \in [Runs -> Pcs] /\ event \in [Runs -> Events] /\ now \in [Runs -> 0 .. MaxTime]
      /\ todo \in [Runs -> SUBSET Names] /\ first \in [Runs -> BOOLEAN] /\ cur \in [Runs -> 0 .. MaxKills]
      /\ during \in [Runs -> SUBSET Disks] /\ failed \in [Runs -> SUBSET Kinds]
  BY DEF TypeInv
<1>1. CASE Start(r)
  BY <1>0, <1>1 DEF Start
<1>2. CASE ReadError(r)
  BY <1>0, <1>2 DEF ReadError, Nothing
<1>3. CASE Emit(r)
  BY <1>0, <1>3 DEF Emit
<1>4. CASE collectDiskRO(r) \/ collectDiskSpace(r)
  BY <1>0, <1>4 DEF collectDiskRO, collectDiskSpace
<1>5. CASE CoreNow(r) \/ ReadDir(r) \/ (\E f \in Names : Examine(r, f))
  BY <1>0, <1>5 DEF CoreNow, ReadDir, Examine
<1>6. CASE Record(r) \/ RecordRest(r)
  BY <1>0, <1>6 DEF Record, RecordRest, CoreSet
<1>7. CASE ReadVmstat(r) \/ CheckOOM(r) \/ BaseOOM(r) \/ NewOOM(r)
  BY <1>0, <1>7 DEF ReadVmstat, CheckOOM, BaseOOM, NewOOM
<1> QED
  BY <1>1, <1>2, <1>3, <1>4, <1>5, <1>6, <1>7 DEF Step

\* What the host does, and New, leave every Run alone.
LEMMA HostKeeps ==
  ASSUME New \/ Host
  PROVE  UNCHANGED <<checks, pc, event, localVars, failed>>
  BY DEF New, Host, Dump, Remove, Change, Kill, Stop, hostVars, taskVars, localVars, histVars

\* Where a step of a Run leads.
LEMMA PcStep ==
  ASSUME TypeInv, NEW r \in Runs, Step(r)
  PROVE  /\ pc'[r] \in Pcs /\ pc' \in [Runs -> Pcs]
         /\ Start(r) => pc[r] = "idle" /\ pc'[r] = Stage(0)
         /\ ~Start(r) => pc[r] # "idle"
         /\ pc[r] = "ro" => pc'[r] = Stage(1)
         /\ pc[r] = "space" => pc'[r] = Stage(2)
         /\ pc[r] = "core" => pc'[r] \in {"list", Stage(3)}
         /\ pc[r] = "list" => pc'[r] \in {"examine", Stage(3)}
         /\ pc[r] = "examine" => pc'[r] \in {"examine", "torn", Stage(3)}
         /\ pc[r] = "torn" => pc'[r] = Stage(3)
         /\ pc[r] \in {"oom", "oomcheck", "oombase", "oomnew"} =>
              pc'[r] \in {"oomcheck", "oombase", "oomnew", "emit"}
         /\ pc[r] = "emit" => pc'[r] = "idle"
<1> USE DEF hostVars, taskVars, localVars, histVars, Goto
<1>0. pc \in [Runs -> Pcs]
  BY DEF TypeInv
<1>a. Stage(4) = "emit" /\ \A i \in 0 .. 4 : Stage(i) \in Pcs
  <2>1. \A i \in 0 .. 4 : i = 0 \/ i = 1 \/ i = 2 \/ i = 3 \/ i = 4
    OBVIOUS
  <2> QED
    BY <2>1, StageFacts DEF Pcs
<1>1. CASE Start(r)
  BY <1>0, <1>1, <1>a DEF Start
<1>2. CASE ReadError(r)
  <2>1. PICK i \in 1 .. 4 : (pc[r] = IF Order[i] = "core" THEN "list" ELSE Order[i]) /\ Goto(r, Stage(i))
    BY <1>2 DEF ReadError, Nothing
  <2>2. Order[1] = "ro" /\ Order[2] = "space" /\ Order[3] = "core" /\ Order[4] = "oom"
    BY DEF Order
  <2>3. i = 1 \/ i = 2 \/ i = 3 \/ i = 4
    OBVIOUS
  <2>4. ~Start(r)
    BY <2>1, <2>2, <2>3 DEF Start
  <2> QED
    BY <1>0, <1>a, <2>1, <2>2, <2>3, <2>4
<1>3. CASE Emit(r)
  BY <1>0, <1>3 DEF Emit, Start, Pcs
<1>4. CASE collectDiskRO(r) \/ collectDiskSpace(r)
  BY <1>0, <1>4, <1>a DEF collectDiskRO, collectDiskSpace, Start
<1>5. CASE CoreNow(r) \/ ReadDir(r) \/ (\E f \in Names : Examine(r, f))
  BY <1>0, <1>5, <1>a DEF CoreNow, ReadDir, Examine, Start, Pcs
<1>6. CASE Record(r) \/ RecordRest(r)
  BY <1>0, <1>6, <1>a DEF Record, RecordRest, CoreSet, Start, Pcs
<1>7. CASE ReadVmstat(r) \/ CheckOOM(r) \/ BaseOOM(r) \/ NewOOM(r)
  BY <1>0, <1>7, <1>a DEF ReadVmstat, CheckOOM, BaseOOM, NewOOM, Start, Pcs
<1> QED
  BY <1>1, <1>2, <1>3, <1>4, <1>5, <1>6, <1>7 DEF Step

(***************************************************************************)
(* Types.                                                                  *)
(***************************************************************************)

\* Every Run that has started has a reading of the clock left to it.
LEMMA TimeStep ==
  ASSUME TypeInv, [Next]_vars
  PROVE  clock' \in Times /\ IsFiniteSet(Early') /\ clock' + Cardinality(Early') <= MaxTime
<1> USE DEF hostVars, taskVars, localVars, histVars
<1>a. /\ clock \in Nat /\ clock >= 1 /\ MaxTime \in Nat /\ IsFiniteSet(Early) /\ Cardinality(Early) \in Nat
      /\ clock + Cardinality(Early) <= MaxTime
  BY FS_CardinalityType DEF TypeInv, Times
<1>b. TimeLeft = MaxTime - clock - Cardinality(Early)
  BY DEF TimeLeft, Early
<1>1. ASSUME clock' \in {clock, clock + 1}, IsFiniteSet(Early'), clock' + Cardinality(Early') <= MaxTime
      PROVE  clock' \in Times /\ IsFiniteSet(Early') /\ clock' + Cardinality(Early') <= MaxTime
  BY <1>1, <1>a, FS_CardinalityType DEF Times
<1>2. ASSUME UNCHANGED clock, Early' \subseteq Early
      PROVE  clock' \in Times /\ IsFiniteSet(Early') /\ clock' + Cardinality(Early') <= MaxTime
  <2>1. IsFiniteSet(Early') /\ Cardinality(Early') <= Cardinality(Early) /\ Cardinality(Early') \in Nat
    BY <1>2, <1>a, FS_Subset, FS_CardinalityType
  <2> QED
    BY <1>1, <1>2, <1>a, <2>1
<1>3. ASSUME NEW r \in Runs, Step(r)
      PROVE  clock' \in Times /\ IsFiniteSet(Early') /\ clock' + Cardinality(Early') <= MaxTime
  <2>a. \A x \in Runs : x # r => pc'[x] = pc[x]
    BY <1>3, OthersKeep
  <2>1. CASE Start(r)
    <3>1. UNCHANGED clock /\ TimeLeft > 0 /\ r \notin Early
      BY <2>1 DEF Start, Early
    <3>2. Early' \subseteq Early \cup {r}
      BY <2>a DEF Early
    <3>3. IsFiniteSet(Early \cup {r}) /\ Cardinality(Early \cup {r}) = Cardinality(Early) + 1
      BY <1>a, <3>1, FS_AddElement
    <3>4. IsFiniteSet(Early') /\ Cardinality(Early') <= Cardinality(Early) + 1 /\ Cardinality(Early') \in Nat
      BY <3>2, <3>3, FS_Subset, FS_CardinalityType
    <3> QED
      BY <1>1, <1>a, <1>b, <3>1, <3>4
  <2>2. CASE CoreNow(r)
    <3>1. clock' = clock + 1 /\ r \in Early /\ pc'[r] \notin {"ro", "space", "core"}
      BY <2>2, <1>3, PcStep, StageFacts DEF CoreNow, Early
    <3>2. Early' = Early \ {r}
      BY <2>a, <3>1 DEF Early
    <3>3. IsFiniteSet(Early') /\ Cardinality(Early') = Cardinality(Early) - 1
      BY <1>a, <3>1, <3>2, FS_RemoveElement
    <3> QED
      BY <1>1, <1>a, <3>1, <3>3
  <2>3. CASE ~Start(r) /\ ~CoreNow(r)
    <3>1. UNCHANGED clock
      BY <1>3, <2>3
      DEF Step, ReadError, Emit, collectDiskRO, collectDiskSpace, ReadDir, Examine, Record, RecordRest,
          ReadVmstat, CheckOOM, BaseOOM, NewOOM
    <3>2. pc'[r] \in {"ro", "space", "core"} => pc[r] \in {"ro", "space", "core"}
      BY <1>3, <2>3, PcStep, StageFacts DEF TypeInv, Pcs
    <3>3. Early' \subseteq Early
      BY <2>a, <3>2 DEF Early
    <3> QED
      BY <1>2, <3>1, <3>3
  <2> QED
    BY <2>1, <2>2, <2>3
<1>4. ASSUME NEW f \in Names, Dump(f)
      PROVE  clock' \in Times /\ IsFiniteSet(Early') /\ clock' + Cardinality(Early') <= MaxTime
  <2>1. clock' = clock + 1 /\ Early' = Early /\ TimeLeft > 0
    BY <1>4 DEF Dump, Early
  <2> QED
    BY <1>1, <1>a, <1>b, <2>1
<1>5. CASE New \/ Kill \/ Stop \/ (\E f \in Names : Remove(f)) \/ (\E m \in Mounts, d \in DiskStates : Change(m, d))
           \/ UNCHANGED vars
  BY <1>5, <1>2 DEF New, Kill, Stop, Remove, Change, vars, Early
<1> QED
  BY <1>3, <1>4, <1>5 DEF Next, Host

LEMMA TypeStep == TypeInv /\ [Next]_vars => TypeInv'
<1> SUFFICES ASSUME TypeInv, [Next]_vars PROVE TypeInv'
  OBVIOUS
<1> USE DEF hostVars, taskVars, localVars, histVars
<1>a. clock' \in Times /\ IsFiniteSet(Early') /\ clock' + Cardinality(Early') <= MaxTime
  BY TimeStep
<1>b. clock \in 1 .. MaxTime /\ Times = 1 .. MaxTime /\ clock \in 0 .. MaxTime
  BY DEF TypeInv, Times
<1>c. event \in [Runs -> Events]
  BY DEF TypeInv
<1>1. ASSUME NEW r \in Runs, Step(r) PROVE TypeInv'
  <2>a. pc' \in [Runs -> Pcs]
    BY <1>1, PcStep
  <2>1. CASE Start(r)
    <3>1. overlapped' \in BOOLEAN /\ during' \in [Runs -> SUBSET Disks]
      BY <2>1 DEF Start, TypeInv
    <3> QED
      BY <2>1, <2>a, <1>a, <3>1 DEF Start, TypeInv
  <2>2. CASE ReadError(r)
    <3>1. \A i \in 1 .. 4 : Order[i] \in Kinds
      BY DEF Order, Kinds
    <3>2. failed' \in [Runs -> SUBSET Kinds]
      BY <2>2, <3>1 DEF ReadError, TypeInv
    <3> QED
      BY <2>2, <2>a, <1>a, <3>2 DEF ReadError, Nothing, TypeInv
  <2>3. CASE Emit(r)
    <3>1. event' \in [Runs -> Events]
      BY <2>3, NoEventFields, <1>c DEF Emit
    <3>2. coreTold' \in [Cores -> Nat] /\ oomTold' \in Int
      <4>1. event[r].oom \in Int /\ oomTold \in Int /\ coreTold \in [Cores -> Nat]
        BY <1>c DEF TypeInv, Events
      <4>2. CASE UNCHANGED <<coreTold, oomTold>>
        BY <4>1, <4>2
      <4>3. CASE /\ coreTold' = [c \in Names \X Times |-> coreTold[c] + (IF c \in event[r].core THEN 1 ELSE 0)]
                 /\ oomTold' = oomTold + event[r].oom
        BY <4>1, <4>3 DEF Cores
      <4> QED
        BY <2>3, <4>2, <4>3 DEF Emit
    <3>3. /\ now' \in [Runs -> 0 .. MaxTime] /\ cur' \in [Runs -> 0 .. MaxKills] /\ first' \in [Runs -> BOOLEAN]
          /\ during' \in [Runs -> SUBSET Disks] /\ failed' \in [Runs -> SUBSET Kinds]
      BY <2>3 DEF Emit, TypeInv
    <3> QED
      BY <2>3, <2>a, <1>a, <3>1, <3>2, <3>3 DEF Emit, TypeInv
  <2>4. CASE collectDiskRO(r)
    <3>1. event' \in [Runs -> Events]
      BY <2>4, <1>c, EventFields DEF collectDiskRO
    <3> QED
      BY <2>4, <2>a, <1>a, <3>1 DEF collectDiskRO, TypeInv
  <2>5. CASE collectDiskSpace(r)
    <3>1. event' \in [Runs -> Events]
      <4>1. PICK known \in SUBSET Mounts : event' = [event EXCEPT ![r].space = {m \in known : Alert(m)}]
        BY <2>5 DEF collectDiskSpace
      <4>2. {m \in known : Alert(m)} \in SUBSET Mounts
        OBVIOUS
      <4> QED
        BY <1>c, <4>1, <4>2, EventFields
    <3>2. failed' \in [Runs -> SUBSET Kinds]
      BY <2>5 DEF collectDiskSpace, TypeInv, Kinds
    <3> QED
      BY <2>5, <2>a, <1>a, <3>1, <3>2 DEF collectDiskSpace, TypeInv
  <2>6. CASE CoreNow(r)
    <3>1. now' \in [Runs -> 0 .. MaxTime]
      BY <2>6, <1>b DEF CoreNow, TypeInv
    <3> QED
      BY <2>6, <2>a, <1>a, <3>1 DEF CoreNow, TypeInv
  <2>7. CASE ReadDir(r)
    BY <2>7, <2>a, <1>a DEF ReadDir, TypeInv
  <2>8. ASSUME NEW f \in Names, Examine(r, f) PROVE TypeInv'
    <3>1. files[f] # None => <<f, files[f]>> \in Cores
      <4>1. files[f] \in 0 .. MaxTime
        BY DEF TypeInv
      <4> QED
        BY <4>1 DEF Cores, Times
    <3>2. event[r].core \in SUBSET Cores
      BY <1>c DEF Events
    <3>3. event' \in [Runs -> Events]
      <4>1. PICK v \in SUBSET Cores : event' = [event EXCEPT ![r].core = v]
        <5>0. PICK last \in Apparent : event' = [event EXCEPT ![r].core =
                IF last = None \/ files[f] = None \/ files[f] < last
                THEN @ ELSE @ \cup {<<f, files[f]>>}]
          BY <2>8 DEF Examine
        <5>1. CASE last = None \/ files[f] = None \/ files[f] < last
          BY <3>2, <5>0, <5>1
        <5>2. CASE ~(last = None \/ files[f] = None \/ files[f] < last)
          BY <3>1, <3>2, <5>0, <5>2
        <5> QED
          BY <5>1, <5>2
      <4> QED
        BY <1>c, <4>1, EventFields
    <3>4. todo' \in [Runs -> SUBSET Names] /\ first' \in [Runs -> BOOLEAN]
      BY <2>8 DEF Examine, TypeInv
    <3> QED
      BY <2>8, <2>a, <1>a, <3>3, <3>4 DEF Examine, TypeInv
  <2>9. CASE Record(r) \/ RecordRest(r)
    <3>1. now[r] \in 0 .. MaxTime
      BY DEF TypeInv
    <3>2. 0 .. MaxTime = {None} \cup Times
      BY DEF Times
    <3>3. lastCoreCheck' \in {Torn, None} \cup Times /\ coreBase' \in 0 .. MaxTime
      BY <2>9, <3>1, <3>2 DEF Record, RecordRest, CoreSet, Checked, TypeInv
    <3> QED
      BY <2>9, <2>a, <1>a, <3>3 DEF Record, RecordRest, TypeInv
  <2>10. CASE ReadVmstat(r)
    BY <2>10, <2>a, <1>a DEF ReadVmstat, TypeInv
  <2>11. CASE CheckOOM(r)
    BY <2>11, <2>a, <1>a DEF CheckOOM, TypeInv
  <2>12. CASE BaseOOM(r)
    BY <2>12, <2>a, <1>a DEF BaseOOM, TypeInv
  <2>13. CASE NewOOM(r)
    <3>1. cur[r] - lastOOMKillCount \in -MaxKills .. MaxKills /\ cur[r] \in 0 .. MaxKills
      BY DEF TypeInv
    <3>2. event' \in [Runs -> Events]
      BY <2>13, <1>c, <3>1, EventFields DEF NewOOM
    <3> QED
      BY <2>13, <2>a, <1>a, <3>1, <3>2 DEF NewOOM, OOMSeen, TypeInv
  <2> QED
    BY <1>1, <2>1, <2>2, <2>3, <2>4, <2>5, <2>6, <2>7, <2>8, <2>9, <2>10, <2>11, <2>12, <2>13 DEF Step
<1>2. CASE New
  <2>1. coreTold' \in [Cores -> Nat]
    BY <1>2 DEF New, Cores
  <2>2. 0 \in 0 .. MaxKills /\ 0 \in 0 .. MaxTime
    OBVIOUS
  <2>3. UNCHANGED <<checks, hostVars, pc, event, localVars, during, failed>>
    BY <1>2 DEF New
  <2>4. lastCoreCheck' = 0 /\ lastOOMKillCount' = 0 /\ coreBase' = 0 /\ oomBase' = 0 /\ oomTold' = 0
    BY <1>2 DEF New
  <2>5. stopped' \in BOOLEAN /\ overlapped' \in BOOLEAN
    BY <1>2 DEF New
  <2> QED
    BY <1>a, <2>1, <2>2, <2>3, <2>4, <2>5 DEF TypeInv
<1>3. ASSUME NEW f \in Names, Dump(f) \/ Remove(f) PROVE TypeInv'
  <2>1. files' \in [Names -> 0 .. MaxTime]
    <3>1. 0 \in 0 .. MaxTime
      OBVIOUS
    <3> QED
      BY <1>3, <1>b, <3>1 DEF Dump, Remove, TypeInv
  <2> QED
    BY <1>3, <1>a, <2>1 DEF Dump, Remove, TypeInv
<1>4. ASSUME NEW m \in Mounts, NEW d \in DiskStates, Change(m, d) PROVE TypeInv'
  <2>1. disk' \in Disks /\ changes' \in 0 .. MaxChanges
    BY <1>4 DEF Change, TypeInv, Disks
  <2>2. during' \in [Runs -> SUBSET Disks]
    BY <1>4, <2>1 DEF Change, TypeInv
  <2> QED
    BY <1>4, <1>a, <2>1, <2>2 DEF Change, TypeInv
<1>5. CASE Kill \/ Stop
  <2>1. kills' \in 0 .. MaxKills
    BY <1>5 DEF Kill, Stop, TypeInv
  <2>2. stopped' \in BOOLEAN
    BY <1>5 DEF Kill, Stop, TypeInv
  <2> QED
    BY <1>5, <1>a, <2>1, <2>2 DEF Kill, Stop, TypeInv
<1>6. CASE UNCHANGED vars
  BY <1>6, <1>a DEF vars, TypeInv
<1> QED
  BY <1>1, <1>2, <1>3, <1>4, <1>5, <1>6 DEF Next, Host

(***************************************************************************)
(* Events and disks.                                                       *)
(***************************************************************************)

\* Each collector writes its own field of the event.
LEMMA OwnEvent ==
  ASSUME TypeInv, NEW r \in Runs, Step(r)
  PROVE  /\ ~Emit(r) /\ ~collectDiskRO(r) => event'[r].ro = event[r].ro
         /\ ~Emit(r) /\ ~collectDiskSpace(r) => event'[r].space = event[r].space
         /\ ~Emit(r) /\ (\A f \in Names : ~Examine(r, f)) => event'[r].core = event[r].core
         /\ ~Emit(r) /\ ~NewOOM(r) => event'[r].oom = event[r].oom
         /\ Emit(r) => event'[r] = NoEvent
         /\ collectDiskRO(r) => event'[r].ro = {m \in Mounts : isReadOnly(m) /\ Listed(m)}
         /\ collectDiskSpace(r) =>
              \E known \in SUBSET Mounts :
                /\ event'[r].space = {m \in known : Alert(m)}
                /\ known # Mounts => "space" \in failed'[r]
         /\ \A f \in Names : Examine(r, f) =>
              \E last \in Apparent :
                event'[r].core = IF last = None \/ files[f] = None \/ files[f] < last
                                 THEN event[r].core ELSE event[r].core \cup {<<f, files[f]>>}
         /\ NewOOM(r) => event'[r].oom = cur[r] - lastOOMKillCount
<1> USE DEF hostVars, taskVars, localVars, histVars, Goto
<1>c. event \in [Runs -> Events]
  BY DEF TypeInv
<1>1. CASE Emit(r)
  BY <1>1, <1>c
  DEF Emit, collectDiskRO, collectDiskSpace, Examine, NewOOM
<1>2. CASE collectDiskRO(r)
  <2>1. {m \in Mounts : isReadOnly(m) /\ Listed(m)} \in SUBSET Mounts
    OBVIOUS
  <2>2. /\ event'[r].ro = {m \in Mounts : isReadOnly(m) /\ Listed(m)}
        /\ event'[r].space = event[r].space /\ event'[r].core = event[r].core /\ event'[r].oom = event[r].oom
    BY <1>2, <1>c, <2>1, EventFields DEF collectDiskRO
  <2> QED
    BY <1>2, <2>2 DEF Emit, collectDiskRO, collectDiskSpace, Examine, NewOOM
<1>3. CASE collectDiskSpace(r)
  <2>1. PICK known \in SUBSET Mounts :
          /\ event' = [event EXCEPT ![r].space = {m \in known : Alert(m)}]
          /\ failed' = [failed EXCEPT ![r] = IF known = Mounts THEN @ ELSE @ \cup {"space"}]
    BY <1>3 DEF collectDiskSpace
  <2>2. {m \in known : Alert(m)} \in SUBSET Mounts
    OBVIOUS
  <2>3. /\ event'[r].space = {m \in known : Alert(m)}
        /\ event'[r].ro = event[r].ro /\ event'[r].core = event[r].core /\ event'[r].oom = event[r].oom
    BY <1>c, <2>1, <2>2, EventFields
  <2>4. known # Mounts => "space" \in failed'[r]
    BY <2>1 DEF TypeInv
  <2> QED
    BY <1>3, <2>3, <2>4 DEF Emit, collectDiskRO, collectDiskSpace, Examine, NewOOM
<1>4. ASSUME NEW f \in Names, Examine(r, f)
      PROVE  /\ \E last \in Apparent :
                  event'[r].core = IF last = None \/ files[f] = None \/ files[f] < last
                                   THEN event[r].core ELSE event[r].core \cup {<<f, files[f]>>}
             /\ event'[r].ro = event[r].ro /\ event'[r].space = event[r].space /\ event'[r].oom = event[r].oom
  <2>a. PICK last \in Apparent : event' = [event EXCEPT ![r].core =
          IF last = None \/ files[f] = None \/ files[f] < last
          THEN @ ELSE @ \cup {<<f, files[f]>>}]
    BY <1>4 DEF Examine
  <2>0. PICK v : v = IF last = None \/ files[f] = None \/ files[f] < last
                     THEN event[r].core ELSE event[r].core \cup {<<f, files[f]>>}
    OBVIOUS
  <2>1. files[f] # None => <<f, files[f]>> \in Cores
    <3>1. files[f] \in 0 .. MaxTime
      BY DEF TypeInv
    <3> QED
      BY <3>1 DEF Cores, Times
  <2>2. event[r].core \in SUBSET Cores
    BY <1>c DEF Events
  <2>3. v \in SUBSET Cores
    BY <2>0, <2>1, <2>2
  <2>4. event' = [event EXCEPT ![r].core = v]
    BY <2>a, <2>0
  <2>5. /\ event'[r].core = v
        /\ event'[r].ro = event[r].ro /\ event'[r].space = event[r].space /\ event'[r].oom = event[r].oom
    BY <1>c, <2>3, <2>4, EventFields
  <2> QED
    BY <2>0, <2>5
<1>5. ASSUME NEW f \in Names, Examine(r, f)
      PROVE  /\ \A g \in Names : Examine(r, g) =>
                  \E last \in Apparent :
                    event'[r].core = IF last = None \/ files[g] = None \/ files[g] < last
                                     THEN event[r].core ELSE event[r].core \cup {<<g, files[g]>>}
             /\ event'[r].ro = event[r].ro /\ event'[r].space = event[r].space /\ event'[r].oom = event[r].oom
             /\ ~Emit(r) /\ ~collectDiskRO(r) /\ ~collectDiskSpace(r) /\ ~NewOOM(r)
  <2>1. ~Emit(r) /\ ~collectDiskRO(r) /\ ~collectDiskSpace(r) /\ ~NewOOM(r)
    BY <1>5 DEF Emit, collectDiskRO, collectDiskSpace, Examine, NewOOM
  <2> QED
    BY <1>4, <1>5, <2>1
<1>6. CASE NewOOM(r)
  <2>1. cur[r] - lastOOMKillCount \in -MaxKills .. MaxKills
    BY DEF TypeInv
  <2>2. /\ event'[r].oom = cur[r] - lastOOMKillCount
        /\ event'[r].ro = event[r].ro /\ event'[r].space = event[r].space /\ event'[r].core = event[r].core
    BY <1>6, <1>c, <2>1, EventFields DEF NewOOM
  <2> QED
    BY <1>6, <2>2 DEF Emit, collectDiskRO, collectDiskSpace, Examine, NewOOM
<1>7. CASE ~Emit(r) /\ ~collectDiskRO(r) /\ ~collectDiskSpace(r) /\ ~NewOOM(r) /\ \A f \in Names : ~Examine(r, f)
  <2>1. UNCHANGED event
    BY <1>7
    DEF Step, Start, ReadError, Nothing, CoreNow, ReadDir, Record, RecordRest, ReadVmstat, CheckOOM, BaseOOM
  <2> QED
    BY <1>7, <2>1
<1> QED
  BY <1>1, <1>2, <1>3, <1>5, <1>6, <1>7

LEMMA EventStep == TypeInv /\ EventInv /\ [Next]_vars => EventInv'
<1> SUFFICES ASSUME TypeInv, EventInv, [Next]_vars, NEW x \in Runs
             PROVE  /\ pc'[x] = "idle" => event'[x] = NoEvent
                    /\ pc'[x] \in {"ro", "space", "core", "list"} => event'[x].core = {}
                    /\ pc'[x] # "emit" => event'[x].oom = 0
  BY DEF EventInv
<1>1. CASE UNCHANGED <<pc, event>>
  BY <1>1 DEF EventInv
<1>2. ASSUME NEW r \in Runs, Step(r), x # r
      PROVE  /\ pc'[x] = "idle" => event'[x] = NoEvent
             /\ pc'[x] \in {"ro", "space", "core", "list"} => event'[x].core = {}
             /\ pc'[x] # "emit" => event'[x].oom = 0
  BY <1>2, OthersKeep DEF EventInv
<1>3. ASSUME Step(x)
      PROVE  /\ pc'[x] = "idle" => event'[x] = NoEvent
             /\ pc'[x] \in {"ro", "space", "core", "list"} => event'[x].core = {}
             /\ pc'[x] # "emit" => event'[x].oom = 0
  <2>0. pc[x] \in Pcs
    BY DEF TypeInv
  <2>1. pc'[x] = "idle" => Emit(x)
    <3>1. pc'[x] = "idle" => pc[x] = "emit"
      BY <1>3, <2>0, PcStep, StageFacts DEF Pcs
    <3>2. pc[x] = "emit" => Emit(x)
      <4>1. \A i \in 1 .. 4 : Order[i] \in {"ro", "space", "core", "oom"}
        BY DEF Order
      <4> QED
        BY <1>3, <4>1
        DEF Step, Start, ReadError, collectDiskRO, collectDiskSpace, CoreNow, ReadDir, Examine, Record,
            RecordRest, ReadVmstat, CheckOOM, BaseOOM, NewOOM
    <3> QED
      BY <3>1, <3>2
  <2>2. CASE Emit(x)
    BY <1>3, <2>2, OwnEvent, NoEventFields
  <2>3. CASE ~Emit(x)
    <3>1. pc'[x] \in {"ro", "space", "core", "list"} => event[x].core = {}
      <4>1. pc'[x] \in {"ro", "space", "core", "list"} => pc[x] \in {"idle", "ro", "space", "core", "list"}
        BY <1>3, <2>0, PcStep, StageFacts DEF Pcs
      <4> QED
        BY <4>1, NoEventFields DEF EventInv
    <3>2. \A f \in Names : Examine(x, f) => pc'[x] = "examine"
      BY <2>0 DEF Examine
    <3>3. pc'[x] # "emit" => event[x].oom = 0
      <4>1. pc[x] = "emit" => pc'[x] = "idle"
        BY <1>3, PcStep
      <4> QED
        BY <2>1, <2>3, <4>1 DEF EventInv
    <3>4. NewOOM(x) => pc'[x] = "emit"
      BY <2>0, StageFacts DEF NewOOM, Goto, TypeInv
    <3> QED
      BY <1>3, <2>1, <2>3, <3>1, <3>2, <3>3, <3>4, OwnEvent
  <2> QED
    BY <2>2, <2>3
<1> QED
  BY <1>1, <1>2, <1>3, HostKeeps DEF Next, vars

LEMMA AloneStep == TypeInv /\ AloneInv /\ [Next]_vars => AloneInv'
<1> SUFFICES ASSUME TypeInv, AloneInv, [Next]_vars PROVE AloneInv'
  OBVIOUS
<1> USE DEF hostVars, taskVars, localVars, histVars
<1>1. ASSUME NEW r \in Runs, Step(r) PROVE AloneInv'
  <2>a. \A x \in Runs : x # r => pc'[x] = pc[x]
    BY <1>1, OthersKeep
  <2>1. CASE Start(r)
    <3>1. ~overlapped' => \A x \in Runs : pc[x] = "idle"
      BY <2>1 DEF Start
    <3> QED
      BY <2>a, <3>1 DEF AloneInv
  <2>2. CASE ~Start(r)
    <3>1. UNCHANGED overlapped
      BY <1>1, <2>2
      DEF Step, ReadError, Emit, collectDiskRO, collectDiskSpace, CoreNow, ReadDir, Examine, Record,
          RecordRest, ReadVmstat, CheckOOM, BaseOOM, NewOOM
    <3>2. pc[r] # "idle"
      BY <1>1, <2>2, PcStep
    <3> QED
      BY <2>a, <3>1, <3>2 DEF AloneInv
  <2> QED
    BY <2>1, <2>2
<1>2. CASE New
  BY <1>2 DEF New, AloneInv
<1>3. CASE Host \/ UNCHANGED vars
  BY <1>3 DEF Host, Dump, Remove, Change, Kill, Stop, vars, AloneInv
<1> QED
  BY <1>1, <1>2, <1>3 DEF Next

\* What a Run knows of a mount, in a state of the Run.
LEMMA DiskStep == TypeInv /\ EventInv /\ DiskInv /\ [Next]_vars => DiskInv'
<1> SUFFICES ASSUME TypeInv, EventInv, DiskInv, [Next]_vars PROVE DiskInv'
  OBVIOUS
<1> USE DEF hostVars, taskVars, localVars, histVars
<1> DEFINE Knows(x) ==
      pc[x] # "idle" =>
        /\ disk \in during[x]
        /\ \A m \in event[x].ro : Due(m) /\ \E d \in during[x] : d[m].ro
        /\ \A m \in event[x].space : \E d \in during[x] : Full(d, m)
        /\ pc[x] # "ro" => \A m \in Mounts :
             "ro" \in checks \ failed[x] /\ Due(m) /\ (\A d \in during[x] : d[m].ro) => m \in event[x].ro
        /\ pc[x] \notin {"ro", "space"} => \A m \in Mounts :
             "space" \in checks \ failed[x] /\ (\A d \in during[x] : Full(d, m)) => m \in event[x].space
<1>a. \A x \in Runs : Knows(x)
  BY DEF DiskInv
<1>b. SUFFICES ASSUME NEW x \in Runs PROVE Knows(x)'
  BY DEF DiskInv
<1>1. CASE UNCHANGED <<pc, disk, during, event, checks, failed>>
  BY <1>1, <1>a
<1>2. ASSUME NEW r \in Runs, Step(r), x # r PROVE Knows(x)'
  <2>1. UNCHANGED <<disk, checks>>
    BY <1>2
    DEF Step, Start, ReadError, Emit, collectDiskRO, collectDiskSpace, CoreNow, ReadDir, Examine, Record,
        RecordRest, ReadVmstat, CheckOOM, BaseOOM, NewOOM
  <2>2. /\ pc'[x] = pc[x] /\ event'[x] = event[x] /\ during'[x] = during[x] /\ failed'[x] = failed[x]
    BY <1>2, OthersKeep
  <2> QED
    BY <1>a, <2>1, <2>2
<1>3. ASSUME Step(x) PROVE Knows(x)'
  <2>1. UNCHANGED <<disk, checks>>
    BY <1>3
    DEF Step, Start, ReadError, Emit, collectDiskRO, collectDiskSpace, CoreNow, ReadDir, Examine, Record,
        RecordRest, ReadVmstat, CheckOOM, BaseOOM, NewOOM
  <2>2. CASE Start(x)
    <3>1. /\ during'[x] = {disk} /\ UNCHANGED event /\ event[x] = NoEvent
          /\ pc'[x] = Stage(0)
      BY <1>3, <2>2, PcStep DEF Start, EventInv, TypeInv
    <3> QED
      BY <2>1, <3>1, NoEventFields, StageFacts
  <2>3. CASE Emit(x)
    BY <1>3, <2>3, PcStep DEF Emit
  <2>4. CASE collectDiskRO(x)
    <3>1. /\ pc[x] = "ro" /\ pc'[x] = Stage(1) /\ UNCHANGED <<during, failed>>
          /\ event'[x].ro = {m \in Mounts : disk[m].ro /\ Due(m)} /\ event'[x].space = event[x].space
      BY <1>3, <2>4, PcStep, OwnEvent DEF collectDiskRO, Emit, collectDiskSpace, isReadOnly, Listed, Due
    <3>2. disk \in during[x]
      BY <1>a, <3>1
    <3>3. pc'[x] \notin {"ro", "space"} => "space" \notin checks
      BY <3>1, StageFacts
    <3> QED
      BY <1>a, <2>1, <3>1, <3>2, <3>3
  <2>5. CASE collectDiskSpace(x)
    <3>1. /\ pc[x] = "space" /\ pc'[x] = Stage(2) /\ UNCHANGED during /\ event'[x].ro = event[x].ro
          /\ failed[x] \subseteq failed'[x]
      BY <1>3, <2>5, PcStep, OwnEvent DEF collectDiskSpace, Emit, collectDiskRO, TypeInv
    <3>2. PICK known \in SUBSET Mounts :
            /\ event'[x].space = {m \in known : Alert(m)}
            /\ known # Mounts => "space" \in failed'[x]
      BY <1>3, <2>5, OwnEvent
    <3>3. disk \in during[x] /\ \A m \in Mounts : Alert(m) <=> Full(disk, m)
      BY <1>a, <3>1 DEF Alert, Full
    <3> QED
      BY <1>a, <2>1, <3>1, <3>2, <3>3
  <2>6. CASE ReadError(x)
    <3>1. PICK i \in 1 .. 4 :
            /\ pc[x] = IF Order[i] = "core" THEN "list" ELSE Order[i]
            /\ failed' = [failed EXCEPT ![x] = @ \cup {Order[i]}]
      BY <2>6 DEF ReadError
    <3>2. UNCHANGED <<during, event>>
      BY <2>6 DEF ReadError, Nothing
    <3>3. failed'[x] = failed[x] \cup {Order[i]}
      BY <3>1 DEF TypeInv
    <3>4. Order[1] = "ro" /\ Order[2] = "space" /\ Order[3] = "core" /\ Order[4] = "oom"
      BY DEF Order
    <3>5. i = 1 \/ i = 2 \/ i = 3 \/ i = 4
      OBVIOUS
    <3>6. /\ pc[x] = "ro" => "ro" \in failed'[x] /\ ("space" \in checks => pc'[x] = "space")
          /\ pc[x] = "space" => "space" \in failed'[x]
          /\ pc[x] # "idle"
      BY <1>3, <3>1, <3>3, <3>4, <3>5, PcStep, StageFacts
    <3> QED
      BY <1>a, <2>1, <3>2, <3>3, <3>6
  <2>7. CASE ~Start(x) /\ ~Emit(x) /\ ~collectDiskRO(x) /\ ~collectDiskSpace(x) /\ ~ReadError(x)
    <3>1. /\ UNCHANGED <<during, failed>> /\ pc[x] \notin {"idle", "ro", "space"}
          /\ event'[x].ro = event[x].ro /\ event'[x].space = event[x].space
      BY <1>3, <2>7, OwnEvent
      DEF Step, CoreNow, ReadDir, Examine, Record, RecordRest, ReadVmstat, CheckOOM, BaseOOM, NewOOM
    <3> QED
      BY <1>a, <2>1, <3>1
  <2> QED
    BY <2>2, <2>3, <2>4, <2>5, <2>6, <2>7
<1>4. ASSUME NEW m \in Mounts, NEW d \in DiskStates, Change(m, d) PROVE Knows(x)'
  <2>1. /\ UNCHANGED <<pc, event, checks, failed>>
        /\ pc[x] # "idle" => during'[x] = during[x] \cup {disk'}
    BY <1>4 DEF Change
  <2> QED
    BY <1>a, <2>1
<1> QED
  BY <1>1, <1>2, <1>3, <1>4 DEF Next, New, Host, Dump, Remove, Kill, Stop, vars

(***************************************************************************)
(* Core files.                                                             *)
(***************************************************************************)

\* What a step of a Run writes.
LEMMA OwnStep ==
  ASSUME TypeInv, NEW r \in Runs, Step(r)
  PROVE  /\ UNCHANGED <<files, stopped>>
         /\ CoreNow(r) => clock' = clock + 1 /\ now'[r] = clock
         /\ ~CoreNow(r) => UNCHANGED clock
         /\ ~CoreNow(r) /\ ~Emit(r) => now'[r] = now[r]
         /\ ~Emit(r) => UNCHANGED <<coreTold, oomTold>>
         /\ ~Record(r) /\ ~RecordRest(r) => UNCHANGED <<lastCoreCheck, coreBase>>
         /\ ~ReadDir(r) /\ (\A f \in Names : ~Examine(r, f)) => todo'[r] = todo[r]
         /\ ~Emit(r) /\ (\A f \in Names : ~Examine(r, f)) => first'[r] = first[r]
         /\ ~BaseOOM(r) /\ ~NewOOM(r) => UNCHANGED lastOOMKillCount
         /\ ~BaseOOM(r) => UNCHANGED oomBase
         /\ ~ReadVmstat(r) /\ ~Emit(r) => cur'[r] = cur[r]
         /\ ~Start(r) => UNCHANGED overlapped
         /\ Start(r) /\ ~overlapped' => ~overlapped /\ \A x \in Runs : pc[x] = "idle"
<1> USE DEF hostVars, taskVars, localVars, histVars, Goto
<1>0. now \in [Runs -> 0 .. MaxTime]
  BY DEF TypeInv
<1>1. CASE Start(r)
  BY <1>1 DEF Start, BaseOOM, NewOOM, Record, RecordRest, CoreNow, Emit
<1>2. CASE ReadError(r)
  BY <1>2 DEF ReadError, CoreNow, Emit, Start
<1>3. CASE Emit(r)
  BY <1>0, <1>3 DEF Emit, CoreNow, Record, Start
<1>4. CASE collectDiskRO(r) \/ collectDiskSpace(r)
  BY <1>4 DEF collectDiskRO, collectDiskSpace, CoreNow, Emit, Start
<1>5. CASE CoreNow(r)
  BY <1>0, <1>5 DEF CoreNow, Start
<1>6. CASE ReadDir(r) \/ \E f \in Names : Examine(r, f)
  BY <1>6 DEF ReadDir, Examine, CoreNow, Start
<1>7. CASE Record(r) \/ RecordRest(r)
  BY <1>7 DEF Record, RecordRest, CoreNow, Start
<1>8. CASE ReadVmstat(r) \/ CheckOOM(r) \/ BaseOOM(r) \/ NewOOM(r)
  BY <1>8 DEF ReadVmstat, CheckOOM, BaseOOM, NewOOM, CoreNow, Start
<1> QED
  BY <1>1, <1>2, <1>3, <1>4, <1>5, <1>6, <1>7, <1>8 DEF Step

\* How the end of the loop writes lastCoreCheck, and that the base line only moves on.
LEMMA RecordFacts ==
  ASSUME TypeInv, CoreInv, NEW r \in Runs, Record(r) \/ RecordRest(r)
  PROVE  /\ Examining(r) /\ todo[r] = {} /\ now[r] \in Times
         /\ \/ lastCoreCheck' = now[r] /\ ~Examining(r)'
            \/ /\ lastCoreCheck = None /\ lastCoreCheck' = Torn
               /\ pc[r] = "examine" /\ pc'[r] = "torn" /\ UNCHANGED coreBase
         /\ coreBase <= coreBase'
         /\ lastCoreCheck' = now[r] =>
              /\ first[r] => now[r] <= coreBase'
              /\ lastCoreCheck \notin Times => now[r] <= coreBase'
<1>1. pc \in [Runs -> Pcs] /\ now[r] \in 0 .. MaxTime /\ coreBase \in 0 .. MaxTime /\ first[r] \in BOOLEAN
      /\ lastCoreCheck \in {Torn, None} \cup Times
  BY DEF TypeInv
<1>2. Examining(r) /\ todo[r] = {} /\ now[r] \in Times
  BY <1>1 DEF Record, RecordRest, CoreInv, Examining, Times
<1>3. CASE CoreSet(r)
  <2>1. pc'[r] = Stage(3) /\ lastCoreCheck' = now[r]
        /\ coreBase' = IF (first[r] \/ lastCoreCheck \in {None, Torn}) /\ now[r] > coreBase
                       THEN now[r] ELSE coreBase
    BY <1>1, <1>3 DEF CoreSet, Checked, Goto
  <2>2. ~Examining(r)'
    BY <2>1, StageFacts DEF Examining
  <2>3. coreBase <= coreBase' /\ (first[r] => now[r] <= coreBase') 
        /\ (lastCoreCheck \notin Times => now[r] <= coreBase')
    BY <1>1, <2>1
  <2> QED
    BY <1>2, <2>1, <2>2, <2>3
<1>4. CASE ~CoreSet(r)
  <2>1. pc[r] = "examine" /\ lastCoreCheck = None /\ lastCoreCheck' = Torn /\ pc'[r] = "torn" /\ UNCHANGED coreBase
    BY <1>1, <1>4 DEF Record, RecordRest, Goto
  <2>2. lastCoreCheck' # now[r] /\ coreBase <= coreBase'
    BY <1>1, <2>1
  <2> QED
    BY <1>2, <2>1, <2>2
<1> QED
  BY <1>3, <1>4

\* A core that was reported, or is about to be, stays so until the task stops.
LEMMA ToldStep ==
  ASSUME TypeInv, [Next]_vars, ~New, ~stopped, NEW c \in Cores, Told(c)
  PROVE  Told(c)'
<1>0. coreTold \in [Cores -> Nat]
  BY DEF TypeInv
<1>1. ASSUME NEW r \in Runs, Step(r) PROVE Told(c)'
  <2>1. CASE Emit(r)
    <3>1. coreTold' = [a \in Cores |-> coreTold[a] + (IF a \in event[r].core THEN 1 ELSE 0)]
      BY <2>1 DEF Emit, Cores
    <3>2. coreTold'[c] = coreTold[c] + (IF c \in event[r].core THEN 1 ELSE 0)
      BY <3>1
    <3>3. coreTold[c] > 0 \/ c \in event[r].core => coreTold'[c] > 0
      BY <1>0, <3>2
    <3>4. \A x \in Runs : x # r => event'[x] = event[x]
      BY <1>1, OthersKeep
    <3> QED
      BY <3>3, <3>4 DEF Told
  <2>2. CASE ~Emit(r)
    <3>1. UNCHANGED coreTold /\ \A x \in Runs : x # r => event'[x] = event[x]
      BY <1>1, <2>2, OthersKeep, OwnStep
    <3>2. event[r].core \subseteq event'[r].core
      BY <1>1, <2>2, OwnEvent
    <3> QED
      BY <3>1, <3>2 DEF Told
  <2> QED
    BY <2>1, <2>2
<1>2. CASE Host \/ UNCHANGED vars
  BY <1>2 DEF Host, Dump, Remove, Change, Kill, Stop, vars, histVars, Told
<1> QED
  BY <1>1, <1>2 DEF Next

\* The times that are recorded are past ones, and a base line goes with them.
LEMMA TimesStep ==
  ASSUME TypeInv, CoreInv, [Next]_vars
  PROVE  /\ lastCoreCheck' < clock' /\ \A x \in Runs : now'[x] < clock'
         /\ \A f \in Names : files'[f] < clock'
         /\ lastCoreCheck' \in Times => coreBase' # None
         /\ \A x \in Runs : /\ pc'[x] = "torn" => todo'[x] = {}
                            /\ pc'[x] = "list" \/ Examining(x)' => now'[x] # None
<1> USE DEF hostVars, taskVars, localVars, histVars
<1>a. /\ clock \in Nat /\ clock >= 1 /\ clock \in Times
      /\ lastCoreCheck \in Int /\ \A x \in Runs : now[x] \in Nat
      /\ coreBase \in Nat
      /\ pc \in [Runs -> Pcs] /\ files \in [Names -> 0 .. MaxTime]
  BY DEF TypeInv, Times
<1>b. /\ lastCoreCheck < clock /\ \A x \in Runs : now[x] < clock
      /\ \A f \in Names : files[f] < clock
      /\ lastCoreCheck \in Times => coreBase # None
      /\ \A x \in Runs : /\ pc[x] = "torn" => todo[x] = {}
                         /\ pc[x] = "list" \/ Examining(x) => now[x] # None
  BY DEF CoreInv
<1>1. ASSUME NEW r \in Runs, Step(r)
      PROVE  /\ lastCoreCheck' < clock' /\ \A x \in Runs : now'[x] < clock'
             /\ \A f \in Names : files'[f] < clock'
             /\ lastCoreCheck' \in Times => coreBase' # None
             /\ \A x \in Runs : /\ pc'[x] = "torn" => todo'[x] = {}
                                /\ pc'[x] = "list" \/ Examining(x)' => now'[x] # None
  <2>1. clock' \in Nat /\ clock <= clock' /\ UNCHANGED files
    BY <1>1, <1>a, OwnStep
  <2>2. \A x \in Runs : x # r => /\ pc'[x] = pc[x] /\ now'[x] = now[x] /\ todo'[x] = todo[x]
                                 /\ Examining(x)' = Examining(x)
    BY <1>1, OthersKeep DEF Examining
  <2>3. now'[r] < clock' /\ (pc'[r] = "list" \/ Examining(r)' => now'[r] # None)
    <3>1. CASE CoreNow(r)
      BY <1>1, <1>a, <3>1, OwnStep
    <3>2. CASE Emit(r)
      <4>1. now'[r] = None /\ pc'[r] = "idle"
        BY <3>2, <1>a DEF Emit, Goto, TypeInv
      <4> QED
        BY <1>a, <2>1, <4>1 DEF Examining
    <3>3. CASE ~CoreNow(r) /\ ~Emit(r)
      <4>1. now'[r] = now[r]
        BY <1>1, <3>3, OwnStep
      <4>2. pc[r] = "core" => CoreNow(r)
        <5>1. \A i \in 1 .. 4 : Order[i] = "ro" \/ Order[i] = "space" \/ Order[i] = "core" \/ Order[i] = "oom"
          BY DEF Order
        <5> QED
          BY <1>1, <5>1 DEF Step, Start, ReadError, Emit, collectDiskRO, collectDiskSpace, ReadDir, Examine,
             Record, RecordRest, ReadVmstat, CheckOOM, BaseOOM, NewOOM
      <4>3. pc'[r] = "list" \/ Examining(r)' => pc[r] = "list" \/ Examining(r)
        BY <1>1, <3>3, <4>2, <1>a, PcStep, StageFacts DEF Examining, Pcs
      <4> QED
        BY <1>a, <1>b, <2>1, <4>1, <4>3
    <3> QED
      BY <3>1, <3>2, <3>3
  <2>4. lastCoreCheck' < clock' /\ (lastCoreCheck' \in Times => coreBase' # None)
    <3>1. CASE Record(r) \/ RecordRest(r)
      <4>1. /\ now[r] \in Times /\ lastCoreCheck' \in {now[r], Torn} /\ coreBase <= coreBase'
            /\ lastCoreCheck' = now[r] => (lastCoreCheck \notin Times => now[r] <= coreBase')
        BY <3>1, RecordFacts
      <4>2. coreBase' \in Nat
        BY TypeStep DEF TypeInv
      <4> QED
        BY <1>a, <1>b, <2>1, <4>1, <4>2 DEF Times
    <3>2. CASE ~Record(r) /\ ~RecordRest(r)
      BY <1>1, <1>a, <1>b, <2>1, <3>2, OwnStep
    <3> QED
      BY <3>1, <3>2
  <2>5. pc'[r] = "torn" => todo'[r] = {}
    <3>1. pc'[r] = "torn" => Record(r)
      <4>1. \A i \in 0 .. 4 : Stage(i) # "torn"
        <5>1. \A i \in 0 .. 4 : i = 0 \/ i = 1 \/ i = 2 \/ i = 3 \/ i = 4
          OBVIOUS
        <5> QED
          BY <5>1, StageFacts
      <4> QED
        BY <1>1, <4>1, <1>a DEF Goto, Nothing, CoreSet, Step, Start, ReadError, Emit, collectDiskRO, collectDiskSpace,
           CoreNow, ReadDir, Examine, RecordRest, ReadVmstat, CheckOOM, BaseOOM, NewOOM
    <3> QED
      BY <3>1 DEF Record
  <2> QED
    BY <1>a, <1>b, <2>1, <2>2, <2>3, <2>4, <2>5
<1>2. CASE New
  BY <1>2, <1>a, <1>b DEF New, Examining, Times
<1>3. ASSUME NEW f \in Names, Dump(f)
      PROVE  /\ lastCoreCheck' < clock' /\ \A x \in Runs : now'[x] < clock'
             /\ \A g \in Names : files'[g] < clock'
             /\ UNCHANGED <<lastCoreCheck, coreBase, pc, todo, now>>
  BY <1>3, <1>a, <1>b DEF Dump
<1>4. ASSUME NEW f \in Names, Remove(f)
      PROVE  /\ \A g \in Names : files'[g] < clock'
             /\ UNCHANGED <<clock, lastCoreCheck, coreBase, pc, todo, now>>
  BY <1>4, <1>a, <1>b DEF Remove
<1>5. CASE UNCHANGED <<clock, files, lastCoreCheck, coreBase, pc, todo, now>>
  BY <1>5, <1>b DEF Examining
<1>6. ASSUME NEW m \in Mounts, NEW d \in DiskStates, Change(m, d)
      PROVE  UNCHANGED <<clock, files, lastCoreCheck, coreBase, pc, todo, now>>
  BY <1>6 DEF Change
<1>7. CASE Kill \/ Stop \/ UNCHANGED vars
  BY <1>5, <1>7 DEF Kill, Stop, vars
<1> QED
  BY <1>1, <1>2, <1>3, <1>4, <1>5, <1>6, <1>7, <1>b DEF Next, Host, Examining

\* No check passes over a core.
LEMMA CoreStep == TypeInv /\ CoreInv /\ [Next]_vars => CoreInv'
<1> SUFFICES ASSUME TypeInv, CoreInv, [Next]_vars PROVE CoreInv'
  OBVIOUS
<1> USE DEF hostVars, taskVars, localVars, histVars
<1> DEFINE Over(f) == coreBase <= files[f] /\ files[f] < lastCoreCheck => Told(<<f, files[f]>>)
           Seen(f, x) == Examining(x) /\ f \notin todo[x] /\ files[f] < now[x] =>
                           first[x] \/ files[f] < coreBase \/ Told(<<f, files[f]>>)
<1>1. SUFFICES ASSUME ~stopped', NEW f \in Names, files'[f] # None
               PROVE  Over(f)' /\ \A x \in Runs : Seen(f, x)'
  BY TimesStep DEF CoreInv
<1>a. /\ clock \in Nat /\ lastCoreCheck \in Int /\ coreBase \in Nat /\ files[f] \in Nat
      /\ pc \in [Runs -> Pcs]  /\ \A x \in Runs : now[x] \in Nat
      /\ files \in [Names -> 0 .. MaxTime] /\ todo \in [Runs -> SUBSET Names] /\ first \in [Runs -> BOOLEAN]
  BY DEF TypeInv, Times
<1>b. /\ lastCoreCheck < clock /\ (\A x \in Runs : now[x] < clock) /\ files[f] < clock
  BY DEF CoreInv
<1>2. ~stopped /\ files[f] # None => Over(f) /\ \A x \in Runs : Seen(f, x)
  BY DEF CoreInv
<1>3. ASSUME ~stopped, UNCHANGED files, Told(<<f, files[f]>>), ~New PROVE Told(<<f, files[f]>>)'
  <2>1. <<f, files[f]>> \in Cores
    <3>1. files[f] \in 0 .. MaxTime /\ files[f] # 0
      BY <1>1, <1>3 DEF TypeInv
    <3> QED
      BY <3>1 DEF Cores, Times
  <2>2. PICK c \in Cores : c = <<f, files[f]>>
    BY <2>1
  <2>3. Told(c) /\ c = <<f, files'[f]>>
    BY <1>3, <2>2
  <2>4. Told(c)'
    BY <1>3, <2>3, ToldStep
  <2> QED
    BY <2>3, <2>4
<1>4. ASSUME NEW r \in Runs, Step(r) PROVE Over(f)' /\ \A x \in Runs : Seen(f, x)'
  <2>1. UNCHANGED <<files, stopped>>
    BY <1>4, OwnStep
  <2>2. ~stopped /\ files[f] # None /\ Over(f) /\ \A x \in Runs : Seen(f, x)
    BY <1>1, <1>2, <2>1
  <2>3. ~New
    <3>1. ~stopped
      BY <2>2
    <3> QED
      BY <3>1 DEF New
  <2>4. Told(<<f, files[f]>>) => Told(<<f, files[f]>>)'
    BY <1>3, <2>1, <2>2, <2>3
  <2>5. coreBase \in Nat /\ coreBase' \in Nat /\ coreBase <= coreBase'
    <3>1. coreBase' \in Nat
      BY TypeStep DEF TypeInv
    <3>2. Record(r) \/ RecordRest(r) => coreBase <= coreBase'
      BY RecordFacts
    <3> QED
      BY <1>4, <1>a, <3>1, <3>2, OwnStep
  <2>6. ASSUME NEW x \in Runs, x # r PROVE Seen(f, x)'
    <3>1. /\ now'[x] = now[x] /\ todo'[x] = todo[x] /\ first'[x] = first[x]
          /\ Examining(x)' = Examining(x)
      BY <1>4, <2>6, OthersKeep DEF Examining
    <3>2. files[f] < coreBase => files'[f] < coreBase'
      BY <1>a, <2>1, <2>5
    <3> QED
      BY <2>1, <2>2, <2>4, <3>1, <3>2
  <2>7. Over(f)'
    <3>1. CASE lastCoreCheck' = now[r] /\ (Record(r) \/ RecordRest(r))
      <4>1. /\ Examining(r) /\ todo[r] = {} /\ now[r] \in Times
            /\ first[r] => now[r] <= coreBase'
        BY <3>1, RecordFacts
      <4>2. SUFFICES ASSUME coreBase' <= files[f], files[f] < now[r] PROVE Told(<<f, files[f]>>)
        BY <2>1, <2>4, <3>1
      <4>3. ~first[r] /\ ~(files[f] < coreBase)
        BY <1>a, <2>5, <4>1, <4>2
      <4> QED
        BY <2>2, <4>1, <4>2, <4>3
    <3>2. CASE lastCoreCheck' = Torn
      BY <1>a, <2>1, <3>2
    <3>3. CASE UNCHANGED <<lastCoreCheck, coreBase>>
      BY <2>1, <2>2, <2>4, <3>3
    <3> QED
      BY <1>4, <3>1, <3>2, <3>3, OwnStep, RecordFacts
  <2>8. Seen(f, r)'
    <3>1. CASE ReadDir(r)
      <4>1. todo'[r] = {g \in Names : files[g] # None}
        BY <3>1, <1>a DEF ReadDir
      <4> QED
        BY <2>2, <4>1
    <3>2. ASSUME NEW g \in Names, Examine(r, g) PROVE Seen(f, r)'
      <4>1. /\ todo'[r] = todo[r] \ {g} /\ first'[r] = (first[r] \/ lastCoreCheck \in {None, Torn})
            /\ UNCHANGED <<now, pc, coreBase, lastCoreCheck>> /\ pc[r] = "examine"
        BY <3>2, <1>a DEF Examine
      <4>2. CASE f # g
        BY <2>1, <2>2, <2>4, <4>1, <4>2 DEF Examining
      <4>3. CASE f = g /\ lastCoreCheck \notin {None, Torn} /\ ~(files[f] < lastCoreCheck)
        <5>1. event'[r].core = event[r].core \cup {<<f, files[f]>>}
          <6>1. Apparent = {lastCoreCheck}
            BY <4>3 DEF Apparent
          <6>2. \E last \in Apparent :
                  event'[r].core = IF last = None \/ files[f] = None \/ files[f] < last
                                   THEN event[r].core ELSE event[r].core \cup {<<f, files[f]>>}
            BY <1>4, <3>2, <4>3, OwnEvent
          <6> QED
            BY <2>2, <4>3, <6>1, <6>2
        <5>2. Told(<<f, files[f]>>)'
          BY <2>1, <5>1 DEF Told
        <5> QED
          BY <2>1, <5>2
      <4>4. CASE f = g /\ lastCoreCheck \notin {None, Torn} /\ files[f] < lastCoreCheck
        <5>1. files[f] < coreBase \/ Told(<<f, files[f]>>)
          BY <1>a, <2>2, <4>4
        <5> QED
          BY <2>1, <2>4, <4>1, <5>1
      <4>5. CASE lastCoreCheck \in {None, Torn}
        BY <4>1, <4>5
      <4> QED
        BY <4>2, <4>3, <4>4, <4>5
    <3>3. CASE Record(r) \/ RecordRest(r)
      <4>1. Examining(r)' => Examining(r) /\ UNCHANGED coreBase
        BY <3>3, RecordFacts
      <4>2. UNCHANGED <<now, todo, first>>
        BY <3>3 DEF Record, RecordRest
      <4> QED
        BY <2>1, <2>2, <2>4, <4>1, <4>2
    <3>4. CASE ~ReadDir(r) /\ (\A g \in Names : ~Examine(r, g)) /\ ~Record(r) /\ ~RecordRest(r)
      <4>1. ~Examining(r)'
        <5>1. \A i \in 0 .. 4 : Stage(i) \notin {"examine", "torn"}
          <6>1. \A i \in 0 .. 4 : i = 0 \/ i = 1 \/ i = 2 \/ i = 3 \/ i = 4
            OBVIOUS
          <6> QED
            BY <6>1, StageFacts
        <5> QED
          BY <1>4, <3>4, <5>1, <1>a DEF Examining, Goto, Nothing, Step, Start, ReadError, Emit, collectDiskRO,
             collectDiskSpace, CoreNow, ReadVmstat, CheckOOM, BaseOOM, NewOOM
      <4> QED
        BY <4>1
    <3> QED
      BY <3>1, <3>2, <3>3, <3>4
  <2> QED
    BY <2>6, <2>7, <2>8
<1>5. CASE New
  <2>1. lastCoreCheck' = 0 /\ UNCHANGED files /\ \A x \in Runs : ~Examining(x)'
    BY <1>5 DEF New, Examining
  <2> QED
    BY <1>a, <2>1
<1>6. ASSUME NEW g \in Names, Dump(g) PROVE Over(f)' /\ \A x \in Runs : Seen(f, x)'
  <2>1. /\ UNCHANGED <<lastCoreCheck, coreBase, pc, now, todo, first, coreTold, event, stopped>>
        /\ files'[f] = IF f = g THEN clock ELSE files[f]
    BY <1>6, <1>a DEF Dump
  <2>2. CASE f = g
    <3>1. ~(files'[f] < lastCoreCheck') /\ \A x \in Runs : ~(files'[f] < now'[x])
      BY <1>a, <1>b, <2>1, <2>2
    <3> QED
      BY <3>1
  <2>3. CASE f # g
    BY <1>1, <1>2, <2>1, <2>3 DEF Told, Examining
  <2> QED
    BY <2>2, <2>3
<1>7. ASSUME NEW g \in Names, Remove(g) PROVE Over(f)' /\ \A x \in Runs : Seen(f, x)'
  <2>1. /\ UNCHANGED <<lastCoreCheck, coreBase, pc, now, todo, first, coreTold, event, stopped>>
        /\ files'[f] = IF f = g THEN None ELSE files[f]
    BY <1>7, <1>a DEF Remove
  <2> QED
    BY <1>1, <1>2, <2>1 DEF Told, Examining
<1>8. CASE UNCHANGED <<files, lastCoreCheck, coreBase, pc, now, todo, first, coreTold, event, stopped>>
  BY <1>1, <1>2, <1>8 DEF Told, Examining
<1>9. ASSUME NEW m \in Mounts, NEW d \in DiskStates, Change(m, d)
      PROVE  UNCHANGED <<files, lastCoreCheck, coreBase, pc, now, todo, first, coreTold, event, stopped>>
  BY <1>9 DEF Change
<1>10. CASE Kill \/ UNCHANGED vars
  BY <1>8, <1>10 DEF Kill, vars
<1>11. ~Stop
  BY <1>1 DEF Stop
<1> QED
  BY <1>4, <1>5, <1>6, <1>7, <1>8, <1>9, <1>10, <1>11 DEF Next, Host

\* While Runs do not overlap, a Run that takes a step is the only one.
LEMMA AloneFacts ==
  ASSUME TypeInv, EventInv, AloneInv, NEW r \in Runs, Step(r), ~overlapped'
  PROVE  ~overlapped /\ \A x \in Runs : x # r => pc[x] = "idle" /\ event[x] = NoEvent
<1>1. CASE Start(r)
  BY <1>1, OwnStep DEF EventInv
<1>2. CASE ~Start(r)
  <2>1. ~overlapped /\ pc[r] # "idle"
    BY <1>2, OwnStep, PcStep
  <2> QED
    BY <2>1 DEF AloneInv, EventInv
<1> QED
  BY <1>1, <1>2

LEMMA TwiceStep ==
  TypeInv /\ EventInv /\ AloneInv /\ CoreInv /\ TwiceInv /\ [Next]_vars => TwiceInv'
<1> SUFFICES ASSUME TypeInv, EventInv, AloneInv, CoreInv, TwiceInv, [Next]_vars PROVE TwiceInv'
  OBVIOUS
<1> USE DEF hostVars, taskVars, localVars, histVars
<1>a. /\ clock \in Nat /\ lastCoreCheck \in Int /\ coreTold \in [Cores -> Nat]
      /\ pc \in [Runs -> Pcs] /\ \A x \in Runs : now[x] \in Nat
      /\ event \in [Runs -> Events] /\ files \in [Names -> 0 .. MaxTime]
  BY DEF TypeInv, Times
<1>b. \A c \in Cores : c[2] \in Nat /\ c[2] >= 1
  BY DEF Cores, Times
<1> DEFINE Past(c) == coreTold[c] > 0 \/ (\E x \in Runs : c \in event[x].core) => c[2] < clock
           Marked(x) == event[x].core # {} /\ ~Examining(x) => lastCoreCheck = now[x]
           Second(c) == coreTold[c] = 2 => c[2] < lastCoreCheck /\ \A x \in Runs : c \notin event[x].core
           Newer(c, x) == pc[x] = "list" \/ Examining(x) \/ event[x].core # {} => c[2] < now[x]
<1>c. /\ \A c \in Cores : Past(c)
      /\ ~overlapped => /\ \A x \in Runs : Marked(x)
                        /\ \A c \in Cores : /\ coreTold[c] <= 2 /\ Second(c)
                                            /\ coreTold[c] > 0 => \A x \in Runs : Newer(c, x)
  BY DEF TwiceInv
<1>d. SUFFICES /\ \A c \in Cores : Past(c)'
               /\ ~overlapped' => /\ \A x \in Runs : Marked(x)'
                                  /\ \A c \in Cores : /\ coreTold'[c] <= 2 /\ Second(c)'
                                                      /\ coreTold'[c] > 0 => \A x \in Runs : Newer(c, x)'
  BY DEF TwiceInv
<1>1. ASSUME NEW r \in Runs, Step(r), NEW c \in Cores PROVE Past(c)'
  <2>1. clock' \in Nat /\ clock <= clock'
    BY <1>1, <1>a, OwnStep
  <2>2. \A x \in Runs : x # r => event'[x] = event[x]
    BY <1>1, OthersKeep
  <2>3. CASE Emit(r)
    <3>1. coreTold'[c] > 0 => coreTold[c] > 0 \/ c \in event[r].core
      BY <2>3, <1>a DEF Emit, Cores
    <3>2. event'[r].core = {}
      BY <1>1, <2>3, OwnEvent, NoEventFields
    <3> QED
      BY <1>a, <1>b, <1>c, <2>1, <2>2, <3>1, <3>2
  <2>4. ASSUME NEW f \in Names, Examine(r, f) PROVE Past(c)'
    <3>1. UNCHANGED <<coreTold, clock>>
      BY <2>4 DEF Examine
    <3>2. c \in event'[r].core => c \in event[r].core \/ c = <<f, files[f]>>
      <4>1. \E last \in Apparent :
              event'[r].core = IF last = None \/ files[f] = None \/ files[f] < last
                               THEN event[r].core ELSE event[r].core \cup {<<f, files[f]>>}
        BY <1>1, <2>4, OwnEvent
      <4> QED
        BY <4>1
    <3>3. files[f] < clock
      BY DEF CoreInv
    <3> QED
      BY <1>c, <2>2, <3>1, <3>2, <3>3
  <2>5. CASE ~Emit(r) /\ \A f \in Names : ~Examine(r, f)
    <3>1. UNCHANGED coreTold /\ event'[r].core = event[r].core
      BY <1>1, <2>5, OwnStep, OwnEvent
    <3> QED
      BY <1>a, <1>b, <1>c, <2>1, <2>2, <3>1
  <2> QED
    BY <2>3, <2>4, <2>5
<1>2. ASSUME NEW r \in Runs, Step(r), ~overlapped'
      PROVE  /\ \A x \in Runs : Marked(x)'
             /\ \A c \in Cores : /\ coreTold'[c] <= 2 /\ Second(c)'
                                 /\ coreTold'[c] > 0 => \A x \in Runs : Newer(c, x)'
  <2>a. ~overlapped /\ \A x \in Runs : x # r => pc[x] = "idle" /\ event[x] = NoEvent
    BY <1>2, AloneFacts
  <2>b. ASSUME NEW x \in Runs, x # r
        PROVE  event'[x].core = {} /\ pc'[x] = "idle" /\ Marked(x)' /\ \A c \in Cores : Newer(c, x)'
    <3>1. pc'[x] = "idle" /\ event'[x].core = {}
      BY <1>2, <2>a, <2>b, OthersKeep, NoEventFields
    <3> QED
      BY <3>1 DEF Examining
  <2>c. SUFFICES /\ Marked(r)'
                 /\ \A c \in Cores : /\ coreTold'[c] <= 2
                                     /\ coreTold'[c] = 2 => c[2] < lastCoreCheck' /\ c \notin event'[r].core
                                     /\ coreTold'[c] > 0 => Newer(c, r)'
    BY <2>b
  <2>d. pc[r] \in Pcs
    BY <1>a
  <2>e. pc[r] \in {"idle", "ro", "space", "core", "list"} => event[r].core = {}
    BY NoEventFields DEF EventInv
  <2>1. CASE Emit(r)
    <3>1. event'[r].core = {} /\ pc'[r] = "idle"
      BY <1>2, <2>1, OwnEvent, NoEventFields, PcStep DEF Emit
    <3>2. Marked(r)' /\ \A c \in Cores : Newer(c, r)'
      BY <3>1 DEF Examining
    <3>3. UNCHANGED lastCoreCheck
      BY <2>1 DEF Emit
    <3>4. ASSUME NEW c \in Cores PROVE coreTold'[c] <= 2 /\ (coreTold'[c] = 2 => c[2] < lastCoreCheck')
      <4>1. coreTold'[c] = coreTold[c] \/ (c \in event[r].core /\ coreTold'[c] = coreTold[c] + 1)
        BY <2>1, <1>a DEF Emit, Cores
      <4>2. coreTold[c] \in Nat /\ coreTold[c] <= 2 /\ (coreTold[c] = 2 => c[2] < lastCoreCheck /\ c \notin event[r].core)
        BY <1>a, <1>c, <2>a
      <4>3. coreTold[c] > 0 /\ c \in event[r].core => c[2] < lastCoreCheck
        <5>1. c \in event[r].core => lastCoreCheck = now[r]
          BY <1>c, <2>1, <2>a DEF Emit, Examining
        <5> QED
          BY <1>c, <2>a, <5>1
      <4> QED
        BY <3>3, <4>1, <4>2, <4>3
    <3> QED
      BY <3>1, <3>2, <3>4
  <2>2. ASSUME NEW f \in Names, Examine(r, f)
        PROVE /\ Marked(r)'
              /\ \A c \in Cores : /\ coreTold'[c] <= 2
                                  /\ coreTold'[c] = 2 => c[2] < lastCoreCheck' /\ c \notin event'[r].core
                                  /\ coreTold'[c] > 0 => Newer(c, r)'
    <3>1. UNCHANGED <<coreTold, lastCoreCheck, pc, now>> /\ pc[r] = "examine"
      BY <2>2 DEF Examine
    <3>2. \E last \in Apparent :
            event'[r].core = IF last = None \/ files[f] = None \/ files[f] < last
                             THEN event[r].core ELSE event[r].core \cup {<<f, files[f]>>}
      BY <1>2, <2>2, OwnEvent
    <3>3. \A c \in Cores : c[2] < lastCoreCheck /\ c \notin event[r].core => c \notin event'[r].core
      BY <3>2 DEF Apparent, Cores, Times
    <3> QED
      BY <1>c, <2>a, <3>1, <3>3 DEF Examining
  <2>3. CASE Record(r) \/ RecordRest(r)
    <3>1. /\ Examining(r) /\ UNCHANGED <<now, coreTold, event>>
          /\ (lastCoreCheck' = now[r] \/ (lastCoreCheck = None /\ pc'[r] = "torn"))
      BY <2>3, RecordFacts DEF Record, RecordRest
    <3>2. Marked(r)'
      BY <3>1 DEF Examining
    <3>3. ASSUME NEW c \in Cores
          PROVE  /\ coreTold'[c] <= 2
                 /\ coreTold'[c] = 2 => c[2] < lastCoreCheck' /\ c \notin event'[r].core
                 /\ coreTold'[c] > 0 => Newer(c, r)'
      <4>1. coreTold[c] > 0 => c[2] < now[r]
        BY <1>c, <2>a, <3>1
      <4>2. coreTold[c] = 2 => c[2] < lastCoreCheck /\ c \notin event[r].core
        BY <1>c, <2>a
      <4>3. coreTold[c] <= 2 /\ coreTold[c] \in Nat
        BY <1>a, <1>c, <2>a
      <4> QED
        BY <1>b, <3>1, <4>1, <4>2, <4>3
    <3> QED
      BY <3>2, <3>3
  <2>4. CASE CoreNow(r)
    <3>1. event'[r].core = {} /\ now'[r] = clock /\ UNCHANGED coreTold /\ UNCHANGED lastCoreCheck
      BY <1>2, <2>4, <2>e, OwnStep DEF CoreNow
    <3> QED
      BY <1>c, <2>a, <3>1
  <2>5. CASE ~Emit(r) /\ ~CoreNow(r) /\ ~Record(r) /\ ~RecordRest(r) /\ \A f \in Names : ~Examine(r, f)
    <3>1. now'[r] = now[r] /\ UNCHANGED <<coreTold, lastCoreCheck>> /\ event'[r].core = event[r].core
      BY <1>2, <2>5, OwnStep, OwnEvent
    <3>2. ~Examining(r)
      <4>1. \A i \in 1 .. 4 : Order[i] = "ro" \/ Order[i] = "space" \/ Order[i] = "core" \/ Order[i] = "oom"
        BY DEF Order
      <4> QED
        BY <1>2, <2>5, <4>1 DEF Examining, Step, Start, ReadError, collectDiskRO, collectDiskSpace, ReadDir,
             ReadVmstat, CheckOOM, BaseOOM, NewOOM
    <3>3. pc'[r] = "list" \/ Examining(r)' => pc[r] = "list"
      <4>1. pc[r] = "core" => CoreNow(r)
        <5>1. \A i \in 1 .. 4 : Order[i] = "ro" \/ Order[i] = "space" \/ Order[i] = "core" \/ Order[i] = "oom"
          BY DEF Order
        <5> QED
          BY <1>2, <5>1 DEF Step, Start, ReadError, Emit, collectDiskRO, collectDiskSpace, ReadDir, Examine,
             Record, RecordRest, ReadVmstat, CheckOOM, BaseOOM, NewOOM
      <4> QED
        BY <1>2, <2>5, <2>d, <3>2, <4>1, PcStep, StageFacts DEF Examining, Pcs
    <3> QED
      BY <1>c, <2>a, <2>e, <3>1, <3>2, <3>3
  <2> QED
    BY <2>1, <2>2, <2>3, <2>4, <2>5
<1>3. CASE New
  <2>1. /\ \A c \in Cores : coreTold'[c] = 0
        /\ \A x \in Runs : event'[x].core = {} /\ pc'[x] = "idle"
    BY <1>3, NoEventFields DEF New, Cores, EventInv
  <2> QED
    BY <2>1 DEF Examining
<1>4. CASE /\ clock' \in {clock, clock + 1}
           /\ UNCHANGED <<coreTold, event, overlapped, lastCoreCheck, now, pc>>
  <2>1. \A c \in Cores : Past(c)'
    BY <1>a, <1>b, <1>c, <1>4
  <2> QED
    BY <1>c, <1>4, <2>1 DEF Examining
<1>5. ASSUME Host \/ UNCHANGED vars
      PROVE /\ clock' \in {clock, clock + 1}
            /\ UNCHANGED <<coreTold, event, overlapped, lastCoreCheck, now, pc>>
  BY <1>5 DEF Host, Dump, Remove, Change, Kill, Stop, vars
<1> QED
  BY <1>1, <1>2, <1>3, <1>4, <1>5 DEF Next

(***************************************************************************)
(* OOM kills.                                                              *)
(***************************************************************************)

LEMMA OOMStep == TypeInv /\ EventInv /\ AloneInv /\ OOMInv /\ [Next]_vars => OOMInv'
<1> SUFFICES ASSUME TypeInv, EventInv, AloneInv, OOMInv, [Next]_vars PROVE OOMInv'
  OBVIOUS
<1> USE DEF hostVars, taskVars, localVars, histVars
<1>a. /\ lastOOMKillCount \in Nat /\ oomBase \in Nat /\ oomTold \in Int
      /\ pc \in [Runs -> Pcs] /\ \A x \in Runs : cur[x] \in Nat /\ event[x].oom \in Int
  <2>1. \A x \in Runs : event[x].oom \in Int
    BY DEF TypeInv, Events
  <2> QED
    BY <2>1 DEF TypeInv
<1>b. \A x \in Runs : pc[x] # "emit" => event[x].oom = 0
  BY DEF EventInv
<1> DEFINE Waits(x) == /\ event[x].oom >= 0
                       /\ pc[x] = "oombase" => lastOOMKillCount = 0
                       /\ pc[x] = "oomnew" => cur[x] > lastOOMKillCount
           Sum(x) == pc[x] # "idle" => oomBase + oomTold + event[x].oom = lastOOMKillCount
           Idle == (\A x \in Runs : pc[x] = "idle") => oomBase + oomTold = lastOOMKillCount
<1>c. /\ Runs = {} => lastOOMKillCount = 0 /\ oomTold = 0
      /\ ~overlapped => /\ oomTold >= 0 /\ \A x \in Runs : Waits(x)
                        /\ ~stopped => (\A x \in Runs : Sum(x)) /\ Idle
  BY DEF OOMInv
<1>d. SUFFICES /\ Runs = {} => lastOOMKillCount' = 0 /\ oomTold' = 0
               /\ ~overlapped' => /\ oomTold' >= 0 /\ \A x \in Runs : Waits(x)'
                                  /\ ~stopped' => (\A x \in Runs : Sum(x)') /\ Idle'
  BY DEF OOMInv
<1>1. ASSUME NEW r \in Runs, Step(r), ~overlapped'
      PROVE  /\ oomTold' >= 0 /\ \A x \in Runs : Waits(x)'
             /\ ~stopped' => (\A x \in Runs : Sum(x)') /\ Idle'
  <2>a. ~overlapped /\ UNCHANGED stopped /\ \A x \in Runs : x # r => pc[x] = "idle" /\ event[x] = NoEvent
    BY <1>1, AloneFacts, OwnStep
  <2>b. \A x \in Runs : x # r => Waits(x)' /\ Sum(x)' /\ pc'[x] = "idle"
    BY <1>1, <2>a, OthersKeep, NoEventFields
  <2>c. SUFFICES /\ oomTold' >= 0 /\ Waits(r)'
                 /\ ~stopped => /\ Sum(r)'
                                /\ pc'[r] = "idle" => oomBase' + oomTold' = lastOOMKillCount'
    BY <2>a, <2>b
  <2>d. oomTold >= 0 /\ Waits(r) /\ (~stopped => Sum(r) /\ Idle)
    BY <1>c, <2>a
  <2>1. CASE Emit(r)
    <3>1. event'[r].oom = 0 /\ pc'[r] = "idle" /\ pc[r] = "emit" /\ UNCHANGED <<lastOOMKillCount, oomBase>>
      BY <1>1, <2>1, OwnEvent, NoEventFields, PcStep DEF Emit
    <3>2. oomTold' = oomTold + event[r].oom \/ (stopped /\ oomTold' = oomTold)
      BY <2>1 DEF Emit
    <3> QED
      BY <1>a, <2>d, <3>1, <3>2
  <2>2. CASE BaseOOM(r)
    <3>1. /\ pc[r] = "oombase" /\ lastOOMKillCount' = cur[r] /\ oomBase' = cur[r] /\ pc'[r] = "emit"
          /\ UNCHANGED <<event, oomTold>>
      BY <2>2, <1>a, StageFacts DEF BaseOOM, Goto
    <3>2. event[r].oom = 0
      BY <1>b, <3>1
    <3>3. ~stopped => oomTold = 0
      BY <1>a, <2>d, <3>1, <3>2
    <3> QED
      BY <1>a, <2>d, <3>1, <3>2, <3>3
  <2>3. CASE NewOOM(r)
    <3>1. /\ pc[r] = "oomnew" /\ lastOOMKillCount' = cur[r] /\ pc'[r] = "emit"
          /\ UNCHANGED <<oomBase, oomTold>>
      BY <2>3, <1>a, StageFacts DEF NewOOM, Goto, OOMSeen
    <3>2. event[r].oom = 0 /\ event'[r].oom = cur[r] - lastOOMKillCount
      BY <1>1, <1>b, <2>3, <3>1, OwnEvent
    <3> QED
      BY <1>a, <2>d, <3>1, <3>2
  <2>4. CASE CheckOOM(r)
    <3>1. UNCHANGED <<lastOOMKillCount, cur, event, oomBase, oomTold>> /\ pc[r] = "oomcheck"
      BY <2>4 DEF CheckOOM
    <3>2. \/ pc'[r] = "oombase" /\ lastOOMKillCount = 0
          \/ pc'[r] = "emit"
          \/ pc'[r] = "oomnew" /\ ~(cur[r] <= lastOOMKillCount)
      BY <2>4, <1>a, StageFacts DEF CheckOOM, Goto
    <3> QED
      BY <1>a, <2>d, <3>1, <3>2
  <2>5. CASE Start(r)
    <3>1. UNCHANGED <<lastOOMKillCount, cur, event, oomBase, oomTold>> /\ pc[r] = "idle" /\ pc'[r] = Stage(0)
      BY <1>1, <2>5, PcStep DEF Start
    <3>2. \A x \in Runs : pc[x] = "idle"
      BY <2>a, <3>1
    <3>3. event[r].oom = 0 /\ pc'[r] \notin {"oombase", "oomnew", "idle"}
      BY <1>b, <3>1, StageFacts
    <3> QED
      BY <1>a, <2>d, <3>1, <3>2, <3>3
  <2>6. CASE ~Emit(r) /\ ~BaseOOM(r) /\ ~NewOOM(r) /\ ~CheckOOM(r) /\ ~Start(r)
    <3>1. UNCHANGED <<lastOOMKillCount, oomBase, oomTold>> /\ event'[r].oom = event[r].oom
      BY <1>1, <2>6, OwnStep, OwnEvent
    <3>2. pc'[r] \notin {"oombase", "oomnew", "idle"} /\ pc[r] # "idle"
      <4>1. \A i \in 1 .. 4 : Stage(i) \notin {"oombase", "oomnew", "idle"}
        <5>1. \A i \in 1 .. 4 : i = 1 \/ i = 2 \/ i = 3 \/ i = 4
          OBVIOUS
        <5> QED
          BY <5>1, StageFacts
      <4>2. pc[r] # "idle"
        BY <1>1, <2>6, PcStep
      <4> QED
        BY <1>1, <1>a, <2>6, <4>1, <4>2 DEF Goto, Nothing, Step, ReadError, collectDiskRO, collectDiskSpace,
           CoreNow, ReadDir, Examine, Record, RecordRest, CoreSet, ReadVmstat
    <3> QED
      BY <1>a, <2>d, <3>1, <3>2
  <2> QED
    BY <2>1, <2>2, <2>3, <2>4, <2>5, <2>6
<1>2. CASE New
  <2>1. /\ lastOOMKillCount' = 0 /\ oomBase' = 0 /\ oomTold' = 0
        /\ \A x \in Runs : pc'[x] = "idle" /\ event'[x].oom = 0
    BY <1>2, <1>b DEF New
  <2> QED
    BY <2>1
<1>3. CASE UNCHANGED <<lastOOMKillCount, oomBase, oomTold, overlapped, pc, event, cur>> /\ (~stopped' => ~stopped)
  BY <1>c, <1>3
<1>4. ASSUME Host \/ UNCHANGED vars
      PROVE  UNCHANGED <<lastOOMKillCount, oomBase, oomTold, overlapped, pc, event, cur>> /\ (~stopped' => ~stopped)
  BY <1>4 DEF Host, Dump, Remove, Change, Kill, Stop, vars
<1> QED
  BY <1>1, <1>2, <1>3, <1>4 DEF Next

(***************************************************************************)
(* The theorems.                                                           *)
(***************************************************************************)

LEMMA ExceptionsInit == Init => IInv
<1> SUFFICES ASSUME Init PROVE IInv
  OBVIOUS
<1> USE DEF Init
<1>1. \A x \in Runs : pc[x] = "idle" /\ event[x] = NoEvent /\ now[x] = 0 /\ todo[x] = {} /\ event[x].core = {}
                      /\ event[x].oom = 0
  BY NoEventFields
<1>2. TypeInv
  <2>1. 0 \in 0 .. MaxTime /\ 0 \in 0 .. MaxKills /\ 1 \in 0 .. MaxKills /\ 1 \in Times /\ 0 \in 0 .. MaxChanges
    BY DEF Times
  <2>2. kills \in 0 .. MaxKills
    BY <2>1
  <2>3. disk \in Disks
    BY DEF Disks
  <2>4. pc \in [Runs -> Pcs] /\ event \in [Runs -> Events]
    BY NoEventFields DEF Pcs
  <2>5. Early = {}
    BY <1>1 DEF Early
  <2>6. IsFiniteSet(Early) /\ clock + Cardinality(Early) <= MaxTime
    BY <2>5, FS_EmptySet
  <2>7. coreTold \in [Cores -> Nat] /\ oomTold \in Int
    BY DEF Cores
  <2>8. /\ now \in [Runs -> 0 .. MaxTime] /\ todo \in [Runs -> SUBSET Names]
        /\ first \in [Runs -> BOOLEAN] /\ cur \in [Runs -> 0 .. MaxKills]
        /\ during \in [Runs -> SUBSET Disks] /\ failed \in [Runs -> SUBSET Kinds]
        /\ files \in [Names -> 0 .. MaxTime]
    BY <2>1
  <2>9. checks \in CheckSets /\ clock \in Times /\ changes \in 0 .. MaxChanges
        /\ lastCoreCheck \in {Torn, None} \cup Times /\ lastOOMKillCount \in 0 .. MaxKills
        /\ coreBase \in 0 .. MaxTime /\ oomBase \in 0 .. MaxKills
    BY <2>1
  <2>10. stopped \in BOOLEAN /\ overlapped \in BOOLEAN
    OBVIOUS
  <2> QED
    BY <2>2, <2>3, <2>4, <2>6, <2>7, <2>8, <2>9, <2>10 DEF TypeInv
<1>3. EventInv /\ DiskInv /\ AloneInv
  BY <1>1 DEF EventInv, DiskInv, AloneInv
<1>4. CoreInv
  BY <1>1 DEF CoreInv, Examining, Times
<1>5. TwiceInv
  BY <1>1 DEF TwiceInv, Examining, Cores
<1>6. OOMInv
  BY <1>1 DEF OOMInv
<1> QED
  BY <1>2, <1>3, <1>4, <1>5, <1>6 DEF IInv

LEMMA ExceptionsInvariant == Spec => []IInv
<1>1. IInv /\ [Next]_vars => IInv'
  BY TypeStep, EventStep, DiskStep, AloneStep, CoreStep, TwiceStep, OOMStep DEF IInv
<1> QED
  BY <1>1, ExceptionsInit, PTL DEF Spec

\* Times and counts stay in their ranges, and the number of kills in an event, the
\* difference to lastOOMKillCount that collectOOM computes, is never negative unless
\* two Runs have overlapped.
THEOREM ExceptionsTypeCorrect == Spec => []TypeOK
<1>1. IInv => TypeOK
  <2> SUFFICES ASSUME IInv PROVE TypeOK
    OBVIOUS
  <2>1. TypeInv /\ OOMInv
    BY DEF IInv
  <2>2. ASSUME NEW r \in Runs
        PROVE /\ event[r].ro \subseteq Mounts /\ event[r].space \subseteq Mounts
              /\ event[r].core \subseteq Cores
              /\ event[r].oom \in IF overlapped THEN -MaxKills .. MaxKills ELSE 0 .. MaxKills
              /\ now[r] \in 0 .. MaxTime /\ todo[r] \subseteq Names /\ cur[r] \in 0 .. MaxKills
    <3>1. event[r] \in Events
      BY <2>1 DEF TypeInv
    <3>2. event[r].oom \in -MaxKills .. MaxKills /\ (~overlapped => event[r].oom >= 0)
      BY <2>1, <3>1 DEF OOMInv, Events
    <3>3. event[r].oom \in IF overlapped THEN -MaxKills .. MaxKills ELSE 0 .. MaxKills
      BY <3>2
    <3> QED
      BY <2>1, <3>1, <3>3 DEF TypeInv, Events
  <2> QED
    BY <2>1, <2>2 DEF TypeInv, TypeOK, Pcs, Disks
<1> QED
  BY <1>1, ExceptionsInvariant, PTL

\* Whatever the disks do while collectDiskRO and collectDiskSpace look at them, and
\* however Runs overlap, an event names only mounts that were read-only, or full, during
\* its Run, and leaves out none that was so throughout and could be read.
THEOREM DisksAreReported == Spec => []DiskRight
<1>1. IInv => DiskRight
  BY DEF IInv, DiskInv, DiskRight, Due, Full
<1> QED
  BY <1>1, ExceptionsInvariant, PTL

\* However the Runs of collectCorefile interleave, and although they share lastCoreCheck
\* without a lock, no check passes over a core file written since the base line; and
\* Runs that do not overlap report a core at most twice.
THEOREM CoresAreReported == Spec => []CoreReported
<1>1. IInv => CoreReported
  <2> SUFFICES ASSUME IInv PROVE CoreReported
    OBVIOUS
  <2>1. ASSUME NEW f \in Names, ~stopped, coreBase # None, coreBase <= files[f], files[f] < lastCoreCheck
        PROVE  coreTold[<<f, files[f]>>] > 0 \/ \E r \in Runs : <<f, files[f]>> \in event[r].core
    <3>1. files[f] # None
      BY <2>1 DEF IInv, TypeInv
    <3> QED
      BY <2>1, <3>1 DEF IInv, CoreInv, Told
  <2>2. \A c \in Cores : ~overlapped => coreTold[c] <= 2
    BY DEF IInv, TwiceInv
  <2> QED
    BY <2>1, <2>2 DEF CoreReported
<1> QED
  BY <1>1, ExceptionsInvariant, PTL

\* As long as Runs do not overlap, collectOOM reports every kill since its base line
\* once: what the events have reported makes up the difference to lastOOMKillCount.
THEOREM KillsAreAccounted == Spec => []OOMAccounted
<1>1. IInv => OOMAccounted
  <2> SUFFICES ASSUME IInv, ~overlapped, ~stopped
               PROVE  \/ \E r \in Runs : oomBase + oomTold + event[r].oom = lastOOMKillCount
                      \/ lastOOMKillCount = 0 /\ oomTold = 0
    BY DEF OOMAccounted
  <2>1. OOMInv /\ EventInv /\ TypeInv
    BY DEF IInv
  <2>2. CASE Runs = {}
    BY <2>1, <2>2 DEF OOMInv
  <2>3. CASE \E r \in Runs : pc[r] # "idle"
    BY <2>1, <2>3 DEF OOMInv
  <2>4. CASE Runs # {} /\ \A r \in Runs : pc[r] = "idle"
    <3>1. PICK r \in Runs : pc[r] = "idle"
      BY <2>4
    <3>2. event[r].oom = 0 /\ oomBase + oomTold = lastOOMKillCount /\ oomBase \in Int /\ oomTold \in Int
      BY <2>1, <2>4, <3>1 DEF OOMInv, EventInv, TypeInv
    <3> QED
      BY <3>2
  <2> QED
    BY <2>2, <2>3, <2>4
<1> QED
  BY <1>1, ExceptionsInvariant, PTL
=============================================================================
