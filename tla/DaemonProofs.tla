---------------------------- MODULE DaemonProofs ----------------------------
(***************************************************************************)
(* Theorems about Daemon, for every set of idents, periods, configurations *)
(* and reload goroutines and for every bound.                              *)
(***************************************************************************)
EXTENDS Daemon, TLAPS

USE DEF Absent, JobNext, JobStop, PopAll, Free, Take, Drop, Without, Install, Done

\* The types, and what they rest on: main registers tasks from a file that
\* loaded, before there are a run loop, jobs or reloads.
TypeInv ==
  /\ TypeOK
  /\ mpc = "add" =>
       /\ file \in Configs
       /\ lpc = "none"
       /\ made = {}
       /\ sig = 0
       /\ cur = 1
       /\ \A r \in Reloaders : rpc[r] = "idle"

LEMMA StateIdsFacts ==
  /\ 1 \in StateIds
  /\ StateIds \subseteq Nat
  BY BoundsAssumption DEF StateIds

LEMMA PeriodsFacts == \A p \in Periods \cup {Absent} : p \in Nat
  BY PeriodsAssumption

LEMMA TypeInit == Init => TypeInv
<1> SUFFICES ASSUME Init PROVE TypeInv
  OBVIOUS
<1>1. NoTasks \in [Idents -> Periods \cup {Absent}]
  BY DEF NoTasks
<1>2. toAdd \in SUBSET Idents
  BY DEF Init, Tasks
<1>3. nsig \in 0 .. MaxReloads
  BY BoundsAssumption DEF Init
<1>4. TypeOK
  BY <1>1, <1>2, <1>3, StateIdsFacts
  DEF Init, TypeOK, Statuses, LoopPcs, ReloadPcs, MainPcs
<1> QED
  BY <1>4 DEF Init, TypeInv

\* A job has an ident; jobs made for some idents and a state are jobs.
LEMMA JobsFacts ==
  /\ \A j \in Jobs : Ident(j) \in Idents /\ j[2] \in StateIds
  /\ \A I \in SUBSET Idents, s \in StateIds : I \X {s} \subseteq Jobs
  /\ \A I \in SUBSET Idents, s \in StateIds :
       \A j \in I \X {s} : Ident(j) \in I /\ j[2] = s
  BY DEF Jobs, Ident

LEMMA MakeJobsType ==
  ASSUME TypeOK, NEW I \in SUBSET Idents, NEW s \in StateIds,
         NEW conf \in [Idents -> Periods \cup {Absent}], MakeJobs(I, s, conf)
  PROVE  /\ made' \in SUBSET Jobs
         /\ cfg' \in [Jobs -> Periods \cup {Absent}]
         /\ own' \in [Jobs -> Periods \cup {Absent}]
         /\ checkTime' \in [Jobs -> Nat]
         /\ cancelled' \in [Jobs -> BOOLEAN]
         /\ spawned' \in SUBSET Jobs /\ inflight' \in SUBSET Jobs
<1>1. made' \in SUBSET Jobs
  BY JobsFacts DEF MakeJobs, TypeOK
<1>2. cfg' \in [Jobs -> Periods \cup {Absent}]
  BY JobsFacts DEF MakeJobs, TypeOK
<1>3. own' \in [Jobs -> Periods \cup {Absent}]
  BY JobsFacts DEF MakeJobs, TypeOK
<1>4. checkTime' \in [Jobs -> Nat]
  BY DEF MakeJobs, TypeOK
<1>5. cancelled' \in [Jobs -> BOOLEAN] /\ spawned' \in SUBSET Jobs /\ inflight' \in SUBSET Jobs
  BY DEF MakeJobs, TypeOK
<1> QED
  BY <1>1, <1>2, <1>3, <1>4, <1>5

\* Every step keeps the types.
LEMMA TypeStep == TypeInv /\ [Next]_vars => TypeInv'
<1> SUFFICES ASSUME TypeInv, [Next]_vars PROVE TypeInv'
  OBVIOUS
<1> USE StateIdsFacts
<1> USE DEF envVars, sigVars, stateVars, jobVars, loopVars, reloadVars, mainVars
<1>1. ASSUME NEW i \in Idents, Add(i) PROVE TypeInv'
  BY <1>1, ConfigsAssumption DEF TypeInv, TypeOK, Add
<1>2. CASE Start
  <2> DEFINE T == Tasks(tasks[cur])
  <2>1. T \in SUBSET Idents /\ T \X {cur} \subseteq Jobs
    BY JobsFacts DEF TypeInv, TypeOK, Tasks
  <2>2. MakeJobs(T, cur, tasks[cur])
    BY <1>2 DEF Start
  <2>3. tasks[cur] \in [Idents -> Periods \cup {Absent}] /\ cur \in StateIds
    BY DEF TypeInv, TypeOK
  <2> HIDE DEF T
  <2>4. /\ made' \in SUBSET Jobs
        /\ cfg' \in [Jobs -> Periods \cup {Absent}]
        /\ own' \in [Jobs -> Periods \cup {Absent}]
        /\ checkTime' \in [Jobs -> Nat]
        /\ cancelled' \in [Jobs -> BOOLEAN]
        /\ spawned' \in SUBSET Jobs /\ inflight' \in SUBSET Jobs
    BY <2>1, <2>2, <2>3, MakeJobsType DEF TypeInv
  <2>5. queue' \in [StateIds -> SUBSET Jobs]
    BY <1>2, <2>1 DEF TypeInv, TypeOK, Start, T
  <2> QED
    BY <1>2, <2>4, <2>5 DEF TypeInv, TypeOK, Start, Statuses, LoopPcs, MainPcs
<1>3. CASE Cancel
  BY <1>3 DEF TypeInv, TypeOK, Cancel
<1>4. CASE Stop
  BY <1>4 DEF TypeInv, TypeOK, Stop, Statuses, MainPcs
<1>5. CASE WaitDrain
  BY <1>5 DEF TypeInv, TypeOK, WaitDrain, MainPcs
<1>6. CASE WaitFinish
  BY <1>6 DEF TypeInv, TypeOK, WaitFinish, MainPcs, Statuses
<1>7. CASE Clock
  BY <1>7 DEF TypeInv, TypeOK, Clock
<1>8. CASE Fire
  BY <1>8 DEF TypeInv, TypeOK, Fire
<1>9. CASE LoopStart
  BY <1>9 DEF TypeInv, TypeOK, LoopStart, LoopPcs, Statuses
<1>10. CASE LoopCheck
  BY <1>10 DEF TypeInv, TypeOK, LoopCheck, LoopPcs
<1>11. CASE LoopDone
  BY <1>11 DEF TypeInv, TypeOK, LoopDone, LoopPcs
<1>12. CASE LoopTick
  BY <1>12 DEF TypeInv, TypeOK, LoopTick, LoopPcs
<1>13. CASE LoopAcquire
  BY <1>13 DEF TypeInv, TypeOK, LoopAcquire, LoopPcs, LoopHolding
<1>14. CASE LoopSkip
  BY <1>14 DEF TypeInv, TypeOK, LoopSkip, LoopPcs, ForgetTick
<1>15. CASE LoopPop
  BY <1>15 DEF TypeInv, TypeOK, LoopPop, LoopPcs, LoopHolding, PopUntil
<1>16. CASE LoopSpawn
  BY <1>16 DEF TypeInv, TypeOK, LoopSpawn, LoopPcs, LoopHolding
<1>17. CASE LoopPush
  <2>1. \A j \in Jobs : checkTime[j] + cfg[j] \in Nat
    <3>1. \A j \in Jobs : checkTime[j] \in Nat /\ cfg[j] \in Periods \cup {Absent}
      BY DEF TypeInv, TypeOK
    <3>2. \A m, n \in Nat : m + n \in Nat
      OBVIOUS
    <3> QED
      BY <3>1, <3>2, PeriodsFacts
  <2>2. checkTime' \in [Jobs -> Nat]
    BY <1>17, <2>1 DEF TypeInv, TypeOK, LoopPush
  <2> QED
    BY <1>17, <2>2 DEF TypeInv, TypeOK, LoopPush, LoopPcs, LoopHolding
<1>18. CASE LoopRelease
  BY <1>18 DEF TypeInv, TypeOK, LoopRelease, LoopPcs, ForgetTick
<1>19. CASE Signal
  <2>1. sig' \in {0} \cup StateIds /\ nsig' \in 0 .. MaxReloads
    BY <1>19, BoundsAssumption DEF TypeInv, TypeOK, Signal, StateIds
  <2> QED
    BY <1>19, <2>1 DEF TypeInv, TypeOK, Signal
<1>20. CASE ReloaderExit
  BY <1>20 DEF TypeInv, TypeOK, ReloaderExit
<1>21. ASSUME NEW f \in Configs \cup BadConfigs, Edit(f) PROVE TypeInv'
  BY <1>21 DEF TypeInv, TypeOK, Edit
<1>22. ASSUME NEW j \in Jobs, RunBegin(j) \/ RunEnd(j) PROVE TypeInv'
  BY <1>22 DEF TypeInv, TypeOK, RunBegin, RunEnd
<1>23. ASSUME NEW r \in Reloaders, Spawn(r) PROVE TypeInv'
  BY <1>23 DEF TypeInv, TypeOK, Spawn, ReloadPcs
<1>24. ASSUME NEW r \in Reloaders, ReloadLoad(r) PROVE TypeInv'
  <2>1. CASE file \in BadConfigs
    <3>1. NoTasks \in [Idents -> Periods \cup {Absent}]
      BY DEF NoTasks
    <3>2. rconf' \in [Reloaders -> [Idents -> Periods \cup {Absent}]]
      BY <1>24, <2>1, <3>1 DEF TypeInv, TypeOK, ReloadLoad, ReloadReturn
    <3> QED
      BY <1>24, <2>1, <3>2 DEF TypeInv, TypeOK, ReloadLoad, ReloadPcs, ReloadReturn
  <2>2. CASE file \notin BadConfigs
    <3>1. rconf' \in [Reloaders -> [Idents -> Periods \cup {Absent}]]
      <4>1. file \in [Idents -> Periods \cup {Absent}]
        BY <2>2, ConfigsAssumption DEF TypeInv, TypeOK
      <4>2. /\ rconf \in [Reloaders -> [Idents -> Periods \cup {Absent}]]
            /\ rconf' = [rconf EXCEPT ![r] = file]
        BY <1>24, <2>2 DEF TypeInv, TypeOK, ReloadLoad
      <4> QED
        BY <4>1, <4>2
    <3> QED
      BY <1>24, <2>2, <3>1 DEF TypeInv, TypeOK, ReloadLoad, ReloadPcs
  <2> QED
    BY <2>1, <2>2
<1>25. ASSUME NEW r \in Reloaders, ReloadBegin(r) PROVE TypeInv'
  BY <1>25 DEF TypeInv, TypeOK, ReloadBegin, ReloadPcs, Tasks
<1>26. ASSUME NEW r \in Reloaders, ReloadAcquire(r) PROVE TypeInv'
  BY <1>26 DEF TypeInv, TypeOK, ReloadAcquire, ReloadPcs, ReloadHolding
<1>27. ASSUME NEW r \in Reloaders, ReloadPopAll(r) PROVE TypeInv'
  BY <1>27 DEF TypeInv, TypeOK, ReloadPopAll, ReloadPcs, ReloadHolding
<1>28. ASSUME NEW r \in Reloaders, ReloadRelease(r) PROVE TypeInv'
  BY <1>28 DEF TypeInv, TypeOK, ReloadRelease, ReloadPcs
<1>29. ASSUME NEW r \in Reloaders, ReloadCreate(r) PROVE TypeInv'
  <2>1. /\ todo[r] \in SUBSET Idents
        /\ rnew[r] \in StateIds
        /\ rconf[r] \in [Idents -> Periods \cup {Absent}]
    BY DEF TypeInv, TypeOK
  <2>2. todo[r] \X {rnew[r]} \subseteq Jobs
    BY <2>1, JobsFacts
  <2>3. MakeJobs(todo[r], rnew[r], rconf[r])
    BY <1>29 DEF ReloadCreate
  <2>4. /\ made' \in SUBSET Jobs
        /\ cfg' \in [Jobs -> Periods \cup {Absent}]
        /\ own' \in [Jobs -> Periods \cup {Absent}]
        /\ checkTime' \in [Jobs -> Nat]
        /\ cancelled' \in [Jobs -> BOOLEAN]
        /\ spawned' \in SUBSET Jobs /\ inflight' \in SUBSET Jobs
    BY <2>1, <2>3, MakeJobsType DEF TypeInv
  <2>5. queue' \in [StateIds -> SUBSET Jobs]
    BY <1>29, <2>2 DEF TypeInv, TypeOK, ReloadCreate
  <2> QED
    BY <1>29, <2>4, <2>5 DEF TypeInv, TypeOK, ReloadCreate, ReloadPcs
<1>30. ASSUME NEW r \in Reloaders, ReloadInstall(r) PROVE TypeInv'
  BY <1>30 DEF TypeInv, TypeOK, ReloadInstall, ReloadPcs, ReloadReturn, NoTasks
<1>31. ASSUME NEW r \in Reloaders, NEW j \in Jobs, ReloadKeep(r, j) PROVE TypeInv'
  <2>1. Ident(j) \in Idents
    BY JobsFacts
  <2> QED
    BY ZenonT(30), <1>31, <2>1 DEF TypeInv, TypeOK, ReloadKeep
<1>32. ASSUME NEW r \in Reloaders, NEW j \in Jobs, ReloadStop(r, j) PROVE TypeInv'
  BY <1>32 DEF TypeInv, TypeOK, ReloadStop
<1>33. CASE UNCHANGED vars
  BY <1>33 DEF TypeInv, TypeOK, vars
<1> QED
  BY <1>1, <1>2, <1>3, <1>4, <1>5, <1>6, <1>7, <1>8, <1>9, <1>10, <1>11, 
     <1>12, <1>13, <1>14, <1>15, <1>16, <1>17, <1>18, <1>19, <1>20, 
     <1>21, <1>22, <1>23, <1>24, <1>25, <1>26, <1>27, <1>28, <1>29, 
     <1>30, <1>31, <1>32, <1>33
  DEF Next, MainNext, LoopNext, ReloadNext, Terminated

LEMMA TypeInvariant == Spec => []TypeInv
<1>1. Init => TypeInv
  BY TypeInit
<1>2. TypeInv /\ [Next]_vars => TypeInv'
  BY TypeStep
<1> QED
  BY <1>1, <1>2, PTL DEF Spec

\* Every variable of the scheduler keeps its type: in particular a reload never
\* allocates a state beyond those the delivered signals account for, and the
\* tasks main registers come from a file that loaded.
THEOREM TypeCorrect == Spec => []TypeOK
<1>1. TypeInv => TypeOK
  BY DEF TypeInv
<1> QED
  BY <1>1, TypeInvariant, PTL

(***************************************************************************)
(* The flag jobAtomic excludes.  FlagExclusion is inductive on its own:    *)
(* whoever raises the flag of a state found it down, so nobody held it,    *)
(* and a holder's state does not change while it holds.                    *)
(***************************************************************************)

\* Steps that touch neither the flag nor who holds it.
LEMMA FlagFrame ==
  ASSUME FlagExclusion, UNCHANGED busy,
         \A s \in StateIds : LoopHolds(s)' <=> LoopHolds(s),
         \A r \in Reloaders, s \in StateIds : ReloadHolds(r, s)' <=> ReloadHolds(r, s)
  PROVE  FlagExclusion'
  BY DEF FlagExclusion

LEMMA FlagLoopFrame ==
  ASSUME FlagExclusion, UNCHANGED busy, UNCHANGED <<rpc, rold>>,
         \A s \in StateIds : LoopHolds(s)' <=> LoopHolds(s)
  PROVE  FlagExclusion'
  BY FlagFrame DEF ReloadHolds

LEMMA FlagReloadFrame ==
  ASSUME FlagExclusion, UNCHANGED busy, UNCHANGED <<lpc, lstate>>,
         \A r \in Reloaders, s \in StateIds : ReloadHolds(r, s)' <=> ReloadHolds(r, s)
  PROVE  FlagExclusion'
  BY FlagFrame DEF LoopHolds

LEMMA FlagStep == TypeInv /\ FlagExclusion /\ [Next]_vars => FlagExclusion'
<1> SUFFICES ASSUME TypeInv, FlagExclusion, [Next]_vars PROVE FlagExclusion'
  OBVIOUS
<1> USE DEF envVars, sigVars, stateVars, jobVars, loopVars, reloadVars, mainVars
<1>1. ASSUME NEW i \in Idents, Add(i) PROVE FlagExclusion'
  BY <1>1, FlagLoopFrame DEF Add, LoopHolds
<1>2. CASE Stop
  BY <1>2, FlagLoopFrame DEF Stop, LoopHolds
<1>3. CASE WaitDrain
  BY <1>3, FlagLoopFrame DEF WaitDrain, LoopHolds
<1>4. CASE WaitFinish
  BY <1>4, FlagLoopFrame DEF WaitFinish, LoopHolds
<1>5. CASE Cancel
  BY <1>5, FlagLoopFrame DEF Cancel, LoopHolds
<1>6. CASE Clock
  BY <1>6, FlagLoopFrame DEF Clock, LoopHolds
<1>7. CASE Fire
  BY <1>7, FlagLoopFrame DEF Fire, LoopHolds
<1>8. CASE Signal
  BY <1>8, FlagLoopFrame DEF Signal, LoopHolds
<1>9. CASE ReloaderExit
  BY <1>9, FlagLoopFrame DEF ReloaderExit, LoopHolds
<1>10. CASE Start
  BY <1>10, FlagLoopFrame DEF TypeInv, Start, LoopHolds, LoopHolding
<1>11. CASE LoopStart
  BY <1>11, FlagLoopFrame DEF LoopStart, LoopHolds, LoopHolding
<1>12. CASE LoopCheck
  BY <1>12, FlagLoopFrame DEF LoopCheck, LoopHolds, LoopHolding
<1>13. CASE LoopDone
  BY <1>13, FlagLoopFrame DEF LoopDone, LoopHolds, LoopHolding
<1>14. CASE LoopTick
  BY <1>14, FlagLoopFrame DEF LoopTick, LoopHolds, LoopHolding
<1>15. CASE LoopSkip
  BY <1>15, FlagLoopFrame DEF LoopSkip, LoopHolds, LoopHolding, ForgetTick
<1>16. CASE LoopPop
  BY <1>16, FlagLoopFrame DEF LoopPop, LoopHolds, LoopHolding
<1>17. CASE LoopSpawn
  BY <1>17, FlagLoopFrame DEF LoopSpawn, LoopHolds, LoopHolding
<1>18. CASE LoopPush
  BY <1>18, FlagLoopFrame DEF LoopPush, LoopHolds, LoopHolding
<1>19. ASSUME NEW f \in Configs \cup BadConfigs, Edit(f) PROVE FlagExclusion'
  BY <1>19, FlagLoopFrame DEF Edit, LoopHolds
<1>20. ASSUME NEW j \in Jobs, RunBegin(j) \/ RunEnd(j) PROVE FlagExclusion'
  BY <1>20, FlagLoopFrame DEF RunBegin, RunEnd, LoopHolds
<1>21. ASSUME NEW r \in Reloaders, Spawn(r) PROVE FlagExclusion'
  BY <1>21, FlagReloadFrame DEF TypeInv, TypeOK, Spawn, ReloadHolds, ReloadHolding
<1>22. ASSUME NEW r \in Reloaders, ReloadLoad(r) PROVE FlagExclusion'
  BY <1>22, FlagReloadFrame DEF TypeInv, TypeOK, ReloadLoad, ReloadHolds, ReloadHolding, ReloadReturn
<1>23. ASSUME NEW r \in Reloaders, ReloadBegin(r) PROVE FlagExclusion'
  BY <1>23, FlagReloadFrame DEF TypeInv, TypeOK, ReloadBegin, ReloadHolds, ReloadHolding
<1>24. ASSUME NEW r \in Reloaders, ReloadPopAll(r) PROVE FlagExclusion'
  BY <1>24, FlagReloadFrame DEF TypeInv, TypeOK, ReloadPopAll, ReloadHolds, ReloadHolding
<1>25. ASSUME NEW r \in Reloaders, ReloadCreate(r) PROVE FlagExclusion'
  BY <1>25, FlagReloadFrame DEF TypeInv, TypeOK, ReloadCreate, ReloadHolds, ReloadHolding
<1>26. ASSUME NEW r \in Reloaders, ReloadInstall(r) PROVE FlagExclusion'
  BY <1>26, FlagReloadFrame DEF TypeInv, TypeOK, ReloadInstall, ReloadHolds, ReloadHolding, ReloadReturn
<1>27. ASSUME NEW r \in Reloaders, NEW j \in Jobs, ReloadKeep(r, j) PROVE FlagExclusion'
  BY <1>27, FlagReloadFrame DEF ReloadKeep, ReloadHolds
<1>28. ASSUME NEW r \in Reloaders, NEW j \in Jobs, ReloadStop(r, j) PROVE FlagExclusion'
  BY <1>28, FlagReloadFrame DEF ReloadStop, ReloadHolds
<1>29. CASE LoopAcquire
  BY <1>29 DEF TypeInv, TypeOK, FlagExclusion, LoopAcquire, LoopHolds, LoopHolding, ReloadHolds
<1>30. CASE LoopRelease
  BY <1>30 DEF TypeInv, TypeOK, FlagExclusion, LoopRelease, LoopHolds, LoopHolding, ReloadHolds, ForgetTick
<1>31. ASSUME NEW r \in Reloaders, ReloadAcquire(r) PROVE FlagExclusion'
  BY <1>31 DEF TypeInv, TypeOK, FlagExclusion, ReloadAcquire, LoopHolds, ReloadHolds, ReloadHolding
<1>32. ASSUME NEW r \in Reloaders, ReloadRelease(r) PROVE FlagExclusion'
  BY <1>32 DEF TypeInv, TypeOK, FlagExclusion, ReloadRelease, LoopHolds, ReloadHolds, ReloadHolding
<1>33. CASE UNCHANGED vars
  BY <1>33, FlagLoopFrame DEF vars, LoopHolds
<1> QED
  BY <1>1, <1>2, <1>3, <1>4, <1>5, <1>6, <1>7, <1>8, <1>9, <1>10, <1>11, 
     <1>12, <1>13, <1>14, <1>15, <1>16, <1>17, <1>18, <1>19, <1>20, 
     <1>21, <1>22, <1>23, <1>24, <1>25, <1>26, <1>27, <1>28, <1>29, 
     <1>30, <1>31, <1>32, <1>33
  DEF Next, MainNext, LoopNext, ReloadNext, Terminated

\* jobAtomic gives mutual exclusion between the run loop and any number of
\* concurrent reloads, on every state that was ever installed.
THEOREM FlagExcludes == Spec => []FlagExclusion
<1>1. Init => FlagExclusion
  BY DEF Init, FlagExclusion, LoopHolds, LoopHolding, ReloadHolds, ReloadHolding
<1>2. TypeInv /\ FlagExclusion /\ [Next]_vars => FlagExclusion'
  BY FlagStep
<1> QED
  BY <1>1, <1>2, TypeInvariant, PTL DEF Spec

(***************************************************************************)
(* A job is in one place.  The strengthening says why the jobs a reload    *)
(* makes are new: the states that reloads in progress, and the one the     *)
(* pending signal will start, are building have distinct addresses, and no *)
(* job has been made yet for a state whose reload has not come to creating *)
(* its jobs.                                                               *)
(***************************************************************************)

Building(r) == rpc[r] \in ReloadPcs \ {"idle", "install"}

Addresses ==
  /\ sig # 0 => sig = nsig + 1
  /\ \A r \in Reloaders : rpc[r] # "idle" => rnew[r] <= nsig + 1 /\ rnew[r] # sig
  /\ \A q, r \in Reloaders :
       rpc[q] # "idle" /\ rpc[r] # "idle" /\ rnew[q] = rnew[r] => q = r

FreshJobs ==
  /\ \A j \in made : j[2] <= nsig + 1 /\ j[2] # sig
  /\ \A j \in made, r \in Reloaders : Building(r) => j[2] # rnew[r]
  /\ \A j \in Jobs : cancelled[j] => j \in made

PlaceInv == JobInOnePlace /\ Addresses /\ FreshJobs

LEMMA AddressTypes ==
  ASSUME TypeOK
  PROVE  /\ nsig \in Nat
         /\ sig \in Nat
         /\ \A r \in Reloaders : rnew[r] \in StateIds /\ rnew[r] \in Nat
<1>1. nsig \in 0 .. MaxReloads /\ sig \in {0} \cup StateIds
  BY DEF TypeOK
<1>2. nsig \in Nat
  BY <1>1, BoundsAssumption
<1>3. sig \in Nat
  BY <1>1, StateIdsFacts
<1>4. \A r \in Reloaders : rnew[r] \in StateIds
  BY DEF TypeOK
<1> QED
  BY <1>2, <1>3, <1>4, StateIdsFacts

LEMMA AddressesStep == TypeInv /\ Addresses /\ [Next]_vars => Addresses'
<1> SUFFICES ASSUME TypeInv, Addresses, [Next]_vars PROVE Addresses'
  OBVIOUS
<1> USE DEF envVars, sigVars, stateVars, jobVars, loopVars, reloadVars, mainVars
<1>1. ASSUME UNCHANGED <<sig, nsig, rpc, rnew>> PROVE Addresses'
  BY <1>1 DEF Addresses
<1>2. ASSUME NEW r \in Reloaders, UNCHANGED <<sig, nsig, rnew>>, rpc[r] # "idle",
             NEW p, rpc' = [rpc EXCEPT ![r] = p]
      PROVE  Addresses'
  BY <1>2 DEF Addresses, TypeInv, TypeOK
<1>3. ASSUME NEW r \in Reloaders, UNCHANGED <<sig, nsig>>, ReloadReturn(r)
      PROVE  Addresses'
  BY <1>3 DEF Addresses, TypeInv, TypeOK, ReloadReturn
<1>4. CASE Signal
  <2>1. nsig \in Nat /\ \A r \in Reloaders : rnew[r] \in Nat
    BY AddressTypes DEF TypeInv
  <2> QED
    BY <1>4, <2>1 DEF Addresses, Signal
<1>5. ASSUME NEW r \in Reloaders, Spawn(r) PROVE Addresses'
  <2>1. nsig \in Nat /\ \A q \in Reloaders : rnew[q] \in StateIds /\ rnew[q] \in Nat
    BY AddressTypes DEF TypeInv
  <2>2. /\ rnew' = [rnew EXCEPT ![r] = sig]
        /\ rpc' = [rpc EXCEPT ![r] = "load"]
        /\ sig' = 0 /\ nsig' = nsig /\ sig = nsig + 1
    BY <1>5 DEF Spawn, Addresses
  <2>3. \A q \in Reloaders :
          /\ q # r => rnew'[q] = rnew[q] /\ rpc'[q] = rpc[q]
          /\ q = r => rnew'[q] = sig /\ rpc'[q] = "load"
    BY <2>2 DEF TypeInv, TypeOK
  <2>4. \A q \in Reloaders : rpc'[q] # "idle" => rnew'[q] <= nsig' + 1 /\ rnew'[q] # sig'
    BY <2>1, <2>2, <2>3 DEF Addresses, StateIds
  <2>5. \A p, q \in Reloaders :
          rpc'[p] # "idle" /\ rpc'[q] # "idle" /\ rnew'[p] = rnew'[q] => p = q
    BY <2>3 DEF Addresses
  <2> QED
    BY <2>2, <2>4, <2>5 DEF Addresses
<1>6. ASSUME NEW r \in Reloaders, ReloadNext(r) PROVE Addresses'
  <2>1. CASE Spawn(r)
    BY <2>1, <1>5
  <2>2. CASE ReloadLoad(r)
    BY <2>2, <1>2, <1>3 DEF ReloadLoad
  <2>3. CASE ReloadBegin(r)
    BY <2>3, <1>2 DEF ReloadBegin
  <2>4. CASE ReloadAcquire(r)
    BY <2>4, <1>2 DEF ReloadAcquire
  <2>5. CASE ReloadPopAll(r)
    BY <2>5, <1>2 DEF ReloadPopAll
  <2>6. CASE ReloadRelease(r)
    BY <2>6, <1>2 DEF ReloadRelease
  <2>7. CASE ReloadCreate(r)
    BY <2>7, <1>2 DEF ReloadCreate
  <2>8. CASE ReloadInstall(r)
    BY <2>8, <1>3 DEF ReloadInstall
  <2>9. ASSUME NEW j \in Jobs, ReloadKeep(r, j) \/ ReloadStop(r, j) PROVE Addresses'
    BY <2>9, <1>1 DEF ReloadKeep, ReloadStop
  <2> QED
    BY <1>6, <2>1, <2>2, <2>3, <2>4, <2>5, <2>6, <2>7, <2>8, <2>9 DEF ReloadNext
<1>7. CASE MainNext \/ Cancel \/ Clock \/ Fire \/ ReloaderExit \/ Terminated
  BY <1>7, <1>1
  DEF MainNext, Add, Start, Stop, WaitDrain, WaitFinish, Cancel, Clock, Fire,
      ReloaderExit, Terminated, vars
<1>8. CASE LoopNext
  BY <1>8, <1>1
  DEF LoopNext, LoopStart, LoopCheck, LoopDone, LoopTick, LoopAcquire, LoopSkip,
      LoopPop, LoopSpawn, LoopPush, LoopRelease
<1>9. ASSUME NEW f, Edit(f) PROVE Addresses'
  BY <1>9, <1>1 DEF Edit
<1>10. ASSUME NEW j \in Jobs, RunBegin(j) \/ RunEnd(j) PROVE Addresses'
  BY <1>10, <1>1 DEF RunBegin, RunEnd
<1>11. CASE UNCHANGED vars
  BY <1>11, <1>1 DEF vars
<1> QED
  BY <1>4, <1>6, <1>7, <1>8, <1>9, <1>10, <1>11 DEF Next

LEMMA FreshStep ==
  TypeInv /\ PlaceInv /\ [Next]_vars => FreshJobs'
<1> SUFFICES ASSUME TypeInv, PlaceInv, [Next]_vars PROVE FreshJobs'
  OBVIOUS
<1> USE DEF envVars, sigVars, stateVars, jobVars, loopVars, reloadVars, mainVars
<1>a. /\ nsig \in Nat /\ sig \in Nat
      /\ \A r \in Reloaders : rnew[r] \in StateIds /\ rnew[r] \in Nat
      /\ \A j \in Jobs : j[2] \in Nat
      /\ made \subseteq Jobs
  BY AddressTypes, JobsFacts, StateIdsFacts DEF TypeInv, TypeOK
<1>1. ASSUME UNCHANGED <<sig, nsig, rpc, rnew, made, cancelled>> PROVE FreshJobs'
  BY <1>1 DEF PlaceInv, FreshJobs, Building
<1>2. ASSUME NEW r \in Reloaders, UNCHANGED <<sig, nsig, rnew, made, cancelled>>,
             Building(r), NEW p, rpc' = [rpc EXCEPT ![r] = p]
      PROVE  FreshJobs'
  BY <1>2 DEF PlaceInv, FreshJobs, Building, TypeInv, TypeOK
<1>3. ASSUME NEW r \in Reloaders, UNCHANGED <<sig, nsig, made, cancelled>>,
             ReloadReturn(r)
      PROVE  FreshJobs'
  BY <1>3 DEF PlaceInv, FreshJobs, Building, TypeInv, TypeOK, ReloadReturn
<1>4. CASE Signal
  <2>1. UNCHANGED <<rpc, rnew, made, cancelled>> /\ nsig <= nsig'
    BY <1>4, <1>a DEF Signal
  <2>2. nsig' \in Nat /\ \A j \in made : j[2] <= nsig' + 1 /\ j[2] # sig'
    BY <1>4, <1>a DEF Signal, PlaceInv, FreshJobs
  <2> QED
    BY <2>1, <2>2 DEF PlaceInv, FreshJobs, Building
<1>5. ASSUME NEW r \in Reloaders, Spawn(r) PROVE FreshJobs'
  <2>1. /\ rnew' = [rnew EXCEPT ![r] = sig]
        /\ rpc' = [rpc EXCEPT ![r] = "load"]
        /\ sig' = 0 /\ UNCHANGED <<nsig, made, cancelled>>
    BY <1>5 DEF Spawn
  <2>2. \A j \in made : j[2] <= nsig' + 1 /\ j[2] # sig'
    <3>1. \A j \in made : j[2] \in StateIds
      BY <1>a, JobsFacts
    <3> QED
      BY <2>1, <3>1, BoundsAssumption DEF PlaceInv, FreshJobs, StateIds
  <2>3. \A q \in Reloaders :
          /\ q # r => rnew'[q] = rnew[q] /\ rpc'[q] = rpc[q]
          /\ q = r => rnew'[q] = sig
    BY <2>1 DEF TypeInv, TypeOK
  <2>4. \A j \in made, q \in Reloaders : Building(q)' => j[2] # rnew'[q]
    BY <2>3 DEF PlaceInv, FreshJobs, Building
  <2> QED
    BY <2>1, <2>2, <2>4 DEF PlaceInv, FreshJobs
<1>6. ASSUME NEW r \in Reloaders, ReloadCreate(r) PROVE FreshJobs'
  <2>1. /\ made' = made \cup (todo[r] \X {rnew[r]})
        /\ rpc' = [rpc EXCEPT ![r] = "install"]
        /\ rpc[r] = "create"
        /\ UNCHANGED <<sig, nsig, rnew, cancelled>>
    BY <1>6 DEF ReloadCreate, MakeJobs
  <2>2. \A j \in made' : j \in made \/ j[2] = rnew[r]
    BY <2>1
  <2>3. \A q \in Reloaders : Building(q)' => q # r /\ Building(q)
    BY <2>1 DEF Building, TypeInv, TypeOK
  <2>4. \A q \in Reloaders : Building(q) /\ q # r => rnew[q] # rnew[r]
    BY <2>1 DEF PlaceInv, Addresses, Building
  <2>5. \A j \in made' : j[2] <= nsig + 1 /\ j[2] # sig
    BY <2>1, <2>2 DEF PlaceInv, Addresses, FreshJobs
  <2>6. \A j \in made', q \in Reloaders : Building(q)' => j[2] # rnew'[q]
    BY <2>1, <2>2, <2>3, <2>4 DEF PlaceInv, FreshJobs
  <2> QED
    BY <2>1, <2>5, <2>6 DEF PlaceInv, FreshJobs
<1>7. ASSUME NEW r \in Reloaders, NEW j \in Jobs, ReloadStop(r, j) PROVE FreshJobs'
  <2>1. /\ cancelled' = [cancelled EXCEPT ![j] = TRUE]
        /\ j \in hand[r]
        /\ UNCHANGED <<sig, nsig, rpc, rnew, made>>
    BY <1>7 DEF ReloadStop, First
  <2>2. j \in made
    BY <2>1 DEF PlaceInv, JobInOnePlace, Held
  <2>3. \A k \in Jobs : cancelled'[k] => cancelled[k] \/ k = j
    BY <2>1 DEF TypeInv, TypeOK
  <2> QED
    BY <2>1, <2>2, <2>3 DEF PlaceInv, FreshJobs, Building
<1>8. ASSUME NEW r \in Reloaders, ReloadNext(r) PROVE FreshJobs'
  <2> USE DEF Building, ReloadPcs, ReloadHolding
  <2>1. CASE Spawn(r)
    BY <2>1, <1>5
  <2>2. CASE ReloadLoad(r)
    BY <2>2, <1>2, <1>3 DEF ReloadLoad
  <2>3. CASE ReloadBegin(r)
    BY <2>3, <1>2 DEF ReloadBegin
  <2>4. CASE ReloadAcquire(r)
    BY <2>4, <1>2 DEF ReloadAcquire
  <2>5. CASE ReloadPopAll(r)
    BY <2>5, <1>2 DEF ReloadPopAll
  <2>6. CASE ReloadRelease(r)
    BY <2>6, <1>2 DEF ReloadRelease
  <2>7. CASE ReloadCreate(r)
    BY <2>7, <1>6
  <2>8. CASE ReloadInstall(r)
    BY <2>8, <1>3 DEF ReloadInstall
  <2>9. ASSUME NEW j \in Jobs, ReloadKeep(r, j) PROVE FreshJobs'
    BY <2>9, <1>1 DEF ReloadKeep
  <2>10. ASSUME NEW j \in Jobs, ReloadStop(r, j) PROVE FreshJobs'
    BY <2>10, <1>7
  <2> QED
    BY <1>8, <2>1, <2>2, <2>3, <2>4, <2>5, <2>6, <2>7, <2>8, <2>9, <2>10
    DEF ReloadNext
<1>9. CASE Start
  <2>1. /\ made' = made \cup (Tasks(tasks[cur]) \X {cur})
        /\ UNCHANGED <<sig, nsig, rpc, rnew, cancelled>>
    BY <1>9 DEF Start, MakeJobs
  <2>2. /\ made = {} /\ cur = 1 /\ sig = 0
        /\ \A r \in Reloaders : rpc[r] = "idle"
    BY <1>9 DEF Start, TypeInv
  <2>3. \A j \in made' : j[2] = 1
    BY <2>1, <2>2
  <2> QED
    BY <2>1, <2>2, <2>3, <1>a DEF PlaceInv, FreshJobs, Building
<1>10. CASE (\E i \in Idents : Add(i)) \/ Stop \/ WaitDrain \/ WaitFinish \/ Cancel
            \/ Clock \/ Fire \/ ReloaderExit \/ Terminated
  BY <1>10, <1>1
  DEF Add, Stop, WaitDrain, WaitFinish, Cancel, Clock, Fire, ReloaderExit,
      Terminated, vars
<1>11. CASE LoopNext
  BY <1>11, <1>1
  DEF LoopNext, LoopStart, LoopCheck, LoopDone, LoopTick, LoopAcquire, LoopSkip,
      LoopPop, LoopSpawn, LoopPush, LoopRelease
<1>12. ASSUME NEW f, Edit(f) PROVE FreshJobs'
  BY <1>12, <1>1 DEF Edit
<1>13. ASSUME NEW j \in Jobs, RunBegin(j) \/ RunEnd(j) PROVE FreshJobs'
  BY <1>13, <1>1 DEF RunBegin, RunEnd
<1>14. CASE UNCHANGED vars
  BY <1>14, <1>1 DEF vars
<1> QED
  BY <1>4, <1>8, <1>9, <1>10, <1>11, <1>12, <1>13, <1>14 DEF Next, MainNext

\* Only jobs leave their place; none is made or stopped.
LEMMA PlaceShrinks ==
  ASSUME JobInOnePlace, UNCHANGED <<made, cancelled>>,
         \A s \in StateIds : queue'[s] \subseteq queue[s],
         \A r \in Reloaders : hand'[r] \subseteq hand[r],
         batch' \subseteq batch
  PROVE  JobInOnePlace'
  BY DEF JobInOnePlace, Held

\* New jobs, held by nobody, are pushed to the queue of one state.
LEMMA PlaceNew ==
  ASSUME TypeOK, JobInOnePlace, FreshJobs, NEW new \in SUBSET Jobs,
         NEW t \in StateIds, new \cap made = {},
         made' = made \cup new, UNCHANGED <<cancelled, batch, hand>>,
         queue' = [queue EXCEPT ![t] = @ \cup new]
  PROVE  JobInOnePlace'
<1>1. \A s \in StateIds, j \in Jobs : j \in queue'[s] <=> j \in queue[s] \/ (s = t /\ j \in new)
  BY DEF TypeOK
<1>2. \A j \in new : ~Held(j) /\ ~cancelled[j]
  BY DEF JobInOnePlace, FreshJobs
<1>3. \A j \in Jobs : Held(j)' => Held(j) \/ j \in new
  BY <1>1 DEF Held
<1> QED
  BY <1>1, <1>2, <1>3 DEF JobInOnePlace, Held

LEMMA PlaceStep ==
  TypeInv /\ PlaceInv /\ [Next]_vars => JobInOnePlace'
<1> SUFFICES ASSUME TypeInv, PlaceInv, [Next]_vars PROVE JobInOnePlace'
  OBVIOUS
<1> USE DEF envVars, sigVars, stateVars, jobVars, loopVars, reloadVars, mainVars
<1>a. JobInOnePlace /\ FreshJobs /\ TypeOK
  BY DEF PlaceInv, TypeInv
<1>1. ASSUME UNCHANGED <<queue, batch, hand, made, cancelled>> PROVE JobInOnePlace'
  BY <1>1, <1>a, PlaceShrinks
<1>2. CASE Start
  <2>1. /\ Tasks(tasks[cur]) \X {cur} \subseteq Jobs /\ cur \in StateIds
        /\ made = {}
    BY <1>2, JobsFacts DEF TypeInv, TypeOK, Tasks, Start
  <2> QED
    BY <1>2, <1>a, <2>1, PlaceNew DEF Start, MakeJobs
<1>3. CASE WaitDrain
  BY <1>3, <1>a, PlaceShrinks DEF WaitDrain, TypeOK
<1>4. CASE LoopPop
  <2>1. /\ batch' \subseteq queue[lstate]
        /\ \A s \in StateIds : queue'[s] = IF s = lstate THEN queue[s] \ batch' ELSE queue[s]
        /\ UNCHANGED <<hand, made, cancelled>> /\ lstate \in StateIds
    BY <1>4 DEF LoopPop, PopUntil, TypeInv, TypeOK
  <2> QED
    BY <2>1, <1>a DEF JobInOnePlace, Held
<1>5. CASE LoopPush
  <2>1. /\ batch' = {}
        /\ \A s \in StateIds : queue'[s] = IF s = lstate THEN queue[s] \cup batch ELSE queue[s]
        /\ UNCHANGED <<hand, made, cancelled>> /\ lstate \in StateIds
    BY <1>5 DEF LoopPush, TypeInv, TypeOK
  <2> QED
    BY <2>1, <1>a DEF JobInOnePlace, Held
<1>6. ASSUME NEW r \in Reloaders, ReloadPopAll(r) PROVE JobInOnePlace'
  <2>1. /\ rold[r] \in StateIds
        /\ \A q \in Reloaders : hand'[q] = IF q = r THEN queue[rold[r]] ELSE hand[q]
        /\ \A s \in StateIds : queue'[s] = IF s = rold[r] THEN {} ELSE queue[s]
        /\ UNCHANGED <<batch, made, cancelled>>
    BY <1>6 DEF ReloadPopAll, TypeInv, TypeOK
  <2> QED
    BY <2>1, <1>a DEF JobInOnePlace, Held
<1>7. ASSUME NEW r \in Reloaders, NEW j \in Jobs, ReloadKeep(r, j) PROVE JobInOnePlace'
  <2>1. /\ rnew[r] \in StateIds /\ j \in hand[r]
        /\ \A q \in Reloaders : hand'[q] = IF q = r THEN hand[q] \ {j} ELSE hand[q]
        /\ \A s \in StateIds : queue'[s] = IF s = rnew[r] THEN queue[s] \cup {j} ELSE queue[s]
        /\ UNCHANGED <<batch, made, cancelled>>
    BY <1>7 DEF ReloadKeep, First, TypeInv, TypeOK
  <2>2. /\ \A s \in StateIds : j \notin queue[s]
        /\ j \notin batch
        /\ \A q \in Reloaders : j \notin hand'[q]
        /\ j \in made /\ ~cancelled[j]
    BY <2>1, <1>a DEF JobInOnePlace, Held
  <2>3. ASSUME NEW k \in Jobs, k # j
        PROVE  /\ \A s \in StateIds : k \in queue'[s] <=> k \in queue[s]
               /\ \A q \in Reloaders : k \in hand'[q] <=> k \in hand[q]
               /\ Held(k)' <=> Held(k)
    <3>1. ASSUME NEW s \in StateIds PROVE k \in queue'[s] <=> k \in queue[s]
      BY <2>1, <2>3
    <3>2. ASSUME NEW q \in Reloaders PROVE k \in hand'[q] <=> k \in hand[q]
      BY <2>1, <2>3
    <3>3. batch' = batch
      BY <2>1
    <3> QED
      BY <3>1, <3>2, <3>3 DEF Held
  <2>4. \A s, t \in StateIds : j \in queue'[s] /\ j \in queue'[t] => s = t
    BY <2>1, <2>2
  <2> QED
    BY <2>1, <2>2, <2>3, <2>4, <1>a DEF JobInOnePlace
<1>8. ASSUME NEW r \in Reloaders, NEW j \in Jobs, ReloadStop(r, j) PROVE JobInOnePlace'
  <2>1. /\ j \in hand[r]
        /\ \A q \in Reloaders : hand'[q] = IF q = r THEN hand[q] \ {j} ELSE hand[q]
        /\ \A k \in Jobs : k # j => cancelled'[k] = cancelled[k]
        /\ UNCHANGED <<queue, batch, made>>
    BY <1>8 DEF ReloadStop, First, TypeInv, TypeOK
  <2>2. \A k \in Jobs : Held(k)' => Held(k) /\ k # j
    <3>1. /\ \A s \in StateIds : j \notin queue[s]
          /\ j \notin batch
          /\ \A q \in Reloaders : j \notin hand'[q]
      BY <2>1, <1>a DEF JobInOnePlace
    <3>2. ~Held(j)'
      BY <2>1, <3>1 DEF Held
    <3>3. \A q \in Reloaders : hand'[q] \subseteq hand[q]
      BY <2>1
    <3> QED
      BY <2>1, <3>2, <3>3 DEF Held
  <2> QED
    BY ZenonT(30), <2>1, <2>2, <1>a DEF JobInOnePlace, Held
<1>9. ASSUME NEW r \in Reloaders, ReloadCreate(r) PROVE JobInOnePlace'
  <2>1. todo[r] \X {rnew[r]} \subseteq Jobs /\ rnew[r] \in StateIds /\ Building(r)
    BY <1>9, JobsFacts
    DEF TypeInv, TypeOK, ReloadCreate, Building, ReloadPcs
  <2>2. (todo[r] \X {rnew[r]}) \cap made = {}
    BY <2>1, <1>a DEF FreshJobs
  <2> QED
    BY <1>9, <1>a, <2>1, <2>2, PlaceNew DEF ReloadCreate, MakeJobs
<1>10. ASSUME NEW r \in Reloaders, ReloadNext(r) PROVE JobInOnePlace'
  <2>1. CASE Spawn(r) \/ ReloadLoad(r) \/ ReloadBegin(r) \/ ReloadAcquire(r)
             \/ ReloadRelease(r) \/ ReloadInstall(r)
    BY <2>1, <1>1
    DEF Spawn, ReloadLoad, ReloadBegin, ReloadAcquire, ReloadRelease, ReloadInstall
  <2> QED
    BY <1>10, <2>1, <1>6, <1>7, <1>8, <1>9 DEF ReloadNext
<1>11. CASE (\E i \in Idents : Add(i)) \/ Stop \/ WaitFinish \/ Cancel
            \/ Clock \/ Fire \/ Signal \/ ReloaderExit \/ Terminated
  BY <1>11, <1>1
  DEF Add, Stop, WaitFinish, Cancel, Clock, Fire, Signal, ReloaderExit, Terminated,
      vars
<1>12. CASE LoopStart \/ LoopCheck \/ LoopDone \/ LoopTick \/ LoopAcquire \/ LoopSkip
            \/ LoopSpawn \/ LoopRelease
  BY <1>12, <1>1
  DEF LoopStart, LoopCheck, LoopDone, LoopTick, LoopAcquire, LoopSkip, LoopSpawn,
      LoopRelease
<1>13. ASSUME NEW f, Edit(f) PROVE JobInOnePlace'
  BY <1>13, <1>1 DEF Edit
<1>14. ASSUME NEW j \in Jobs, RunBegin(j) \/ RunEnd(j) PROVE JobInOnePlace'
  BY <1>14, <1>1 DEF RunBegin, RunEnd
<1>15. CASE UNCHANGED vars
  BY <1>15, <1>1 DEF vars
<1> QED
  BY <1>2, <1>3, <1>4, <1>5, <1>10, <1>11, <1>12, <1>13, <1>14, <1>15
  DEF Next, MainNext, LoopNext

LEMMA PlaceInvariant == Spec => []PlaceInv
<1>1. Init => PlaceInv
  BY DEF Init, PlaceInv, JobInOnePlace, Held, Addresses, FreshJobs, Building
<1>2. TypeInv /\ PlaceInv /\ [Next]_vars => PlaceInv'
  BY PlaceStep, AddressesStep, FreshStep DEF PlaceInv
<1> QED
  BY <1>1, <1>2, TypeInvariant, PTL DEF Spec

\* However many reloads overlap with each other and with the run loop, a Job
\* object is in at most one queue, batch or reload, and a stopped job in none.
THEOREM JobsInOnePlace == Spec => []JobInOnePlace
<1>1. PlaceInv => JobInOnePlace
  BY DEF PlaceInv
<1> QED
  BY <1>1, PlaceInvariant, PTL

(***************************************************************************)
(* The pace of the jobs.  A job that was popped is due at the tick, which  *)
(* is not ahead of the clock; every job that was ever made has a period,   *)
(* because a reload hands on the configuration of configured idents only.  *)
(***************************************************************************)

\* Idents that wait for their job are configured, and none waits outside a reload.
TodoRight(r) ==
  /\ todo[r] \subseteq Tasks(rconf[r])
  /\ rpc[r] \in {"idle", "load", "begin", "install"} => todo[r] = {}

TicksPast ==
  /\ tick # NoTick => tick <= now
  /\ ltick <= now
  /\ lpc \in {"run", "push"} => \A j \in batch : checkTime[j] <= now

PeriodsKnown == \A j \in made : cfg[j] \in Periods

PaceInv ==
  /\ \A r \in Reloaders : TodoRight(r)
  /\ TicksPast
  /\ PeriodsKnown
  /\ \A j \in made : \E p \in Periods : checkTime[j] <= now + p

LEMMA TodoStep ==
  ASSUME TypeInv, \A r \in Reloaders : TodoRight(r), [Next]_vars
  PROVE  \A r \in Reloaders : TodoRight(r)'
<1> USE DEF envVars, sigVars, stateVars, jobVars, loopVars, reloadVars, mainVars
<1>1. ASSUME UNCHANGED <<rpc, rconf, todo>> PROVE \A r \in Reloaders : TodoRight(r)'
  BY <1>1 DEF TodoRight
<1>2. ASSUME NEW q \in Reloaders, NEW r \in Reloaders, ReloadNext(q) PROVE TodoRight(r)'
  <2>1. CASE Spawn(q)
    BY <2>1 DEF Spawn, TodoRight, TypeInv, TypeOK
  <2>2. CASE ReloadLoad(q)
    BY <2>2 DEF ReloadLoad, ReloadReturn, TodoRight, TypeInv, TypeOK
  <2>3. CASE ReloadBegin(q)
    BY <2>3 DEF ReloadBegin, TodoRight, TypeInv, TypeOK
  <2>4. CASE ReloadAcquire(q)
    BY <2>4 DEF ReloadAcquire, TodoRight, TypeInv, TypeOK
  <2>5. CASE ReloadPopAll(q)
    BY <2>5 DEF ReloadPopAll, TodoRight, TypeInv, TypeOK
  <2>6. CASE ReloadRelease(q)
    BY <2>6 DEF ReloadRelease, TodoRight, TypeInv, TypeOK
  <2>7. CASE ReloadCreate(q)
    BY <2>7 DEF ReloadCreate, TodoRight, TypeInv, TypeOK
  <2>8. CASE ReloadInstall(q)
    BY <2>8 DEF ReloadInstall, ReloadReturn, TodoRight, TypeInv, TypeOK
  <2>9. ASSUME NEW j \in Jobs, ReloadKeep(q, j) PROVE TodoRight(r)'
    BY <2>9 DEF ReloadKeep, TodoRight, TypeInv, TypeOK
  <2>10. ASSUME NEW j \in Jobs, ReloadStop(q, j) PROVE TodoRight(r)'
    BY <2>10 DEF ReloadStop, TodoRight, TypeInv, TypeOK
  <2> QED
    BY <1>2, <2>1, <2>2, <2>3, <2>4, <2>5, <2>6, <2>7, <2>8, <2>9, <2>10 DEF ReloadNext
<1>3. CASE MainNext
  BY <1>3, <1>1 DEF MainNext, Add, Start, Stop, WaitDrain, WaitFinish
<1>4. CASE LoopNext
  BY <1>4, <1>1
  DEF LoopNext, LoopStart, LoopCheck, LoopDone, LoopTick, LoopAcquire, LoopSkip,
      LoopPop, LoopSpawn, LoopPush, LoopRelease
<1>5. CASE \/ Cancel \/ Clock \/ Fire \/ Signal \/ ReloaderExit \/ Terminated
           \/ \E f \in Configs \cup BadConfigs : Edit(f)
           \/ \E j \in Jobs : RunBegin(j) \/ RunEnd(j)
           \/ UNCHANGED vars
  BY <1>5, <1>1
  DEF Cancel, Clock, Fire, Signal, ReloaderExit, Terminated, Edit, RunBegin, RunEnd, vars
<1> QED
  BY <1>2, <1>3, <1>4, <1>5 DEF Next

\* Jobs made now are due now and have the period they are configured with.
LEMMA PaceOfNew ==
  ASSUME TypeOK, PaceInv, NEW s \in StateIds, NEW conf \in [Idents -> Periods \cup {Absent}],
         NEW I \in SUBSET Tasks(conf), MakeJobs(I, s, conf)
  PROVE  /\ \A j \in made' : cfg'[j] \in Periods
         /\ \A j \in made' : \E p \in Periods : checkTime'[j] <= now + p
         /\ \A j \in Jobs : checkTime[j] <= now => checkTime'[j] <= now
<1> DEFINE new == I \X {s}
<1>1. new \subseteq Jobs /\ \A j \in new : Ident(j) \in I
  BY JobsFacts DEF Tasks
<1>2. \A j \in new : conf[Ident(j)] \in Periods
  BY <1>1 DEF Tasks
<1>3. made' = made \cup new /\ made \subseteq Jobs
  BY DEF MakeJobs, TypeOK
<1>4. \A j \in Jobs : /\ cfg'[j] = IF j \in new THEN conf[Ident(j)] ELSE cfg[j]
                      /\ checkTime'[j] = IF j \in new THEN now ELSE checkTime[j]
  BY DEF MakeJobs
<1>5. \A p \in Periods : p \in Nat
  BY PeriodsAssumption
<1>6. now \in Nat
  BY DEF TypeOK
<1> HIDE DEF new
<1>7. \A j \in made' : cfg'[j] \in Periods
  BY <1>1, <1>2, <1>3, <1>4 DEF PaceInv, PeriodsKnown
<1>8. \A j \in new : checkTime'[j] <= now + conf[Ident(j)]
  BY <1>1, <1>2, <1>4, <1>5, <1>6
<1>9. \A j \in made' : \E p \in Periods : checkTime'[j] <= now + p
  BY <1>2, <1>3, <1>4, <1>8 DEF PaceInv
<1> QED
  BY <1>4, <1>6, <1>7, <1>9

LEMMA PaceStep == TypeInv /\ PaceInv /\ [Next]_vars => PaceInv'
<1> SUFFICES ASSUME TypeInv, PaceInv, [Next]_vars PROVE PaceInv'
  OBVIOUS
<1> USE DEF envVars, sigVars, stateVars, jobVars, loopVars, reloadVars, mainVars
<1>a. \A r \in Reloaders : TodoRight(r)'
  BY TodoStep DEF PaceInv
<1>b. /\ now \in Nat /\ tick \in Nat \cup {NoTick} /\ ltick \in Nat
      /\ checkTime \in [Jobs -> Nat] /\ made \subseteq Jobs /\ batch \subseteq Jobs
      /\ \A p \in Periods : p \in Nat
  BY PeriodsAssumption DEF TypeInv, TypeOK
<1>1. ASSUME UNCHANGED <<now, checkTime, cfg, made>>, TicksPast' PROVE PaceInv'
  BY <1>1, <1>a DEF PaceInv, PeriodsKnown
<1>2. ASSUME UNCHANGED <<now, checkTime, cfg, made, tick, ltick, lpc, batch>> PROVE PaceInv'
  BY <1>1, <1>2 DEF PaceInv, TicksPast
<1>3. CASE Start
  <2>1. cur \in StateIds /\ tasks[cur] \in [Idents -> Periods \cup {Absent}]
    BY DEF TypeInv, TypeOK
  <2>2. /\ MakeJobs(Tasks(tasks[cur]), cur, tasks[cur])
        /\ UNCHANGED <<now, tick, ltick>> /\ lpc' = "start"
    BY <1>3 DEF Start
  <2>3. /\ \A j \in made' : cfg'[j] \in Periods
        /\ \A j \in made' : \E p \in Periods : checkTime'[j] <= now + p
    BY <2>1, <2>2, PaceOfNew DEF TypeInv
  <2> QED
    BY <1>a, <2>2, <2>3 DEF PaceInv, PeriodsKnown, TicksPast
<1>4. ASSUME NEW r \in Reloaders, ReloadCreate(r) PROVE PaceInv'
  <2>1. rnew[r] \in StateIds /\ rconf[r] \in [Idents -> Periods \cup {Absent}]
    BY DEF TypeInv, TypeOK
  <2>2. /\ MakeJobs(todo[r], rnew[r], rconf[r]) /\ todo[r] \in SUBSET Tasks(rconf[r])
        /\ UNCHANGED <<now, tick, ltick, lpc, batch>>
    BY <1>4 DEF ReloadCreate, PaceInv, TodoRight
  <2>3. /\ \A j \in made' : cfg'[j] \in Periods
        /\ \A j \in made' : \E p \in Periods : checkTime'[j] <= now + p
        /\ \A j \in Jobs : checkTime[j] <= now => checkTime'[j] <= now
    BY <2>1, <2>2, PaceOfNew DEF TypeInv
  <2> QED
    BY <1>a, <1>b, <2>2, <2>3 DEF PaceInv, PeriodsKnown, TicksPast
<1>5. ASSUME NEW r \in Reloaders, NEW j \in Jobs, ReloadKeep(r, j) PROVE PaceInv'
  <2>1. rconf[r][Ident(j)] \in Periods
    BY <1>5, JobsFacts DEF ReloadKeep, PaceInv, TodoRight, Tasks, TypeInv, TypeOK
  <2>2. \A k \in made : cfg'[k] \in Periods
    BY <1>5, <1>b, <2>1 DEF ReloadKeep, PaceInv, PeriodsKnown, TypeInv, TypeOK
  <2> QED
    BY <1>5, <1>a, <2>2 DEF ReloadKeep, PaceInv, PeriodsKnown, TicksPast
<1>6. CASE Clock
  <2>1. now' = now + 1 /\ UNCHANGED <<tick, ltick, lpc, batch, checkTime, cfg, made>>
    BY <1>6 DEF Clock
  <2>2. \A j \in made : \E p \in Periods : checkTime[j] <= now' + p
    <3> SUFFICES ASSUME NEW j \in made PROVE \E p \in Periods : checkTime[j] <= now' + p
      OBVIOUS
    <3>1. PICK p \in Periods : checkTime[j] <= now + p
      BY DEF PaceInv
    <3>2. checkTime[j] <= now' + p
      BY <1>b, <2>1, <3>1
    <3> QED
      BY <3>2
  <2>3. TicksPast'
    BY <1>b, <2>1 DEF PaceInv, TicksPast
  <2> QED
    BY <1>a, <2>1, <2>2, <2>3 DEF PaceInv, PeriodsKnown
<1>7. CASE Fire
  BY <1>7, <1>1, <1>b DEF Fire, PaceInv, TicksPast
<1>8. CASE LoopTick
  BY <1>8, <1>1, <1>b DEF LoopTick, PaceInv, TicksPast
<1>9. CASE LoopPop
  <2>1. \A j \in batch' : j \in Jobs /\ checkTime[j] <= ltick
    BY <1>9 DEF LoopPop, PopUntil, TypeInv, TypeOK
  <2>2. \A j \in batch' : checkTime[j] <= now
    BY <1>b, <2>1 DEF PaceInv, TicksPast
  <2> QED
    BY <1>9, <1>1, <2>2 DEF LoopPop, PaceInv, TicksPast
<1>10. CASE LoopPush
  <2>1. /\ \A j \in Jobs : checkTime'[j] = IF j \in batch THEN checkTime[j] + cfg[j] ELSE checkTime[j]
        /\ UNCHANGED <<now, tick, ltick, cfg, made>> /\ lpc' = "release"
        /\ \A j \in batch : checkTime[j] <= now
    BY <1>10 DEF LoopPush, PaceInv, TicksPast
  <2>2. \A j \in made : \E p \in Periods : checkTime'[j] <= now + p
    <3> SUFFICES ASSUME NEW j \in made PROVE \E p \in Periods : checkTime'[j] <= now + p
      OBVIOUS
    <3>1. CASE j \in batch
      <4>1. cfg[j] \in Periods /\ checkTime'[j] <= now + cfg[j]
        BY <1>b, <2>1, <3>1 DEF PaceInv, PeriodsKnown
      <4> QED
        BY <4>1
    <3>2. CASE j \notin batch
      BY <1>b, <2>1, <3>2 DEF PaceInv
    <3> QED
      BY <3>1, <3>2
  <2> QED
    BY <1>a, <2>1, <2>2 DEF PaceInv, PeriodsKnown, TicksPast
<1>11. CASE LoopSkip \/ LoopRelease
  BY <1>11, <1>1, <1>b DEF LoopSkip, LoopRelease, ForgetTick, PaceInv, TicksPast
<1>12. CASE LoopStart \/ LoopCheck \/ LoopDone \/ LoopAcquire \/ LoopSpawn
  BY <1>12, <1>1
  DEF LoopStart, LoopCheck, LoopDone, LoopAcquire, LoopSpawn, PaceInv, TicksPast
<1>13. CASE (\E i \in Idents : Add(i)) \/ Stop \/ WaitDrain \/ WaitFinish
  BY <1>13, <1>2 DEF Add, Stop, WaitDrain, WaitFinish
<1>14. CASE \/ Cancel \/ Signal \/ ReloaderExit \/ Terminated
            \/ \E f \in Configs \cup BadConfigs : Edit(f)
            \/ \E j \in Jobs : RunBegin(j) \/ RunEnd(j)
            \/ UNCHANGED vars
  BY <1>14, <1>2 DEF Cancel, Signal, ReloaderExit, Terminated, Edit, RunBegin, RunEnd, vars
<1>15. ASSUME NEW r \in Reloaders, ReloadNext(r) PROVE PaceInv'
  <2>1. CASE \/ Spawn(r) \/ ReloadLoad(r) \/ ReloadBegin(r) \/ ReloadAcquire(r)
             \/ ReloadPopAll(r) \/ ReloadRelease(r) \/ ReloadInstall(r)
             \/ \E j \in Jobs : ReloadStop(r, j)
    BY <2>1, <1>2
    DEF Spawn, ReloadLoad, ReloadBegin, ReloadAcquire, ReloadPopAll, ReloadRelease,
        ReloadInstall, ReloadStop
  <2> QED
    BY <1>15, <2>1, <1>4, <1>5 DEF ReloadNext
<1> QED
  BY <1>3, <1>6, <1>7, <1>8, <1>9, <1>10, <1>11, <1>12, <1>13, <1>14, <1>15
  DEF Next, MainNext, LoopNext

LEMMA PaceInvariant == Spec => []PaceInv
<1>1. Init => PaceInv
  BY DEF Init, PaceInv, TodoRight, TicksPast, PeriodsKnown
<1>2. TypeInv /\ PaceInv /\ [Next]_vars => PaceInv'
  BY PaceStep
<1> QED
  BY <1>1, <1>2, TypeInvariant, PTL DEF Spec

\* No run starts ahead of its job's check time, and a scheduled job's next check is at
\* most one period ahead of the clock, whatever ticks are delayed or given up and
\* however many reloads overlap.
THEOREM JobsKeepPace == Spec => []Pace
<1>1. TypeInv /\ PlaceInv /\ PaceInv => Pace
  BY DEF TypeInv, TypeOK, PlaceInv, JobInOnePlace, PaceInv, TicksPast, Pace
<1> QED
  BY <1>1, TypeInvariant, PlaceInvariant, PaceInvariant, PTL

(***************************************************************************)
(* Reloads that do not overlap: any number of them and any interleaving    *)
(* with ticks and shutdown.  Overlapping reloads do lose jobs              *)
(* (DaemonLostStop).                                                       *)
(***************************************************************************)


\* At most one reload goroutine exists at a time.
NoOverlap == \A q, r \in Reloaders : rpc[q] # "idle" /\ rpc[r] # "idle" => q = r

\* The reload has emptied the queue of the old state.
Moved(r) == rpc[r] \in {"move", "create", "install"}

\* No reload, in progress or pending, builds its state at address s.
Old(s) ==
  /\ s <= nsig + 1 /\ s # sig
  /\ \A r \in Reloaders : rpc[r] # "idle" => rnew[r] # s

\* Addresses in use are not those under construction; a reload works on the
\* installed state and on the tasks of the new one.
StatesInv ==
  /\ Old(1) /\ Old(cur) /\ Old(lstate)
  /\ \A r \in Reloaders : Reloading(r) => rold[r] = cur /\ tasks[rnew[r]] = rconf[r]

\* Jobs wait in the installed state, and in the new one once the reload moves them.
QueueInv ==
  /\ \A s \in StateIds : queue[s] # {} => s = cur \/ \E r \in Reloaders : Moved(r) /\ s = rnew[r]
  /\ \A r \in Reloaders : Moved(r) => queue[cur] = {}
  /\ \A r \in Reloaders : hand[r] # {} => rpc[r] = "move"
  /\ batch # {} =>
       /\ lpc \in {"run", "push"} /\ lstate = cur
       /\ \A r \in Reloaders : ~Moved(r) /\ rpc[r] # "popall"

OnePerIdent == \A j, k \in Jobs : Held(j) /\ Held(k) /\ Ident(j) = Ident(k) => j = k

\* What has been moved and made so far, and what is still to do, are the new tasks.
NewInv ==
  \A r \in Reloaders :
    /\ rpc[r] \in {"spin", "popall"} => todo[r] = Tasks(rconf[r])
    /\ Moved(r) => \A j \in queue[rnew[r]] : Ident(j) \notin todo[r] /\ cfg[j] = rconf[r][Ident(j)]
    /\ Moved(r) => \A i \in Tasks(rconf[r]) : i \in todo[r] \/ \E j \in queue[rnew[r]] : Ident(j) = i

Live == queue[cur] \cup batch

\* The jobs of the installed state are its tasks, until a reload takes them away.
LiveInv ==
  /\ \A j \in Live : cfg[j] = tasks[cur][Ident(j)]
  /\ mpc \in {"running", "wait"} /\ (\A r \in Reloaders : ~Moved(r)) =>
       \A i \in Tasks(tasks[cur]) : \E j \in Live : Ident(j) = i

\* A file that was signalled is still to be read, has been read by the reload in
\* progress, or is installed.
ConvergeInv ==
  ~unsignalled /\ file \notin BadConfigs =>
    \/ sig # 0
    \/ \E r \in Reloaders : rpc[r] = "load"
    \/ \E r \in Reloaders : rpc[r] \notin {"idle", "load"} /\ rconf[r] = file
    \/ (\A r \in Reloaders : rpc[r] = "idle") /\ tasks[cur] = file

SerialInv ==
  StatesInv /\ QueueInv /\ OnePerIdent /\ NewInv /\ LiveInv /\ NothingLeftBehind /\ ConvergeInv

(***************************************************************************)
(* The addresses.                                                          *)
(***************************************************************************)

\* An address that is not under construction never is again.
LEMMA OldStep ==
  ASSUME TypeInv, Addresses, [Next]_vars, NEW s \in StateIds, Old(s)
  PROVE  Old(s)'
<1> USE DEF envVars, sigVars, stateVars, jobVars, loopVars, reloadVars, mainVars
<1>a. nsig \in Nat /\ sig \in Nat /\ s \in Nat /\ s # 0
  BY AddressTypes DEF TypeInv, StateIds
<1>1. ASSUME UNCHANGED <<sig, nsig, rpc, rnew>> PROVE Old(s)'
  BY <1>1 DEF Old
<1>2. CASE Signal
  BY <1>2, <1>a DEF Signal, Old
<1>3. ASSUME NEW r \in Reloaders, ReloadNext(r) PROVE Old(s)'
  <2>1. CASE Spawn(r)
    BY <2>1, <1>a DEF Spawn, Old, TypeInv, TypeOK
  <2>2. ASSUME UNCHANGED <<sig, nsig, rnew>>, NEW p, rpc[r] # "idle", rpc' = [rpc EXCEPT ![r] = p]
        PROVE  Old(s)'
    BY <2>2 DEF Old, TypeInv, TypeOK
  <2>3. ASSUME UNCHANGED <<sig, nsig>>, ReloadReturn(r) PROVE Old(s)'
    BY <2>3 DEF ReloadReturn, Old, TypeInv, TypeOK
  <2>4. CASE ReloadLoad(r)
    BY <2>4, <2>2, <2>3 DEF ReloadLoad
  <2>5. CASE ReloadBegin(r) \/ ReloadAcquire(r) \/ ReloadPopAll(r) \/ ReloadRelease(r) \/ ReloadCreate(r)
    BY <2>5, <2>2 DEF ReloadBegin, ReloadAcquire, ReloadPopAll, ReloadRelease, ReloadCreate
  <2>6. CASE ReloadInstall(r)
    BY <2>6, <2>3 DEF ReloadInstall
  <2>7. ASSUME NEW j \in Jobs, ReloadKeep(r, j) \/ ReloadStop(r, j) PROVE Old(s)'
    BY <2>7, <1>1 DEF ReloadKeep, ReloadStop
  <2> QED
    BY <1>3, <2>1, <2>4, <2>5, <2>6, <2>7 DEF ReloadNext
<1>4. CASE MainNext
  BY <1>4, <1>1 DEF MainNext, Add, Start, Stop, WaitDrain, WaitFinish
<1>5. CASE LoopNext
  BY <1>5, <1>1
  DEF LoopNext, LoopStart, LoopCheck, LoopDone, LoopTick, LoopAcquire, LoopSkip,
      LoopPop, LoopSpawn, LoopPush, LoopRelease
<1>6. CASE \/ Cancel \/ Clock \/ Fire \/ ReloaderExit \/ Terminated
           \/ \E f \in Configs \cup BadConfigs : Edit(f)
           \/ \E j \in Jobs : RunBegin(j) \/ RunEnd(j)
           \/ UNCHANGED vars
  BY <1>6, <1>1 DEF Cancel, Clock, Fire, ReloaderExit, Terminated, Edit, RunBegin, RunEnd, vars
<1> QED
  BY <1>2, <1>3, <1>4, <1>5, <1>6 DEF Next

\* Only an installation changes the installed state, and the run loop forgets the
\* state it works on or reads the installed one.
LEMMA PointersStep ==
  ASSUME [Next]_vars
  PROVE  /\ lstate' \in {lstate, cur, 1}
         /\ (\A r \in Reloaders : ~ReloadInstall(r)) => cur' = cur
<1> USE DEF envVars, sigVars, stateVars, jobVars, loopVars, reloadVars, mainVars
<1>1. ASSUME NEW r \in Reloaders, ReloadNext(r)
      PROVE  lstate' = lstate /\ (~ReloadInstall(r) => cur' = cur)
  BY <1>1
  DEF ReloadNext, Spawn, ReloadLoad, ReloadBegin, ReloadAcquire, ReloadPopAll, ReloadRelease,
      ReloadCreate, ReloadInstall, ReloadKeep, ReloadStop
<1>2. CASE MainNext
  BY <1>2 DEF MainNext, Add, Start, Stop, WaitDrain, WaitFinish
<1>3. CASE LoopNext
  BY <1>3
  DEF LoopNext, LoopStart, LoopCheck, LoopDone, LoopTick, LoopAcquire, LoopSkip,
      LoopPop, LoopSpawn, LoopPush, LoopRelease, ForgetTick
<1>4. CASE \/ Cancel \/ Clock \/ Fire \/ Signal \/ ReloaderExit \/ Terminated
           \/ \E f \in Configs \cup BadConfigs : Edit(f)
           \/ \E j \in Jobs : RunBegin(j) \/ RunEnd(j)
           \/ UNCHANGED vars
  BY <1>4 DEF Cancel, Clock, Fire, Signal, ReloaderExit, Terminated, Edit, RunBegin, RunEnd, vars
<1> QED
  BY <1>1, <1>2, <1>3, <1>4 DEF Next

LEMMA StatesStep ==
  ASSUME TypeInv, Addresses, NoOverlap, StatesInv, [Next]_vars
  PROVE  StatesInv'
<1> USE DEF envVars, sigVars, stateVars, jobVars, loopVars, reloadVars, mainVars
<1>a. 1 \in StateIds /\ cur \in StateIds /\ lstate \in StateIds
  BY StateIdsFacts DEF TypeInv, TypeOK
<1>b. Old(1)' /\ \A s \in StateIds : Old(s) => Old(s)'
  BY <1>a, OldStep DEF StatesInv
<1>c. Old(lstate)'
  <2>1. CASE lstate' = lstate
    BY <2>1, <1>a, <1>b DEF StatesInv, Old
  <2>2. CASE lstate' = cur
    BY <2>2, <1>a, <1>b DEF StatesInv, Old
  <2>3. CASE lstate' = 1
    BY <2>3, <1>a, <1>b DEF Old
  <2> QED
    BY <2>1, <2>2, <2>3, PointersStep
<1>d. Old(cur)'
  <2>1. CASE cur' = cur
    BY <2>1, <1>a, <1>b DEF StatesInv, Old
  <2>2. ASSUME NEW r \in Reloaders, ReloadInstall(r) PROVE Old(cur)'
    <3>1. /\ rpc[r] = "install" /\ cur' = rnew[r] /\ UNCHANGED <<sig, nsig>>
          /\ \A q \in Reloaders : rpc'[q] # "idle" => q # r /\ rpc[q] # "idle" /\ rnew'[q] = rnew[q]
      BY <2>2 DEF ReloadInstall, ReloadReturn, TypeInv, TypeOK
    <3>2. rnew[r] <= nsig + 1 /\ rnew[r] # sig
      BY <3>1 DEF Addresses
    <3>3. \A q \in Reloaders : q # r /\ rpc[q] # "idle" => rnew[q] # rnew[r]
      BY <3>1 DEF Addresses
    <3> QED
      BY <3>1, <3>2, <3>3 DEF Old
  <2> QED
    BY <2>1, <2>2, PointersStep
<1> DEFINE Right == \A r \in Reloaders : Reloading(r) => rold[r] = cur /\ tasks[rnew[r]] = rconf[r]
<1>e. Right'
  <2>0. Right
    BY DEF StatesInv
  <2>1. ASSUME UNCHANGED <<rpc, rold, rnew, rconf, cur, tasks>> PROVE Right'
    BY <2>0, <2>1 DEF Reloading
  <2>2. ASSUME NEW i \in Idents, Add(i) PROVE Right'
    BY <2>2 DEF Add, TypeInv, Reloading
  <2>3. ASSUME NEW r \in Reloaders, ReloadNext(r) PROVE Right'
    <3>a. \A q \in Reloaders : rpc[r] # "idle" /\ q # r => rpc[q] = "idle"
      BY DEF NoOverlap
    <3>1. CASE Spawn(r)
      BY <3>1, <2>0 DEF Spawn, Reloading, TypeInv, TypeOK
    <3>2. CASE ReloadLoad(r)
      <4>1. UNCHANGED <<cur, tasks>>
        BY <3>2 DEF ReloadLoad, stateVars
      <4>2. ~Reloading(r)'
        BY <3>2 DEF ReloadLoad, ReloadReturn, Reloading, TypeInv, TypeOK
      <4>3. ASSUME NEW q \in Reloaders, q # r
            PROVE  /\ rpc'[q] = rpc[q] /\ rconf'[q] = rconf[q]
                   /\ rold'[q] = rold[q] /\ rnew'[q] = rnew[q]
        BY <3>2, <4>3 DEF ReloadLoad, ReloadReturn, TypeInv, TypeOK
      <4> QED
        BY <4>1, <4>2, <4>3, <2>0 DEF Reloading
    <3>3. CASE ReloadBegin(r)
      BY <3>3, <2>0, <3>a DEF ReloadBegin, Reloading, TypeInv, TypeOK
    <3>4. CASE ReloadAcquire(r) \/ ReloadPopAll(r) \/ ReloadRelease(r) \/ ReloadCreate(r)
      BY <3>4, <2>0
      DEF ReloadAcquire, ReloadPopAll, ReloadRelease, ReloadCreate, Reloading, TypeInv, TypeOK
    <3>5. CASE ReloadInstall(r)
      BY <3>5, <2>0, <3>a DEF ReloadInstall, ReloadReturn, Reloading, TypeInv, TypeOK
    <3>6. ASSUME NEW j \in Jobs, ReloadKeep(r, j) \/ ReloadStop(r, j) PROVE Right'
      BY <3>6, <2>1 DEF ReloadKeep, ReloadStop
    <3> QED
      BY <2>3, <3>1, <3>2, <3>3, <3>4, <3>5, <3>6 DEF ReloadNext
  <2>4. CASE Start \/ Stop \/ WaitDrain \/ WaitFinish
    BY <2>4, <2>1 DEF Start, Stop, WaitDrain, WaitFinish
  <2>5. CASE LoopNext
    BY <2>5, <2>1
    DEF LoopNext, LoopStart, LoopCheck, LoopDone, LoopTick, LoopAcquire, LoopSkip,
        LoopPop, LoopSpawn, LoopPush, LoopRelease
  <2>6. CASE \/ Cancel \/ Clock \/ Fire \/ Signal \/ ReloaderExit \/ Terminated
             \/ \E f \in Configs \cup BadConfigs : Edit(f)
             \/ \E j \in Jobs : RunBegin(j) \/ RunEnd(j)
             \/ UNCHANGED vars
    BY <2>6, <2>1 DEF Cancel, Clock, Fire, Signal, ReloaderExit, Terminated, Edit, RunBegin, RunEnd, vars
  <2> QED
    BY <2>2, <2>3, <2>4, <2>5, <2>6 DEF Next, MainNext
<1> QED
  BY <1>b, <1>c, <1>d, <1>e DEF StatesInv

(***************************************************************************)
(* The queues.  The loop holds jobs of the installed state only: the flag  *)
(* keeps it from popping once a reload has begun to move them, and a state *)
(* that was replaced has none left.                                        *)
(***************************************************************************)

LEMMA QueueStep ==
  ASSUME TypeInv, FlagExclusion, JobInOnePlace, NoOverlap, StatesInv, QueueInv, [Next]_vars
  PROVE  QueueInv'
<1> USE DEF envVars, sigVars, stateVars, jobVars, loopVars, reloadVars, mainVars
<1>a. cur \in StateIds /\ lstate \in StateIds /\ \A r \in Reloaders : rnew[r] \in StateIds
  BY DEF TypeInv, TypeOK
<1>b. \A r \in Reloaders : Moved(r) => rnew[r] # cur /\ rnew[r] # lstate /\ rold[r] = cur
  BY DEF StatesInv, Old, Moved, Reloading
<1>1. ASSUME UNCHANGED <<queue, cur, rpc, rnew, hand, batch, lstate>>,
             batch # {} => lpc' \in {"run", "push"}
      PROVE  QueueInv'
  BY <1>1 DEF QueueInv, Moved
<1>2. CASE Start
  <2>1. \A r \in Reloaders : rpc[r] = "idle" /\ hand[r] = {}
    BY <1>2 DEF Start, TypeInv, QueueInv
  <2>2. batch = {} /\ \A s \in StateIds : queue[s] = {}
    <3>1. \A j \in Jobs : ~Held(j)
      BY <1>2 DEF Start, TypeInv, JobInOnePlace
    <3> QED
      BY <3>1 DEF Held, TypeInv, TypeOK
  <2>3. /\ UNCHANGED <<rpc, hand, batch, cur>>
        /\ \A s \in StateIds : s # cur => queue'[s] = queue[s]
    BY <1>2 DEF Start, TypeInv, TypeOK
  <2> QED
    BY <2>1, <2>2, <2>3 DEF QueueInv, Moved
<1>3. CASE WaitDrain
  <2>1. /\ \A s \in StateIds : queue'[s] = IF s = cur THEN {} ELSE queue[s]
        /\ UNCHANGED <<cur, rpc, rnew, hand, batch, lstate, lpc>>
    BY <1>3 DEF WaitDrain, TypeInv, TypeOK
  <2> QED
    BY <2>1, <1>a DEF QueueInv, Moved
<1>4. CASE LoopPop
  <2>1. /\ batch' \subseteq queue[lstate] /\ lpc = "pop"
        /\ batch' # {} => lpc' = "run"
        /\ \A s \in StateIds : queue'[s] = IF s = lstate THEN queue[s] \ batch' ELSE queue[s]
        /\ UNCHANGED <<cur, rpc, rnew, hand, lstate>>
    BY <1>4 DEF LoopPop, PopUntil, TypeInv, TypeOK
  <2>2. batch' # {} => lstate = cur
    BY <2>1, <1>a, <1>b DEF QueueInv
  <2>3. \A r \in Reloaders : batch' # {} => ~Moved(r)
    BY <2>1, <2>2, <1>a DEF QueueInv
  <2>4. \A r \in Reloaders : rpc[r] = "popall" => lstate # cur
    BY <2>1, <1>a DEF FlagExclusion, LoopHolds, LoopHolding, ReloadHolds, ReloadHolding, StatesInv, Reloading
  <2>5. \A s \in StateIds : queue'[s] \subseteq queue[s]
    BY <2>1
  <2> QED
    BY <2>1, <2>2, <2>3, <2>4, <2>5, <1>a DEF QueueInv, Moved
<1>5. CASE LoopPush
  <2>1. /\ batch' = {}
        /\ \A s \in StateIds : queue'[s] = IF s = lstate THEN queue[s] \cup batch ELSE queue[s]
        /\ UNCHANGED <<cur, rpc, rnew, hand, lstate>>
    BY <1>5 DEF LoopPush, TypeInv, TypeOK
  <2>2. batch # {} => lstate = cur /\ \A r \in Reloaders : ~Moved(r)
    BY DEF QueueInv
  <2> QED
    BY <2>1, <2>2, <1>a DEF QueueInv, Moved
<1>6. CASE LoopSpawn
  BY <1>6, <1>1 DEF LoopSpawn
<1>7. CASE LoopStart \/ LoopCheck \/ LoopDone \/ LoopTick \/ LoopAcquire \/ LoopSkip \/ LoopRelease
  <2>1. batch = {} /\ UNCHANGED <<queue, cur, rpc, rnew, hand, batch>>
    BY <1>7
    DEF LoopStart, LoopCheck, LoopDone, LoopTick, LoopAcquire, LoopSkip, LoopRelease, QueueInv
  <2> QED
    BY <2>1 DEF QueueInv, Moved
<1>8. ASSUME NEW r \in Reloaders, ReloadNext(r) PROVE QueueInv'
  <2>a. \A q \in Reloaders : rpc[r] # "idle" /\ q # r => rpc[q] = "idle" /\ ~Moved(q)
    BY DEF NoOverlap, Moved
  <2>1. CASE Spawn(r) \/ ReloadLoad(r) \/ ReloadBegin(r)
    <3>1. /\ UNCHANGED <<queue, cur, hand, batch, lstate, lpc>>
          /\ ~Moved(r) /\ rpc[r] # "popall" /\ hand[r] = {}
          /\ rpc'[r] \notin {"popall", "move", "create", "install"}
          /\ \A q \in Reloaders : q # r => rpc'[q] = rpc[q] /\ rnew'[q] = rnew[q]
      BY <2>1
      DEF Spawn, ReloadLoad, ReloadReturn, ReloadBegin, Moved, QueueInv, TypeInv, TypeOK
    <3>2. ~Moved(r)' /\ \A q \in Reloaders : q # r => (Moved(q)' <=> Moved(q))
      BY <3>1 DEF Moved
    <3> QED
      BY <3>1, <3>2 DEF QueueInv
  <2>2. CASE ReloadAcquire(r)
    <3>1. /\ UNCHANGED <<queue, cur, hand, batch, lstate, lpc, rnew>>
          /\ rpc' = [rpc EXCEPT ![r] = "popall"] /\ rpc[r] = "spin" /\ ~busy[rold[r]] /\ rold[r] = cur
      BY <2>2 DEF ReloadAcquire, StatesInv, Reloading
    <3>2. batch = {}
      BY <3>1, <1>a DEF QueueInv, FlagExclusion, LoopHolds, LoopHolding
    <3>3. \A q \in Reloaders : (Moved(q)' <=> Moved(q)) /\ (rpc[q] = "move" => rpc'[q] = "move")
      BY <3>1 DEF Moved, TypeInv, TypeOK
    <3> QED
      BY <3>1, <3>2, <3>3 DEF QueueInv
  <2>3. CASE ReloadPopAll(r)
    <3>1. /\ UNCHANGED <<cur, batch, lstate, lpc, rnew>> /\ rold[r] = cur /\ rpc[r] = "popall"
          /\ rpc' = [rpc EXCEPT ![r] = "move"]
          /\ \A q \in Reloaders : q # r => hand'[q] = hand[q]
          /\ \A s \in StateIds : queue'[s] = IF s = cur THEN {} ELSE queue[s]
      BY <2>3 DEF ReloadPopAll, StatesInv, Reloading, TypeInv, TypeOK
    <3>2. batch = {}
      BY <3>1 DEF QueueInv
    <3>3. \A q \in Reloaders : (Moved(q) => Moved(q)') /\ (rpc[q] = "move" => rpc'[q] = "move")
      BY <3>1 DEF Moved, TypeInv, TypeOK
    <3>4. rpc'[r] = "move"
      BY <3>1 DEF TypeInv, TypeOK
    <3> QED
      BY <3>1, <3>2, <3>3, <3>4, <1>a DEF QueueInv
  <2>4. ASSUME NEW j \in Jobs, ReloadKeep(r, j) PROVE QueueInv'
    <3>1. /\ UNCHANGED <<cur, batch, lstate, lpc, rnew, rpc>> /\ rpc[r] = "move"
          /\ \A q \in Reloaders : hand'[q] \subseteq hand[q]
          /\ \A s \in StateIds : s # rnew[r] => queue'[s] = queue[s]
      BY <2>4 DEF ReloadKeep, TypeInv, TypeOK
    <3>2. Moved(r)
      BY <3>1 DEF Moved
    <3>3. \A q \in Reloaders : Moved(q)' <=> Moved(q)
      BY <3>1 DEF Moved
    <3> QED
      BY <3>1, <3>2, <3>3, <1>a, <1>b DEF QueueInv
  <2>5. ASSUME NEW j \in Jobs, ReloadStop(r, j) PROVE QueueInv'
    <3>1. /\ UNCHANGED <<queue, cur, batch, lstate, lpc, rnew, rpc>>
          /\ \A q \in Reloaders : hand'[q] \subseteq hand[q]
      BY <2>5 DEF ReloadStop, TypeInv, TypeOK
    <3> QED
      BY <3>1 DEF QueueInv, Moved
  <2>6. CASE ReloadRelease(r)
    <3>1. /\ UNCHANGED <<queue, cur, batch, lstate, lpc, rnew, hand>> /\ rpc[r] = "move" /\ hand[r] = {}
          /\ rpc' = [rpc EXCEPT ![r] = "create"]
      BY <2>6 DEF ReloadRelease
    <3>2. \A q \in Reloaders :
            /\ Moved(q)' <=> Moved(q)
            /\ q # r /\ rpc[q] = "move" => rpc'[q] = "move"
            /\ rpc'[q] = "popall" => rpc[q] = "popall"
      BY <3>1 DEF Moved, TypeInv, TypeOK
    <3> QED
      BY <3>1, <3>2 DEF QueueInv
  <2>7. CASE ReloadCreate(r)
    <3>1. /\ UNCHANGED <<cur, batch, lstate, lpc, rnew, hand>> /\ rpc[r] = "create"
          /\ rpc' = [rpc EXCEPT ![r] = "install"]
          /\ \A s \in StateIds : s # rnew[r] => queue'[s] = queue[s]
      BY <2>7 DEF ReloadCreate, TypeInv, TypeOK
    <3>2. Moved(r) /\ hand[r] = {}
      BY <3>1 DEF Moved, QueueInv
    <3>3. \A q \in Reloaders :
            /\ Moved(q)' <=> Moved(q)
            /\ q # r /\ rpc[q] = "move" => rpc'[q] = "move"
            /\ rpc'[q] = "popall" => rpc[q] = "popall"
      BY <3>1 DEF Moved, TypeInv, TypeOK
    <3> QED
      BY <3>1, <3>2, <3>3, <1>a, <1>b DEF QueueInv
  <2>8. CASE ReloadInstall(r)
    <3>1. /\ UNCHANGED <<queue, batch, lstate, lpc, hand>> /\ rpc[r] = "install" /\ cur' = rnew[r]
          /\ rpc' = [rpc EXCEPT ![r] = "idle"]
      BY <2>8 DEF ReloadInstall, ReloadReturn
    <3>2. Moved(r) /\ hand[r] = {} /\ batch = {}
      BY <3>1 DEF Moved, QueueInv
    <3>3. \A q \in Reloaders : rpc'[q] = "idle" /\ ~Moved(q)'
      BY <3>1, <2>a DEF Moved, TypeInv, TypeOK
    <3>4. \A s \in StateIds : queue[s] # {} => s = rnew[r]
      BY <3>1, <3>2, <2>a DEF QueueInv
    <3>5. \A q \in Reloaders : hand[q] = {}
      BY <3>1, <2>a DEF QueueInv
    <3> QED
      BY <3>1, <3>2, <3>3, <3>4, <3>5 DEF QueueInv
  <2> QED
    BY <1>8, <2>1, <2>2, <2>3, <2>4, <2>5, <2>6, <2>7, <2>8 DEF ReloadNext
<1>9. CASE (\E i \in Idents : Add(i)) \/ Stop \/ WaitFinish
  BY <1>9, <1>1 DEF Add, Stop, WaitFinish, QueueInv
<1>10. CASE \/ Cancel \/ Clock \/ Fire \/ Signal \/ ReloaderExit \/ Terminated
            \/ \E f \in Configs \cup BadConfigs : Edit(f)
            \/ \E j \in Jobs : RunBegin(j) \/ RunEnd(j)
            \/ UNCHANGED vars
  BY <1>10, <1>1
  DEF Cancel, Clock, Fire, Signal, ReloaderExit, Terminated, Edit, RunBegin, RunEnd, vars, QueueInv
<1> QED
  BY <1>2, <1>3, <1>4, <1>5, <1>6, <1>7, <1>8, <1>9, <1>10 DEF Next, MainNext, LoopNext

(***************************************************************************)
(* One job per ident.  Only Start and the creation of a reload make jobs:  *)
(* the first when there are none, the second for idents none of the jobs   *)
(* left has.                                                               *)
(***************************************************************************)

LEMMA HeldStep ==
  ASSUME TypeInv, [Next]_vars, ~Start, \A r \in Reloaders : ~ReloadCreate(r), NEW j \in Jobs, Held(j)'
  PROVE  Held(j)
<1> USE DEF envVars, sigVars, stateVars, jobVars, loopVars, reloadVars, mainVars
<1>1. ASSUME \A s \in StateIds : queue'[s] \subseteq queue[s], batch' \subseteq batch,
             \A r \in Reloaders : hand'[r] \subseteq hand[r]
      PROVE  Held(j)
  BY <1>1 DEF Held
<1>2. ASSUME UNCHANGED <<queue, batch, hand>> PROVE Held(j)
  BY <1>2, <1>1
<1>3. CASE WaitDrain
  BY <1>3, <1>1 DEF WaitDrain, TypeInv, TypeOK
<1>4. CASE LoopPop
  BY <1>4 DEF LoopPop, PopUntil, Held, TypeInv, TypeOK
<1>5. CASE LoopPush
  BY <1>5 DEF LoopPush, Held, TypeInv, TypeOK
<1>6. ASSUME NEW r \in Reloaders, ReloadNext(r) PROVE Held(j)
  <2>1. CASE Spawn(r) \/ ReloadLoad(r) \/ ReloadBegin(r) \/ ReloadAcquire(r) \/ ReloadRelease(r) \/ ReloadInstall(r)
    BY <2>1, <1>2 DEF Spawn, ReloadLoad, ReloadBegin, ReloadAcquire, ReloadRelease, ReloadInstall
  <2>2. CASE ReloadPopAll(r)
    BY <2>2 DEF ReloadPopAll, Held, TypeInv, TypeOK
  <2>3. ASSUME NEW k \in Jobs, ReloadKeep(r, k) PROVE Held(j)
    BY <2>3 DEF ReloadKeep, First, Held, TypeInv, TypeOK
  <2>4. ASSUME NEW k \in Jobs, ReloadStop(r, k) PROVE Held(j)
    BY <2>4, <1>1 DEF ReloadStop, TypeInv, TypeOK
  <2> QED
    BY <1>6, <2>1, <2>2, <2>3, <2>4 DEF ReloadNext
<1>7. CASE LoopStart \/ LoopCheck \/ LoopDone \/ LoopTick \/ LoopAcquire \/ LoopSkip \/ LoopSpawn \/ LoopRelease
  BY <1>7, <1>2
  DEF LoopStart, LoopCheck, LoopDone, LoopTick, LoopAcquire, LoopSkip, LoopSpawn, LoopRelease
<1>8. CASE (\E i \in Idents : Add(i)) \/ Stop \/ WaitFinish
  BY <1>8, <1>2 DEF Add, Stop, WaitFinish
<1>9. CASE \/ Cancel \/ Clock \/ Fire \/ Signal \/ ReloaderExit \/ Terminated
           \/ \E f \in Configs \cup BadConfigs : Edit(f)
           \/ \E k \in Jobs : RunBegin(k) \/ RunEnd(k)
           \/ UNCHANGED vars
  BY <1>9, <1>2 DEF Cancel, Clock, Fire, Signal, ReloaderExit, Terminated, Edit, RunBegin, RunEnd, vars
<1> QED
  BY <1>3, <1>4, <1>5, <1>6, <1>7, <1>8, <1>9 DEF Next, MainNext, LoopNext

\* Before Start there is no job.
LEMMA NoneHeldAtStart ==
  ASSUME TypeInv, JobInOnePlace, mpc = "add"
  PROVE  /\ \A j \in Jobs : ~Held(j)
         /\ batch = {} /\ \A s \in StateIds : queue[s] = {}
<1>1. \A j \in Jobs : ~Held(j)
  BY DEF TypeInv, JobInOnePlace
<1> QED
  BY <1>1 DEF Held, TypeInv, TypeOK

\* What a reload that comes to creating jobs finds: the jobs left are those it moved.
LEMMA HeldAtCreate ==
  ASSUME TypeInv, NoOverlap, QueueInv, NEW r \in Reloaders, rpc[r] = "create",
         NEW j \in Jobs, Held(j)
  PROVE  j \in queue[rnew[r]]
<1>1. Moved(r) /\ \A q \in Reloaders : q # r => ~Moved(q) /\ rpc[q] = "idle"
  BY DEF Moved, NoOverlap
<1>2. batch = {} /\ \A q \in Reloaders : hand[q] = {}
  BY <1>1 DEF QueueInv
<1>3. \A s \in StateIds : queue[s] # {} => s = rnew[r]
  BY <1>1 DEF QueueInv
<1> QED
  BY <1>2, <1>3 DEF Held

LEMMA OnePerIdentStep ==
  ASSUME TypeInv, JobInOnePlace, NoOverlap, QueueInv, NewInv, OnePerIdent, [Next]_vars
  PROVE  OnePerIdent'
<1> USE DEF envVars, sigVars, stateVars, jobVars, loopVars, reloadVars, mainVars
<1>1. CASE Start
  <2>1. \A j \in Jobs : ~Held(j)
    BY <1>1, NoneHeldAtStart DEF Start
  <2>2. /\ UNCHANGED <<batch, hand>>
        /\ \A s \in StateIds : \A j \in queue'[s] : j \in queue[s] \/ j \in Tasks(tasks[cur]) \X {cur}
    BY <1>1 DEF Start, TypeInv, TypeOK
  <2>3. \A j \in Jobs : Held(j)' => j \in Tasks(tasks[cur]) \X {cur}
    BY <2>1, <2>2 DEF Held
  <2> QED
    BY <2>3 DEF OnePerIdent, Ident
<1>2. ASSUME NEW r \in Reloaders, ReloadCreate(r) PROVE OnePerIdent'
  <2>1. /\ UNCHANGED <<batch, hand>> /\ rpc[r] = "create"
        /\ \A s \in StateIds : \A j \in queue'[s] : j \in queue[s] \/ j \in todo[r] \X {rnew[r]}
    BY <1>2 DEF ReloadCreate, TypeInv, TypeOK
  <2>2. \A j \in Jobs : Held(j)' => Held(j) \/ j \in todo[r] \X {rnew[r]}
    BY <2>1 DEF Held
  <2>3. \A j \in Jobs : Held(j) => Ident(j) \notin todo[r]
    BY <2>1, HeldAtCreate DEF NewInv, Moved
  <2>4. \A j \in todo[r] \X {rnew[r]} : Ident(j) \in todo[r] /\ j = <<Ident(j), rnew[r]>>
    BY DEF Ident
  <2> QED
    BY <2>2, <2>3, <2>4 DEF OnePerIdent
<1> QED
  BY <1>1, <1>2, HeldStep DEF OnePerIdent

(***************************************************************************)
(* The jobs of the new and of the installed state.                         *)
(***************************************************************************)

\* The loop takes jobs from the installed state and puts them back there.
LEMMA LoopKeeps ==
  ASSUME TypeInv, QueueInv, QueueInv', LoopPop \/ LoopPush
  PROVE  /\ queue'[cur] \cup batch' = queue[cur] \cup batch
         /\ \A s \in StateIds : s # cur => queue'[s] = queue[s]
<1>a. cur \in StateIds /\ lstate \in StateIds /\ cur' = cur /\ lstate' = lstate
  BY DEF TypeInv, TypeOK, LoopPop, LoopPush
<1>1. CASE LoopPop
  <2>1. /\ batch = {} /\ batch' \subseteq queue[lstate]
        /\ \A s \in StateIds : queue'[s] = IF s = lstate THEN queue[s] \ batch' ELSE queue[s]
    <3>1. batch = {} /\ queue \in [StateIds -> SUBSET Jobs]
      BY <1>1 DEF LoopPop, TypeInv, TypeOK, QueueInv
    <3> QED BY <1>1, <1>a, <3>1 DEF LoopPop, PopUntil
  <2>2. batch' # {} => lstate = cur
    BY <1>a DEF QueueInv
  <2> QED
    BY <1>a, <2>1, <2>2
<1>2. CASE LoopPush
  <2>1. /\ batch' = {}
        /\ \A s \in StateIds : queue'[s] = IF s = lstate THEN queue[s] \cup batch ELSE queue[s]
    BY <1>2 DEF LoopPush, TypeInv, TypeOK
  <2>2. batch # {} => lstate = cur
    BY DEF QueueInv
  <2> QED
    BY <1>a, <2>1, <2>2
<1> QED
  BY <1>1, <1>2

\* Jobs that somebody holds keep their configuration when others are made.
LEMMA MadeKeep ==
  ASSUME JobInOnePlace, NEW I, NEW s, NEW conf, MakeJobs(I, s, conf), (I \X {s}) \cap made = {}
  PROVE  /\ \A j \in Jobs : Held(j) => cfg'[j] = cfg[j]
         /\ \A j \in Jobs : j \in I \X {s} => cfg'[j] = conf[Ident(j)]
  BY DEF MakeJobs, JobInOnePlace

LEMMA NewStep ==
  ASSUME TypeInv, PlaceInv, NoOverlap, StatesInv, QueueInv, QueueInv', NewInv, [Next]_vars
  PROVE  NewInv'
<1> USE DEF envVars, sigVars, stateVars, jobVars, loopVars, reloadVars, mainVars
<1>a. \A r \in Reloaders : Moved(r) => rnew[r] # cur /\ rnew[r] \in StateIds
  BY DEF StatesInv, Old, Moved, TypeInv, TypeOK
<1>1. ASSUME UNCHANGED <<rpc, rnew, rconf, todo, cfg>>,
             \A r \in Reloaders : Moved(r) => queue'[rnew[r]] = queue[rnew[r]]
      PROVE  NewInv'
  BY <1>1 DEF NewInv, Moved
<1>2. CASE Start
  BY <1>2 DEF Start, TypeInv, NewInv, Moved
<1>3. CASE WaitDrain
  BY <1>3, <1>1, <1>a DEF WaitDrain, TypeInv, TypeOK
<1>4. CASE LoopPop \/ LoopPush
  BY <1>4, <1>1, <1>a, LoopKeeps DEF LoopPop, LoopPush
<1>5. ASSUME NEW r \in Reloaders, ReloadNext(r) PROVE NewInv'
  <2> DEFINE New(q) ==
        /\ rpc[q] \in {"spin", "popall"} => todo[q] = Tasks(rconf[q])
        /\ Moved(q) => \A j \in queue[rnew[q]] : Ident(j) \notin todo[q] /\ cfg[j] = rconf[q][Ident(j)]
        /\ Moved(q) => \A i \in Tasks(rconf[q]) : i \in todo[q] \/ \E j \in queue[rnew[q]] : Ident(j) = i
  <2>a. New(r)
    BY DEF NewInv
  <2>1. CASE Spawn(r)
    BY <2>1 DEF Spawn, NewInv, Moved, TypeInv, TypeOK
  <2>b. ASSUME rpc[r] # "idle", New(r)' PROVE NewInv'
    <3>1. \A q \in Reloaders : q # r => rpc[q] = "idle"
      BY <2>b DEF NoOverlap
    <3>2. \A q \in Reloaders : q # r => rpc'[q] = rpc[q]
      BY <1>5, <2>b
      DEF ReloadNext, Spawn, ReloadLoad, ReloadReturn, ReloadBegin, ReloadAcquire, ReloadPopAll,
          ReloadRelease, ReloadCreate, ReloadInstall, ReloadKeep, ReloadStop, TypeInv, TypeOK
    <3> QED
      BY <2>b, <3>1, <3>2 DEF NewInv, Moved
  <2>2. CASE ReloadLoad(r)
    BY <2>2, <2>b DEF ReloadLoad, ReloadReturn, Moved, TypeInv, TypeOK
  <2>3. CASE ReloadBegin(r)
    BY <2>3, <2>b DEF ReloadBegin, Moved, TypeInv, TypeOK
  <2>4. CASE ReloadAcquire(r)
    BY <2>4, <2>a, <2>b DEF ReloadAcquire, Moved, TypeInv, TypeOK
  <2>5. CASE ReloadPopAll(r)
    <3>1. /\ UNCHANGED <<rnew, rconf, todo>> /\ rpc[r] = "popall" /\ rpc'[r] = "move"
          /\ \A s \in StateIds : queue'[s] \subseteq queue[s]
      BY <2>5 DEF ReloadPopAll, TypeInv, TypeOK
    <3>2. queue[rnew[r]] = {}
      <4>1. \A q \in Reloaders : ~Moved(q)
        BY <3>1 DEF Moved, NoOverlap
      <4>2. rnew[r] \in StateIds /\ rnew[r] # cur
        BY <3>1 DEF StatesInv, Old, TypeInv, TypeOK
      <4> QED
        BY <4>1, <4>2 DEF QueueInv
    <3>3. queue'[rnew[r]] = {}
      BY <3>1, <3>2 DEF TypeInv, TypeOK
    <3> QED
      BY <3>1, <3>3, <2>a, <2>b
  <2>6. ASSUME NEW j \in Jobs, ReloadKeep(r, j) PROVE NewInv'
    <3>1. /\ UNCHANGED <<rnew, rconf, rpc>> /\ rpc[r] = "move" /\ j \in hand[r]
          /\ queue'[rnew[r]] = queue[rnew[r]] \cup {j}
          /\ todo'[r] = todo[r] \ {Ident(j)}
          /\ \A k \in Jobs : cfg'[k] = IF k = j THEN rconf[r][Ident(j)] ELSE cfg[k]
      BY <2>6 DEF ReloadKeep, First, TypeInv, TypeOK
    <3>2. queue[rnew[r]] \subseteq Jobs
      BY DEF TypeInv, TypeOK
    <3>3. \A k \in queue'[rnew[r]] : Ident(k) \notin todo'[r] /\ cfg'[k] = rconf[r][Ident(k)]
      BY <3>1, <3>2, <2>a DEF Moved
    <3>4. Moved(r)
      BY <3>1 DEF Moved
    <3>5. \A i \in Tasks(rconf[r]) : i \in todo'[r] \/ \E k \in queue'[rnew[r]] : Ident(k) = i
      BY <3>1, <3>4, <2>a
    <3> QED
      BY <3>1, <3>3, <3>5, <2>b
  <2>7. CASE ReloadRelease(r) \/ \E j \in Jobs : ReloadStop(r, j)
    BY <2>7, <2>a, <2>b DEF ReloadRelease, ReloadStop, Moved, TypeInv, TypeOK
  <2>8. CASE ReloadCreate(r)
    <3> DEFINE new == todo[r] \X {rnew[r]}
    <3>1. /\ UNCHANGED <<rnew, rconf>> /\ rpc[r] = "create" /\ rpc'[r] = "install" /\ todo'[r] = {}
          /\ queue'[rnew[r]] = queue[rnew[r]] \cup new
          /\ MakeJobs(todo[r], rnew[r], rconf[r])
      BY <2>8 DEF ReloadCreate, TypeInv, TypeOK
    <3>2. new \cap made = {} /\ new \subseteq Jobs /\ rnew[r] \in StateIds
      <4>1. rnew[r] \in StateIds /\ todo[r] \subseteq Idents
        BY DEF TypeInv, TypeOK
      <4>2. Building(r)
        BY <3>1 DEF Building, ReloadPcs
      <4>3. \A j \in new : j \in Jobs /\ j \notin made
        BY <4>1, <4>2, JobsFacts DEF PlaceInv, FreshJobs
      <4> QED
        BY <4>1, <4>3
    <3>3. /\ \A j \in Jobs : Held(j) => cfg'[j] = cfg[j]
          /\ \A j \in new : cfg'[j] = rconf[r][Ident(j)]
      BY <3>1, <3>2, MadeKeep DEF PlaceInv
    <3>4. \A j \in queue[rnew[r]] : j \in Jobs /\ Held(j)
      BY <3>2 DEF Held, TypeInv, TypeOK
    <3>5. \A i \in todo[r] : <<i, rnew[r]>> \in new /\ Ident(<<i, rnew[r]>>) = i
      BY DEF Ident
    <3> HIDE DEF new
    <3>6. Moved(r)
      BY <3>1 DEF Moved
    <3>7. \A j \in queue'[rnew[r]] : cfg'[j] = rconf[r][Ident(j)]
      BY <3>1, <3>3, <3>4, <3>6, <2>a
    <3>8. \A i \in Tasks(rconf[r]) : \E j \in queue'[rnew[r]] : Ident(j) = i
      BY <3>1, <3>5, <3>6, <2>a
    <3> QED
      BY <3>1, <3>7, <3>8, <2>b
  <2>9. CASE ReloadInstall(r)
    BY <2>9, <2>b DEF ReloadInstall, ReloadReturn, Moved, TypeInv, TypeOK
  <2> QED
    BY <1>5, <2>1, <2>2, <2>3, <2>4, <2>5, <2>6, <2>7, <2>8, <2>9 DEF ReloadNext
<1>6. CASE LoopStart \/ LoopCheck \/ LoopDone \/ LoopTick \/ LoopAcquire \/ LoopSkip \/ LoopSpawn \/ LoopRelease
  BY <1>6, <1>1
  DEF LoopStart, LoopCheck, LoopDone, LoopTick, LoopAcquire, LoopSkip, LoopSpawn, LoopRelease
<1>7. CASE (\E i \in Idents : Add(i)) \/ Stop \/ WaitFinish
  BY <1>7, <1>1 DEF Add, Stop, WaitFinish
<1>8. CASE \/ Cancel \/ Clock \/ Fire \/ Signal \/ ReloaderExit \/ Terminated
           \/ \E f \in Configs \cup BadConfigs : Edit(f)
           \/ \E j \in Jobs : RunBegin(j) \/ RunEnd(j)
           \/ UNCHANGED vars
  BY <1>8, <1>1 DEF Cancel, Clock, Fire, Signal, ReloaderExit, Terminated, Edit, RunBegin, RunEnd, vars
<1> QED
  BY <1>2, <1>3, <1>4, <1>5, <1>6, <1>7, <1>8 DEF Next, MainNext, LoopNext

LEMMA LiveStep ==
  ASSUME TypeInv, PlaceInv, PaceInv, NoOverlap, StatesInv, QueueInv, QueueInv', NewInv, LiveInv,
         [Next]_vars
  PROVE  LiveInv'
<1> USE DEF envVars, sigVars, stateVars, jobVars, loopVars, reloadVars, mainVars
<1>a. cur \in StateIds /\ Live \subseteq Jobs /\ \A j \in Live : Held(j)
  BY DEF Live, Held, TypeInv, TypeOK
<1>1. ASSUME Live' = Live, UNCHANGED <<cur, cfg>>, tasks'[cur] = tasks[cur],
             mpc' \in {"running", "wait"} => mpc \in {"running", "wait"},
             \A r \in Reloaders : Moved(r) => Moved(r)'
      PROVE  LiveInv'
  BY <1>1 DEF LiveInv
<1>2. ASSUME UNCHANGED <<queue, batch, cur, cfg, rpc>>, tasks'[cur] = tasks[cur],
             mpc' \in {"running", "wait"} => mpc \in {"running", "wait"}
      PROVE  LiveInv'
  BY <1>1, <1>2 DEF Live, Moved
<1>3. ASSUME NEW i \in Idents, Add(i) PROVE LiveInv'
  <2>1. Live' = {} /\ mpc' = "add"
    BY <1>3, <1>a, NoneHeldAtStart DEF Add, PlaceInv, Live
  <2> QED
    BY <2>1 DEF LiveInv
<1>4. CASE Start
  <2> DEFINE new == Tasks(tasks[cur]) \X {cur}
  <2>1. Live' = new /\ UNCHANGED <<cur, tasks>> /\ MakeJobs(Tasks(tasks[cur]), cur, tasks[cur])
    BY <1>4, <1>a, NoneHeldAtStart DEF Start, PlaceInv, Live, TypeInv, TypeOK
  <2>2. new \subseteq Jobs /\ new \cap made = {}
    BY <1>4, <1>a, JobsFacts DEF Start, TypeInv, Tasks
  <2>3. \A j \in new : cfg'[j] = tasks[cur][Ident(j)]
    BY <2>1, <2>2, MadeKeep DEF PlaceInv
  <2>4. \A i \in Tasks(tasks[cur]) : <<i, cur>> \in new /\ Ident(<<i, cur>>) = i
    BY DEF Ident
  <2> HIDE DEF new
  <2> QED
    BY <2>1, <2>3, <2>4 DEF LiveInv
<1>5. CASE WaitDrain
  <2>1. Live' \subseteq Live /\ UNCHANGED <<cur, cfg, tasks>> /\ mpc' = "drained"
    BY <1>5, <1>a DEF WaitDrain, Live, TypeInv, TypeOK
  <2> QED
    BY <2>1 DEF LiveInv
<1>6. CASE LoopPop \/ LoopPush
  BY <1>6, <1>1, LoopKeeps DEF LoopPop, LoopPush, Live, Moved
<1>7. ASSUME NEW r \in Reloaders, ReloadNext(r) PROVE LiveInv'
  <2>a. rpc[r] # "idle" => rnew[r] # cur
    BY DEF StatesInv, Old
  <2>1. CASE Spawn(r) \/ ReloadLoad(r)
    BY <2>1, <1>1 DEF Spawn, ReloadLoad, ReloadReturn, Live, Moved, TypeInv, TypeOK
  <2>2. CASE ReloadBegin(r)
    BY <2>2, <2>a, <1>1, <1>a DEF ReloadBegin, Live, Moved, TypeInv, TypeOK
  <2>3. CASE ReloadAcquire(r) \/ ReloadRelease(r)
    BY <2>3, <1>1 DEF ReloadAcquire, ReloadRelease, Live, Moved, TypeInv, TypeOK
  <2>4. CASE ReloadPopAll(r)
    <3>1. /\ Live' \subseteq Live /\ UNCHANGED <<cur, cfg, tasks>>
          /\ rpc'[r] = "move"
      BY <2>4, <1>a DEF ReloadPopAll, Live, TypeInv, TypeOK
    <3> QED
      BY <3>1 DEF LiveInv, Moved
  <2>5. ASSUME NEW j \in Jobs, ReloadKeep(r, j) PROVE LiveInv'
    <3>1. /\ Live' = Live /\ UNCHANGED <<cur, tasks, rpc>> /\ rpc[r] = "move" /\ j \in hand[r]
          /\ \A k \in Jobs : k # j => cfg'[k] = cfg[k]
      BY <2>5, <2>a, <1>a DEF ReloadKeep, First, Live, TypeInv, TypeOK
    <3>2. j \notin Live
      BY <3>1, <1>a DEF Live, PlaceInv, JobInOnePlace
    <3> QED
      BY <3>1, <3>2, <1>a DEF LiveInv, Moved
  <2>6. ASSUME NEW j \in Jobs, ReloadStop(r, j) PROVE LiveInv'
    BY <2>6, <1>2 DEF ReloadStop
  <2>7. CASE ReloadCreate(r)
    <3>1. /\ Live' = Live /\ UNCHANGED <<cur, tasks>> /\ rpc[r] = "create" /\ rpc'[r] = "install"
          /\ MakeJobs(todo[r], rnew[r], rconf[r])
      BY <2>7, <2>a, <1>a DEF ReloadCreate, Live, TypeInv, TypeOK
    <3>2. (todo[r] \X {rnew[r]}) \cap made = {}
      BY <3>1 DEF PlaceInv, FreshJobs, Building, ReloadPcs
    <3>3. \A j \in Live : cfg'[j] = cfg[j]
      BY <3>1, <3>2, <1>a, MadeKeep DEF PlaceInv
    <3> QED
      BY <3>1, <3>3, <1>a DEF LiveInv, Moved
  <2>8. CASE ReloadInstall(r)
    <3>1. UNCHANGED <<queue, batch, cfg, tasks>> /\ rpc[r] = "install" /\ cur' = rnew[r]
      BY <2>8 DEF ReloadInstall
    <3>2. Moved(r) /\ batch = {} /\ todo[r] = {} /\ tasks[rnew[r]] = rconf[r]
      BY <3>1 DEF Moved, QueueInv, PaceInv, TodoRight, StatesInv, Reloading
    <3>3. Live' = queue[rnew[r]]
      BY <3>1, <3>2 DEF Live
    <3> QED
      BY <3>1, <3>2, <3>3 DEF LiveInv, NewInv
  <2> QED
    BY <1>7, <2>1, <2>2, <2>3, <2>4, <2>5, <2>6, <2>7, <2>8 DEF ReloadNext
<1>8. CASE LoopStart \/ LoopCheck \/ LoopDone \/ LoopTick \/ LoopAcquire \/ LoopSkip \/ LoopSpawn \/ LoopRelease
  BY <1>8, <1>2
  DEF LoopStart, LoopCheck, LoopDone, LoopTick, LoopAcquire, LoopSkip, LoopSpawn, LoopRelease
<1>9. CASE Stop \/ WaitFinish
  BY <1>9, <1>2 DEF Stop, WaitFinish
<1>10. CASE \/ Cancel \/ Clock \/ Fire \/ Signal \/ ReloaderExit \/ Terminated
            \/ \E f \in Configs \cup BadConfigs : Edit(f)
            \/ \E j \in Jobs : RunBegin(j) \/ RunEnd(j)
            \/ UNCHANGED vars
  BY <1>10, <1>2 DEF Cancel, Clock, Fire, Signal, ReloaderExit, Terminated, Edit, RunBegin, RunEnd, vars
<1> QED
  BY <1>3, <1>4, <1>5, <1>6, <1>7, <1>8, <1>9, <1>10 DEF Next, MainNext, LoopNext

LEMMA BehindStep ==
  ASSUME TypeInv, PlaceInv, NoOverlap, StatesInv, QueueInv, QueueInv', NothingLeftBehind, [Next]_vars
  PROVE  NothingLeftBehind'
<1> USE DEF envVars, sigVars, stateVars, jobVars, loopVars, reloadVars, mainVars
<1>a. cur \in StateIds /\ \A r \in Reloaders : rnew[r] \in StateIds
  BY DEF TypeInv, TypeOK
<1>b. ASSUME mpc' \in {"running", "wait"} => mpc \in {"running", "wait"},
             UNCHANGED <<made, cancelled>>, \A j \in made : Scheduled(j) => Scheduled(j)'
      PROVE  NothingLeftBehind'
  BY <1>b DEF NothingLeftBehind
<1>1. ASSUME UNCHANGED <<queue, batch, cur, hand, rpc, rnew, made, cancelled>>,
             mpc' \in {"running", "wait"} => mpc \in {"running", "wait"}
      PROVE  NothingLeftBehind'
  BY <1>1 DEF NothingLeftBehind, Scheduled, Reloading
<1>2. CASE Start
  <2>1. made' = Tasks(tasks[cur]) \X {cur} /\ queue'[cur] = queue[cur] \cup made' /\ cur' = cur
    BY <1>2, <1>a DEF Start, MakeJobs, TypeInv, TypeOK
  <2> QED
    BY <2>1 DEF NothingLeftBehind, Scheduled
<1>3. CASE WaitDrain
  BY <1>3 DEF WaitDrain, NothingLeftBehind
<1>4. CASE LoopPop \/ LoopPush
  <2>1. UNCHANGED <<cur, hand, rpc, rnew, made, cancelled, mpc>>
    BY <1>4 DEF LoopPop, LoopPush
  <2>2. /\ queue'[cur] \cup batch' = queue[cur] \cup batch
        /\ \A s \in StateIds : s # cur => queue'[s] = queue[s]
    BY <1>4, LoopKeeps
  <2>3. \A r \in Reloaders : Reloading(r) => rnew[r] # cur
    BY DEF StatesInv, Old, Reloading
  <2>4. \A j \in made : Scheduled(j) => Scheduled(j)'
    BY <2>1, <2>2, <2>3, <1>a DEF Scheduled, Reloading
  <2> QED
    BY <2>1, <2>4, <1>b
<1>5. ASSUME NEW r \in Reloaders, ReloadNext(r) PROVE NothingLeftBehind'
  <2>a. \A q \in Reloaders : rpc[r] # "idle" /\ q # r => ~Reloading(q)
    BY DEF NoOverlap, Reloading
  <2>1. CASE Spawn(r) \/ ReloadLoad(r) \/ ReloadBegin(r) \/ ReloadAcquire(r)
    <3>1. /\ UNCHANGED <<queue, batch, cur, hand, made, cancelled, mpc>>
          /\ \A q \in Reloaders : Reloading(q) => Reloading(q)' /\ rnew'[q] = rnew[q]
      BY <2>1
      DEF Spawn, ReloadLoad, ReloadReturn, ReloadBegin, ReloadAcquire, Reloading, TypeInv, TypeOK
    <3>2. \A j \in made : Scheduled(j) => Scheduled(j)'
      BY <3>1 DEF Scheduled
    <3> QED
      BY <3>1, <3>2, <1>b
  <2>2. CASE ReloadRelease(r)
    <3>1. /\ UNCHANGED <<queue, batch, cur, hand, made, cancelled, mpc, rnew>>
          /\ \A q \in Reloaders : Reloading(q) => Reloading(q)'
      BY <2>2 DEF ReloadRelease, Reloading, TypeInv, TypeOK
    <3>2. \A j \in made : Scheduled(j) => Scheduled(j)'
      BY <3>1 DEF Scheduled
    <3> QED
      BY <3>1, <3>2, <1>b
  <2>3. CASE ReloadPopAll(r)
    <3>a. rpc[r] = "popall" /\ rold[r] = cur /\ hand[r] = {}
      BY <2>3 DEF ReloadPopAll, StatesInv, QueueInv, Reloading
    <3>b. UNCHANGED <<batch, cur, made, cancelled, mpc, rnew>>
      BY <2>3 DEF ReloadPopAll
    <3>c. hand'[r] = queue[cur] /\ rpc'[r] = "move"
      BY <2>3, <3>a DEF ReloadPopAll, TypeInv, TypeOK
    <3>d. \A s \in StateIds : s # cur => queue'[s] = queue[s]
      BY <2>3, <3>a DEF ReloadPopAll, PopAll, TypeInv, TypeOK
    <3>1. /\ UNCHANGED <<batch, cur, made, cancelled, mpc, rnew>> /\ rpc[r] = "popall"
          /\ rold[r] = cur /\ hand[r] = {}
          /\ hand'[r] = queue[cur] /\ rpc'[r] = "move"
          /\ \A s \in StateIds : s # cur => queue'[s] = queue[s]
      BY <3>a, <3>b, <3>c, <3>d
    <3>2. Reloading(r)' /\ rnew[r] # cur
      BY <3>1 DEF Reloading, StatesInv, Old
    <3>3. \A j \in made : Scheduled(j) => Scheduled(j)'
      BY <3>1, <3>2, <2>a, <1>a DEF Scheduled
    <3> QED
      BY <3>1, <3>3, <1>b
  <2>4. ASSUME NEW j \in Jobs, ReloadKeep(r, j) PROVE NothingLeftBehind'
    <3>1. /\ UNCHANGED <<batch, cur, made, cancelled, mpc, rnew, rpc>> /\ rpc[r] = "move"
          /\ queue'[rnew[r]] = queue[rnew[r]] \cup {j} /\ hand'[r] = hand[r] \ {j}
          /\ \A s \in StateIds : queue[s] \subseteq queue'[s]
      BY <2>4 DEF ReloadKeep, TypeInv, TypeOK
    <3>2. Reloading(r)' /\ \A q \in Reloaders : Reloading(q) => q = r
      BY <3>1, <2>a DEF Reloading
    <3>3. \A k \in made : Scheduled(k) => Scheduled(k)'
      BY <3>1, <3>2, <1>a DEF Scheduled
    <3> QED
      BY <3>1, <3>3, <1>b
  <2>5. ASSUME NEW j \in Jobs, ReloadStop(r, j) PROVE NothingLeftBehind'
    <3>1. /\ UNCHANGED <<queue, batch, cur, made, mpc, rnew, rpc>> /\ rpc[r] = "move"
          /\ hand'[r] = hand[r] \ {j} /\ cancelled'[j] = TRUE
          /\ \A k \in made : cancelled[k] => cancelled'[k]
      BY <2>5 DEF ReloadStop, TypeInv, TypeOK
    <3>2. Reloading(r)' /\ \A q \in Reloaders : Reloading(q) => q = r
      BY <3>1, <2>a DEF Reloading
    <3>3. \A k \in made : k # j /\ Scheduled(k) => Scheduled(k)'
      BY <3>1, <3>2 DEF Scheduled
    <3> QED
      BY <3>1, <3>3 DEF NothingLeftBehind
  <2>6. CASE ReloadCreate(r)
    <3>1. /\ UNCHANGED <<batch, cur, hand, cancelled, mpc, rnew>> /\ rpc[r] = "create"
          /\ rpc'[r] = "install" /\ made' = made \cup (todo[r] \X {rnew[r]})
          /\ queue'[rnew[r]] = queue[rnew[r]] \cup (todo[r] \X {rnew[r]})
          /\ \A s \in StateIds : queue[s] \subseteq queue'[s]
      BY <2>6 DEF ReloadCreate, MakeJobs, TypeInv, TypeOK
    <3>2. Reloading(r)' /\ \A q \in Reloaders : Reloading(q) => q = r
      BY <3>1, <2>a DEF Reloading
    <3>3. \A k \in made : Scheduled(k) => Scheduled(k)'
      BY <3>1, <3>2, <1>a DEF Scheduled
    <3>4. \A k \in made' \ made : Scheduled(k)'
      BY <3>1, <3>2 DEF Scheduled
    <3> QED
      BY <3>1, <3>3, <3>4 DEF NothingLeftBehind
  <2>7. CASE ReloadInstall(r)
    <3>1. UNCHANGED <<queue, batch, hand, made, cancelled, mpc>> /\ rpc[r] = "install" /\ cur' = rnew[r]
      BY <2>7 DEF ReloadInstall
    <3>2. queue[cur] = {} /\ hand[r] = {}
      BY <3>1 DEF QueueInv, Moved
    <3>3. \A k \in made : Scheduled(k) => Scheduled(k)'
      BY <3>1, <3>2, <2>a DEF Scheduled
    <3> QED
      BY <3>1, <3>3, <1>b
  <2> QED
    BY <1>5, <2>1, <2>2, <2>3, <2>4, <2>5, <2>6, <2>7 DEF ReloadNext
<1>6. CASE LoopStart \/ LoopCheck \/ LoopDone \/ LoopTick \/ LoopAcquire \/ LoopSkip \/ LoopSpawn \/ LoopRelease
  BY <1>6, <1>1
  DEF LoopStart, LoopCheck, LoopDone, LoopTick, LoopAcquire, LoopSkip, LoopSpawn, LoopRelease
<1>7. CASE (\E i \in Idents : Add(i)) \/ Stop \/ WaitFinish
  BY <1>7, <1>1 DEF Add, Stop, WaitFinish
<1>8. CASE \/ Cancel \/ Clock \/ Fire \/ Signal \/ ReloaderExit \/ Terminated
           \/ \E f \in Configs \cup BadConfigs : Edit(f)
           \/ \E j \in Jobs : RunBegin(j) \/ RunEnd(j)
           \/ UNCHANGED vars
  BY <1>8, <1>1 DEF Cancel, Clock, Fire, Signal, ReloaderExit, Terminated, Edit, RunBegin, RunEnd, vars
<1> QED
  BY <1>2, <1>3, <1>4, <1>5, <1>6, <1>7, <1>8 DEF Next, MainNext, LoopNext

(***************************************************************************)
(* The file and the installed tasks.                                       *)
(***************************************************************************)

LEMMA ConvergeStep ==
  ASSUME TypeInv, NoOverlap, StatesInv, ConvergeInv, [Next]_vars
  PROVE  ConvergeInv'
<1> USE DEF envVars, sigVars, stateVars, jobVars, loopVars, reloadVars, mainVars
<1>1. ASSUME UNCHANGED <<file, unsignalled, sig, rpc, rconf, cur, tasks>> PROVE ConvergeInv'
  BY <1>1 DEF ConvergeInv
<1>2. ASSUME NEW i \in Idents, Add(i) PROVE ConvergeInv'
  <2>1. /\ tasks' = [tasks EXCEPT ![cur][i] = file[i]]
        /\ UNCHANGED <<file, unsignalled, sig, rpc, rconf, cur>>
        /\ sig = 0 /\ \A r \in Reloaders : rpc[r] = "idle"
    BY <1>2 DEF Add, TypeInv
  <2>2. tasks[cur] = file => tasks'[cur] = file
    BY <2>1 DEF TypeInv, TypeOK
  <2> QED
    BY <2>1, <2>2 DEF ConvergeInv
<1>3. CASE Signal
  <2>1. sig' # 0
    BY <1>3, AddressTypes DEF Signal, TypeInv
  <2> QED
    BY <2>1 DEF ConvergeInv
<1>4. ASSUME NEW f \in Configs \cup BadConfigs, Edit(f) PROVE ConvergeInv'
  BY <1>4 DEF Edit, ConvergeInv
<1>5. ASSUME NEW r \in Reloaders, ReloadNext(r) PROVE ConvergeInv'
  <2>a. \A q \in Reloaders : rpc[r] # "idle" /\ q # r => rpc[q] = "idle"
    BY DEF NoOverlap
  <2>b. UNCHANGED <<file, unsignalled>>
    BY <1>5
    DEF ReloadNext, Spawn, ReloadLoad, ReloadBegin, ReloadAcquire, ReloadPopAll, ReloadRelease,
        ReloadCreate, ReloadInstall, ReloadKeep, ReloadStop
  <2>1. CASE Spawn(r)
    <3>1. rpc'[r] = "load"
      BY <2>1 DEF Spawn, TypeInv, TypeOK
    <3> QED
      BY <3>1 DEF ConvergeInv
  <2>2. CASE ReloadLoad(r)
    <3>1. file \notin BadConfigs => rpc'[r] = "begin" /\ rconf'[r] = file
      BY <2>2 DEF ReloadLoad, TypeInv, TypeOK
    <3> QED
      BY <3>1, <2>b DEF ConvergeInv
  <2>3. ASSUME rpc[r] \notin {"idle", "load"}, UNCHANGED <<sig, rconf>>,
               rpc'[r] \notin {"idle", "load"}
        PROVE  ConvergeInv'
    BY <2>3, <2>a, <2>b DEF ConvergeInv
  <2>4. CASE ReloadBegin(r) \/ ReloadAcquire(r) \/ ReloadPopAll(r) \/ ReloadRelease(r) \/ ReloadCreate(r)
    BY <2>4, <2>3
    DEF ReloadBegin, ReloadAcquire, ReloadPopAll, ReloadRelease, ReloadCreate, TypeInv, TypeOK
  <2>5. ASSUME NEW j \in Jobs, ReloadKeep(r, j) \/ ReloadStop(r, j) PROVE ConvergeInv'
    BY <2>5, <2>3 DEF ReloadKeep, ReloadStop
  <2>6. CASE ReloadInstall(r)
    <3>1. /\ rpc[r] = "install" /\ UNCHANGED <<sig, tasks>> /\ cur' = rnew[r]
          /\ \A q \in Reloaders : rpc'[q] = IF q = r THEN "idle" ELSE rpc[q]
      BY <2>6 DEF ReloadInstall, ReloadReturn, TypeInv, TypeOK
    <3>2. tasks[rnew[r]] = rconf[r]
      BY <3>1 DEF StatesInv, Reloading
    <3>3. \A q \in Reloaders : rpc'[q] = "idle"
      BY <3>1, <2>a
    <3> QED
      BY <3>1, <3>2, <3>3, <2>a, <2>b DEF ConvergeInv
  <2> QED
    BY <1>5, <2>1, <2>2, <2>4, <2>5, <2>6 DEF ReloadNext
<1>6. CASE LoopNext
  BY <1>6, <1>1
  DEF LoopNext, LoopStart, LoopCheck, LoopDone, LoopTick, LoopAcquire, LoopSkip,
      LoopPop, LoopSpawn, LoopPush, LoopRelease
<1>7. CASE Start \/ Stop \/ WaitDrain \/ WaitFinish
  BY <1>7, <1>1 DEF Start, Stop, WaitDrain, WaitFinish
<1>8. CASE \/ Cancel \/ Clock \/ Fire \/ ReloaderExit \/ Terminated
           \/ \E j \in Jobs : RunBegin(j) \/ RunEnd(j)
           \/ UNCHANGED vars
  BY <1>8, <1>1 DEF Cancel, Clock, Fire, ReloaderExit, Terminated, RunBegin, RunEnd, vars
<1> QED
  BY <1>2, <1>3, <1>4, <1>5, <1>6, <1>7, <1>8 DEF Next, MainNext

LEMMA SerialInit == Init => SerialInv
<1> SUFFICES ASSUME Init PROVE SerialInv
  OBVIOUS
<1>1. StatesInv
  BY DEF Init, StatesInv, Old, Reloading
<1>2. QueueInv
  BY DEF Init, QueueInv, Moved
<1>3. OnePerIdent
  BY DEF Init, OnePerIdent, Held
<1>4. NewInv
  BY DEF Init, NewInv, Moved
<1>5. LiveInv
  BY StateIdsFacts DEF Init, LiveInv, Live
<1>6. NothingLeftBehind /\ ConvergeInv
  BY DEF Init, NothingLeftBehind, ConvergeInv
<1> QED
  BY <1>1, <1>2, <1>3, <1>4, <1>5, <1>6 DEF SerialInv

LEMMA SerialInvariant == Spec /\ []NoOverlap => []SerialInv
<1>1. TypeInv /\ FlagExclusion /\ PlaceInv /\ PaceInv /\ NoOverlap /\ SerialInv /\ [Next]_vars => SerialInv'
  <2> SUFFICES ASSUME TypeInv, FlagExclusion, PlaceInv, PaceInv, NoOverlap, SerialInv, [Next]_vars
               PROVE  SerialInv'
    OBVIOUS
  <2>1. /\ StatesInv /\ QueueInv /\ OnePerIdent /\ NewInv /\ LiveInv /\ NothingLeftBehind /\ ConvergeInv
        /\ JobInOnePlace /\ Addresses
    BY DEF SerialInv, PlaceInv
  <2>2. StatesInv'
    BY <2>1, StatesStep
  <2>3. QueueInv'
    BY <2>1, QueueStep
  <2>4. OnePerIdent'
    BY <2>1, OnePerIdentStep
  <2>5. NewInv'
    BY <2>1, <2>3, NewStep
  <2>6. LiveInv'
    BY <2>1, <2>3, LiveStep
  <2>7. NothingLeftBehind'
    BY <2>1, <2>3, BehindStep
  <2>8. ConvergeInv'
    BY <2>1, ConvergeStep
  <2> QED
    BY <2>2, <2>3, <2>4, <2>5, <2>6, <2>7, <2>8 DEF SerialInv
<1> QED
  BY <1>1, SerialInit, TypeInvariant, FlagExcludes, PlaceInvariant, PaceInvariant, PTL DEF Spec

\* While reloads do not overlap, no ident has two jobs, and between reloads the scheduler
\* has exactly one job for each task of the installed state, with its configuration, and
\* none anywhere else: for any number of reloads, at any point of the run loop and of
\* the shutdown.
THEOREM SerialReloadsKeepJobs == Spec /\ []NoOverlap => []JobsMatchTasks
<1>1. TypeInv /\ PlaceInv /\ PaceInv /\ SerialInv => JobsMatchTasks
  <2> SUFFICES ASSUME TypeInv, PlaceInv, PaceInv, SerialInv PROVE JobsMatchTasks
    OBVIOUS
  <2>1. \A j, k \in Jobs : Held(j) /\ Held(k) /\ Ident(j) = Ident(k) => j = k
    BY DEF SerialInv, OnePerIdent
  <2>2. ASSUME Quiet PROVE \A r \in Reloaders : ~Moved(r)
    BY <2>2 DEF Quiet, Moved, Reloading
  <2>3. \A j \in Live : cfg[j] = tasks[cur][Ident(j)] /\ cfg[j] # Absent
    <3>1. \A j \in Live : j \in Jobs /\ Held(j)
      BY DEF Live, Held, TypeInv, TypeOK
    <3>2. \A j \in Live : cfg[j] \in Periods
      BY <3>1 DEF PlaceInv, JobInOnePlace, PaceInv, PeriodsKnown
    <3> QED
      BY <3>2, PeriodsAssumption DEF SerialInv, LiveInv
  <2>4. ASSUME Quiet PROVE \A i \in Tasks(tasks[cur]) : \E j \in Live : Ident(j) = i
    BY <2>2, <2>4 DEF SerialInv, LiveInv, Quiet
  <2>5. ASSUME Quiet PROVE \A s \in StateIds \ {cur} : queue[s] = {}
    BY <2>2, <2>5 DEF SerialInv, QueueInv
  <2> QED
    BY <2>1, <2>3, <2>4, <2>5 DEF JobsMatchTasks, Live
<1> QED
  BY <1>1, SerialInvariant, TypeInvariant, PlaceInvariant, PaceInvariant, PTL

\* While reloads do not overlap, no job is dropped without being stopped.
THEOREM SerialReloadsLeaveNothing == Spec /\ []NoOverlap => []NothingLeftBehind
<1>1. SerialInv => NothingLeftBehind
  BY DEF SerialInv
<1> QED
  BY <1>1, SerialInvariant, PTL

\* While reloads do not overlap, the tasks installed once they are over are those of the
\* file the last signal announced.
THEOREM SerialReloadsConverge == Spec /\ []NoOverlap => []ConfigConverges
<1>1. SerialInv => ConfigConverges
  BY DEF SerialInv, ConvergeInv, ConfigConverges
<1> QED
  BY <1>1, SerialInvariant, PTL

\* With a single reload goroutine reloads cannot overlap: the three theorems hold of
\* every behaviour.
COROLLARY OneReloaderIsSerial ==
  ASSUME NEW r0, Reloaders = {r0}
  PROVE  Spec => []JobsMatchTasks /\ []NothingLeftBehind /\ []ConfigConverges
<1>1. NoOverlap
  BY DEF NoOverlap
<1> QED
  BY <1>1, SerialReloadsKeepJobs, SerialReloadsLeaveNothing, SerialReloadsConverge, PTL
=============================================================================
