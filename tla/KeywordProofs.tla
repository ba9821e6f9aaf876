--------------------------- MODULE KeywordProofs ---------------------------
(***************************************************************************)
(* Theorems about Keyword, for any number of tasks, every setting and      *)
(* every size of a line, of the buffer and of the channels.                *)
(***************************************************************************)
EXTENDS Keyword, TLAPS

USE KeywordAssumption DEF None

\* What belongs to a task and its harvester does not change.
Same(t) ==
  /\ cpc'[t] = cpc[t] /\ cur'[t] = cur[t] /\ mem'[t] = mem[t]
  /\ rpc'[t] = rpc[t] /\ item'[t] = item[t] /\ err'[t] = err[t]
  /\ bpos'[t] = bpos[t] /\ fpos'[t] = fpos[t] /\ offset'[t] = offset[t]
  /\ lines'[t] = lines[t] /\ done'[t] = done[t] /\ closed'[t] = closed[t]
  /\ last'[t] = last[t] /\ next'[t] = next[t]

(***************************************************************************)
(* Types.                                                                  *)
(***************************************************************************)

LEMMA NoItemType == NoItem \in Items
  BY DEF NoItem, Items

LEMMA StartType ==
  ASSUME TypeOK, NEW t \in Tasks
  PROVE  StartOffset(t, disk) \in Nat
<1>1. disk[t] \in Offsets /\ size[t] \in Nat
  BY DEF TypeOK
<1> QED
  BY <1>1 DEF StartOffset, Get, Offsets

LEMMA KeywordTypeInit == Init => TypeOK
<1> SUFFICES ASSUME Init PROVE TypeOK
  OBVIOUS
<1>1. world \in Worlds /\ mpc = "up" /\ lives = 1 /\ events = 0 /\ ctxDone = FALSE
  BY DEF Init, Fresh
<1>2. size \in [Tasks -> Nat]
  <2>1. world.maxSize \in Nat
    BY <1>1
  <2> QED
    BY <2>1 DEF Init
<1>3. disk \in [Tasks -> Offsets] /\ mem \in [Tasks -> [Tasks -> Offsets]]
  BY DEF Init, Fresh, AllTasks, Offsets
<1>4. /\ cpc \in [Tasks -> TaskPcs] /\ rpc \in [Tasks -> ReaderPcs]
      /\ err \in [Tasks -> {"none", "eof", "closed"}]
  BY DEF Init, Fresh, AllTasks, TaskPcs, ReaderPcs
<1>5. cur \in [Tasks -> Items] /\ item \in [Tasks -> Items]
  BY NoItemType DEF Init, Fresh, AllTasks
<1>6. /\ bpos \in [Tasks -> Nat] /\ fpos \in [Tasks -> Nat] /\ offset \in [Tasks -> Nat]
      /\ last \in [Tasks -> Nat] /\ next \in [Tasks -> Nat] /\ known \in [Tasks -> Nat]
  BY DEF Init, Fresh, AllTasks
<1>7. lines \in [Tasks -> Seq(Items)] /\ \A t \in Tasks : Len(lines[t]) <= ChanCap
  BY DEF Init, Fresh, AllTasks
<1>8. done \in [Tasks -> BOOLEAN] /\ closed \in [Tasks -> BOOLEAN]
  BY DEF Init, Fresh, AllTasks
<1>9. events \in 0 .. EventCap /\ lives \in Nat
  BY <1>1
<1> QED
  BY <1>1, <1>2, <1>3, <1>4, <1>5, <1>6, <1>7, <1>8, <1>9 DEF TypeOK

LEMMA TaskType ==
  ASSUME TypeOK, NEW t \in Tasks, TaskNext(t)
  PROVE  TypeOK'
<1> USE DEF schedVars, taskVars, readerVars, sharedVars, ghostVars
<1>1. CASE Begin(t)
  <2>1. PICK start \in Nat : start = StartOffset(t, disk)
    BY StartType
  <2>2. /\ bpos' = [bpos EXCEPT ![t] = start] /\ fpos' = [fpos EXCEPT ![t] = start]
        /\ offset' = [offset EXCEPT ![t] = start]
        /\ last' = [last EXCEPT ![t] = start] /\ next' = [next EXCEPT ![t] = start]
        /\ known' = [known EXCEPT ![t] = IF disk[t] = None THEN start ELSE @]
    BY <1>1, <2>1 DEF Begin, load
  <2>3. /\ bpos' \in [Tasks -> Nat] /\ fpos' \in [Tasks -> Nat] /\ offset' \in [Tasks -> Nat]
        /\ last' \in [Tasks -> Nat] /\ next' \in [Tasks -> Nat] /\ known' \in [Tasks -> Nat]
    BY <2>2 DEF TypeOK
  <2>4. mem' \in [Tasks -> [Tasks -> Offsets]]
    BY <1>1 DEF Begin, load, TypeOK
  <2>5. cpc' \in [Tasks -> TaskPcs] /\ rpc' \in [Tasks -> ReaderPcs]
    BY <1>1 DEF Begin, load, TypeOK, TaskPcs, ReaderPcs
  <2> QED
    BY <1>1, <2>3, <2>4, <2>5 DEF Begin, load, TypeOK
<1>2. CASE BeginFail(t) \/ Return(t) \/ SaveFail(t)
  <2>1. cpc' \in [Tasks -> TaskPcs]
    <3>1. PICK p \in {"error", "close", "unsaved"} : cpc' = [cpc EXCEPT ![t] = p]
      BY <1>2 DEF BeginFail, Return, SaveFail
    <3>2. p \in TaskPcs
      BY DEF TaskPcs
    <3> QED
      BY <3>1, <3>2 DEF TypeOK
  <2> QED
    BY <1>2, <2>1 DEF BeginFail, Return, SaveFail, TypeOK
<1>3. CASE EmitError(t)
  <2>1. cpc' \in [Tasks -> TaskPcs]
    BY <1>3 DEF EmitError, TypeOK, TaskPcs
  <2>2. events' \in 0 .. EventCap
    <3>1. events \in 0 .. EventCap
      BY DEF TypeOK
    <3>2. (events < EventCap /\ events' = events + 1) \/ events' = events
      BY <1>3 DEF EmitError
    <3> QED
      BY <3>1, <3>2
  <2> QED
    BY <1>3, <2>1, <2>2 DEF EmitError, TypeOK
<1>4. ASSUME lines[t] # <<>>, lines' = [lines EXCEPT ![t] = Tail(@)]
      PROVE  /\ Head(lines[t]) \in Items
             /\ lines' \in [Tasks -> Seq(Items)] /\ \A x \in Tasks : Len(lines'[x]) <= ChanCap
  <2>1. PICK q \in Seq(Items) : q = lines[t]
    BY DEF TypeOK
  <2>2. q # <<>> /\ Len(q) <= ChanCap /\ lines' = [lines EXCEPT ![t] = Tail(q)]
    BY <1>4, <2>1 DEF TypeOK
  <2>3. Head(q) \in Items /\ Tail(q) \in Seq(Items) /\ Len(Tail(q)) <= ChanCap
    BY <2>2
  <2> QED
    BY <2>1, <2>2, <2>3 DEF TypeOK
<1>5. CASE ReadLine(t)
  <2>1. cpc' \in [Tasks -> TaskPcs]
    BY <1>5 DEF ReadLine, TypeOK, TaskPcs
  <2>2. cur' \in [Tasks -> Items]
    BY <1>4, <1>5 DEF ReadLine, TypeOK
  <2>3. lines' \in [Tasks -> Seq(Items)] /\ \A x \in Tasks : Len(lines'[x]) <= ChanCap
    BY <1>4, <1>5 DEF ReadLine
  <2> QED
    BY <1>5, <2>1, <2>2, <2>3 DEF ReadLine, TypeOK
<1>6. ASSUME NEW i \in Items, Handled(t, i)
      PROVE  last' \in [Tasks -> Nat] /\ next' \in [Tasks -> Nat] /\ known' \in [Tasks -> Nat]
  BY <1>6 DEF Handled, TypeOK, Items
<1>7. CASE SkipLine(t)
  <2>1. lines' \in [Tasks -> Seq(Items)] /\ (\A x \in Tasks : Len(lines'[x]) <= ChanCap) /\ Head(lines[t]) \in Items
    BY <1>4, <1>7 DEF SkipLine
  <2>2. last' \in [Tasks -> Nat] /\ next' \in [Tasks -> Nat] /\ known' \in [Tasks -> Nat]
    BY <1>6, <1>7, <2>1 DEF SkipLine
  <2> QED
    BY <1>7, <2>1, <2>2 DEF SkipLine, TypeOK
<1>8. CASE Emit(t)
  <2>1. cur[t] \in Items
    BY DEF TypeOK
  <2>2. last' \in [Tasks -> Nat] /\ next' \in [Tasks -> Nat] /\ known' \in [Tasks -> Nat]
    BY <1>6, <1>8, <2>1 DEF Emit
  <2>3. cpc' \in [Tasks -> TaskPcs] /\ cur' \in [Tasks -> Items]
    BY <1>8, NoItemType DEF Emit, TypeOK, TaskPcs
  <2>4. events' \in 0 .. EventCap
    BY <1>8 DEF Emit, TypeOK
  <2> QED
    BY <1>8, <2>2, <2>3, <2>4 DEF Emit, TypeOK
<1>9. CASE CloseDone(t) \/ CloseFile(t)
  <2>1. cpc' \in [Tasks -> TaskPcs]
    <3>1. PICK p \in TaskPcs : cpc' = [cpc EXCEPT ![t] = p]
      BY <1>9 DEF CloseDone, CloseFile, TaskPcs
    <3> QED
      BY <3>1 DEF TypeOK
  <2>2. done' \in [Tasks -> BOOLEAN] /\ closed' \in [Tasks -> BOOLEAN]
    BY <1>9 DEF CloseDone, CloseFile, TypeOK
  <2> QED
    BY <1>9, <2>1, <2>2 DEF CloseDone, CloseFile, TypeOK
<1>10. CASE CloseSet(t)
  <2>1. cpc' \in [Tasks -> TaskPcs]
    BY <1>10 DEF CloseSet, TypeOK, TaskPcs
  <2>2. mem' \in [Tasks -> [Tasks -> Offsets]]
    BY <1>10 DEF CloseSet, Set, TypeOK, Offsets
  <2> QED
    BY <1>10, <2>1, <2>2 DEF CloseSet, TypeOK
<1>11. CASE Save(t)
  <2>1. cpc' \in [Tasks -> TaskPcs] /\ disk' \in [Tasks -> Offsets]
    BY <1>11 DEF Save, TypeOK, TaskPcs
  <2> QED
    BY <1>11, <2>1 DEF Save, TypeOK
<1> QED
  BY <1>1, <1>2, <1>3, <1>5, <1>7, <1>8, <1>9, <1>10, <1>11 DEF TaskNext

LEMMA LineEndFacts ==
  ASSUME NEW p \in Nat
  PROVE  LineEnd(p) \in Nat /\ LineEnd(p) > p /\ (p % LineLen = 0 => LineEnd(p) = p + LineLen)
<1>1. LineLen \in Nat /\ LineLen > 0 /\ p % LineLen \in 0 .. LineLen - 1
  OBVIOUS
<1>2. p % LineLen <= p
  OBVIOUS
<1> QED
  BY <1>1, <1>2 DEF LineEnd

LEMMA ReaderType ==
  ASSUME TypeOK, NEW t \in Tasks, ReaderNext(t)
  PROVE  TypeOK'
<1> USE DEF schedVars, taskVars, readerVars, sharedVars, ghostVars
<1>a. bpos[t] \in Nat /\ fpos[t] \in Nat /\ size[t] \in Nat /\ offset[t] \in Nat
  BY DEF TypeOK
<1>1. CASE Fill(t)
  <2>1. Min2(size[t], bpos[t] + Ahead) \in Nat
    BY <1>a DEF Min2
  <2>2. fpos' \in [Tasks -> Nat]
    BY <1>1, <2>1 DEF Fill, TypeOK
  <2> QED
    BY <1>1, <2>2 DEF Fill, TypeOK
<1>2. ASSUME NEW i \in Items, NEW e \in {"none", "eof", "closed"}, Holds(t, i, e)
      PROVE  /\ item' \in [Tasks -> Items] /\ err' \in [Tasks -> {"none", "eof", "closed"}]
             /\ bpos' \in [Tasks -> Nat] /\ rpc' \in [Tasks -> ReaderPcs]
  <2>1. i[2] \in Nat
    BY DEF Items
  <2> QED
    BY <1>2, <2>1 DEF Holds, TypeOK, ReaderPcs
<1>3. CASE TakeLine(t)
  <2>1. <<bpos[t], LineEnd(bpos[t])>> \in Items
    BY <1>a, LineEndFacts DEF Items
  <2>2. /\ item' \in [Tasks -> Items] /\ err' \in [Tasks -> {"none", "eof", "closed"}]
        /\ bpos' \in [Tasks -> Nat] /\ rpc' \in [Tasks -> ReaderPcs]
    BY <1>2, <1>3, <2>1 DEF TakeLine
  <2> QED
    BY <1>3, <2>2 DEF TakeLine, TypeOK
<1>4. CASE TakeRest(t) \/ ReadFail(t)
  <2>1. <<bpos[t], fpos[t]>> \in Items
    BY <1>a DEF Items
  <2>2. /\ item' \in [Tasks -> Items] /\ err' \in [Tasks -> {"none", "eof", "closed"}]
        /\ bpos' \in [Tasks -> Nat] /\ rpc' \in [Tasks -> ReaderPcs]
    <3>1. CASE bpos[t] < fpos[t]
      BY <1>2, <1>4, <2>1, <3>1 DEF TakeRest, ReadFail
    <3>2. CASE ~(bpos[t] < fpos[t])
      BY <1>4, <3>2 DEF TakeRest, ReadFail, TypeOK, ReaderPcs
    <3> QED
      BY <3>1, <3>2
  <2> QED
    BY <1>4, <2>2 DEF TakeRest, ReadFail, TypeOK
<1>5. CASE Send(t)
  <2>1. PICK q \in Seq(Items), i \in Items : q = lines[t] /\ i = item[t]
    BY DEF TypeOK
  <2>2. Len(q) < ChanCap /\ lines' = [lines EXCEPT ![t] = Append(q, i)]
    BY <1>5, <2>1 DEF Send
  <2>3. Append(q, i) \in Seq(Items) /\ Len(Append(q, i)) = Len(q) + 1 /\ Len(q) \in Nat
    OBVIOUS
  <2>4. lines' \in [Tasks -> Seq(Items)] /\ \A x \in Tasks : Len(lines'[x]) <= ChanCap
    <3>1. lines \in [Tasks -> Seq(Items)] /\ \A x \in Tasks : Len(lines[x]) <= ChanCap
      BY DEF TypeOK
    <3> DEFINE r == Append(q, i)
    <3>2. r \in Seq(Items) /\ Len(r) <= ChanCap
      BY <2>2, <2>3
    <3>3. lines' = [lines EXCEPT ![t] = r]
      BY <2>2
    <3> HIDE DEF r
    <3> QED
      BY <3>1, <3>2, <3>3
  <2>5. item' \in [Tasks -> Items] /\ rpc' \in [Tasks -> ReaderPcs]
    BY <1>5, NoItemType DEF Send, TypeOK, ReaderPcs
  <2> QED
    BY <1>5, <2>4, <2>5 DEF Send, TypeOK
<1>6. CASE Track(t)
  <2>1. offset' \in [Tasks -> Nat]
    BY <1>6, <1>a DEF Track, Position, TypeOK
  <2>2. rpc' \in [Tasks -> ReaderPcs]
    <3>1. err[t] \in {"none", "eof", "closed"}
      BY DEF TypeOK
    <3> QED
      BY <1>6, <3>1 DEF Track, TypeOK, ReaderPcs
  <2> QED
    BY <1>6, <2>1, <2>2 DEF Track, TypeOK
<1>7. CASE MaybeSave(t)
  <2>1. mem' \in [Tasks -> [Tasks -> Offsets]]
    <3>1. mem \in [Tasks -> [Tasks -> Offsets]] /\ offset[t] \in Offsets
      BY <1>a DEF TypeOK, Offsets
    <3>2. CASE Set(t)
      BY <3>1, <3>2 DEF Set
    <3> QED
      BY <1>7, <3>1, <3>2 DEF MaybeSave
  <2>2. rpc' \in [Tasks -> ReaderPcs]
    BY <1>7 DEF MaybeSave, TypeOK, ReaderPcs
  <2> QED
    BY <1>7, <2>1, <2>2 DEF MaybeSave, TypeOK
<1>8. CASE Wake(t) \/ WaitClosed(t)
  <2>1. /\ bpos' \in [Tasks -> Nat] /\ fpos' \in [Tasks -> Nat] /\ rpc' \in [Tasks -> ReaderPcs]
        /\ err' \in [Tasks -> {"none", "eof", "closed"}]
    <3>1. CASE Wake(t)
      BY <3>1 DEF Wake, Reset, TypeOK, ReaderPcs
    <3>2. CASE WaitClosed(t)
      BY <3>2 DEF WaitClosed, TypeOK, ReaderPcs
    <3> QED
      BY <1>8, <3>1, <3>2
  <2> QED
    BY <1>8, <2>1 DEF Wake, WaitClosed, TypeOK
<1> QED
  BY <1>1, <1>3, <1>4, <1>5, <1>6, <1>7, <1>8 DEF ReaderNext

LEMMA KeywordTypeStep == TypeOK /\ [Next]_vars => TypeOK'
<1> SUFFICES ASSUME TypeOK, [Next]_vars PROVE TypeOK'
  OBVIOUS
<1> USE DEF schedVars, taskVars, readerVars, sharedVars, ghostVars
<1>1. ASSUME NEW t \in Tasks, Truncate(t) PROVE TypeOK'
  BY <1>1 DEF Truncate, TypeOK
<1>2. ASSUME NEW t \in Tasks, NEW n \in world.writes, Write(t, n) PROVE TypeOK'
  <2>1. n \in Nat
    BY DEF TypeOK
  <2>2. size' \in [Tasks -> Nat]
    BY <1>2, <2>1 DEF Write, TypeOK
  <2> QED
    BY <1>2, <2>2 DEF Write, TypeOK
<1>3. CASE Engine
  <2>1. events' \in 0 .. EventCap
    BY <1>3 DEF Engine, TypeOK
  <2> QED
    BY <1>3, <2>1 DEF Engine, TypeOK
<1>4. CASE Stop
  BY <1>4 DEF Stop, TypeOK
<1>5. CASE Wait
  <2>1. rpc' \in [Tasks -> ReaderPcs]
    BY <1>5 DEF Wait, TypeOK, ReaderPcs
  <2>2. events' \in 0 .. EventCap
    BY <1>5 DEF Wait
  <2> QED
    BY <1>5, <2>1, <2>2 DEF Wait, TypeOK
<1>6. CASE Boot
  <2>1. UNCHANGED <<world, size, disk, known>> /\ mpc' = "up" /\ lives' = lives + 1 /\ events' = 0 /\ ctxDone' = FALSE
    BY <1>6 DEF Boot, Reborn
  <2>2. mem' \in [Tasks -> [Tasks -> Offsets]]
    BY <1>6 DEF Boot, Reborn, AllTasks, Offsets
  <2>3. /\ cpc' \in [Tasks -> TaskPcs] /\ rpc' \in [Tasks -> ReaderPcs]
        /\ err' \in [Tasks -> {"none", "eof", "closed"}]
    BY <1>6 DEF Boot, Reborn, AllTasks, TaskPcs, ReaderPcs
  <2>4. cur' \in [Tasks -> Items] /\ item' \in [Tasks -> Items]
    BY <1>6, NoItemType DEF Boot, Reborn, AllTasks
  <2>5. /\ bpos' \in [Tasks -> Nat] /\ fpos' \in [Tasks -> Nat] /\ offset' \in [Tasks -> Nat]
        /\ last' \in [Tasks -> Nat] /\ next' \in [Tasks -> Nat]
    BY <1>6 DEF Boot, Reborn, AllTasks
  <2>6. lines' \in [Tasks -> Seq(Items)] /\ \A t \in Tasks : Len(lines'[t]) <= ChanCap
    BY <1>6 DEF Boot, Reborn, AllTasks
  <2>7. done' \in [Tasks -> BOOLEAN] /\ closed' \in [Tasks -> BOOLEAN]
    BY <1>6 DEF Boot, Reborn, AllTasks
  <2>8. events' \in 0 .. EventCap /\ lives' \in Nat
    BY <2>1 DEF TypeOK
  <2> QED
    BY <2>1, <2>2, <2>3, <2>4, <2>5, <2>6, <2>7, <2>8 DEF TypeOK
<1>7. CASE UNCHANGED vars
  BY <1>7 DEF vars, TypeOK
<1> QED
  BY <1>1, <1>2, <1>3, <1>4, <1>5, <1>6, <1>7, TaskType, ReaderType DEF Next, Terminated

\* The tasks, the harvesters and the registries keep their types, and neither the line
\* channel nor the event channel ever holds more than its capacity.
THEOREM KeywordTypeCorrect == Spec => []TypeOK
  BY KeywordTypeInit, KeywordTypeStep, PTL DEF Spec

(***************************************************************************)
(* The invariant: what is between the reader and the task.                 *)
(***************************************************************************)

Working(t) == cpc[t] \in {"read", "emit"}

\* There is a reader once the file is open, and the file is closed after the task has
\* handled its last item.
Life(t) ==
  /\ cpc[t] \in {"begin", "error"} => rpc[t] = "none"
  /\ rpc[t] = "none" => cpc[t] \in {"begin", "error", "done"} /\ lines[t] = <<>>
  /\ closed[t] => cpc[t] \in {"save", "done", "unsaved"}

\* The buffer and the offset; at the end of the file the buffer is empty.
Buffer(t) ==
  /\ rpc[t] # "none" => /\ offset[t] <= fpos[t] /\ bpos[t] <= fpos[t]
                        /\ fpos[t] <= bpos[t] + Ahead
  /\ rpc[t] = "wait" \/ (rpc[t] \in {"send", "track"} /\ err[t] = "eof") => bpos[t] = fpos[t]

\* Each of the items begins where the one before it ends, the first at f, and none
\* begins behind o.
Chain(q, f, o) ==
  \A i \in 1 .. Len(q) : q[i][1] = (IF i = 1 THEN f ELSE q[i - 1][2]) /\ q[i][1] <= o

\* Where the last of them ends.
End(q, f) == IF q = <<>> THEN f ELSE q[Len(q)][2]

\* Where the first item in the channel begins, and where the last one ends.
From(t) == IF cpc[t] = "emit" THEN cur[t][2] ELSE next[t]
To(t) == End(lines[t], From(t))

\* From the item the task works on to the one the reader holds, each begins where the
\* one before it ends, and none begins behind the offset.
Queue(t) ==
  Working(t) =>
    /\ cpc[t] = "emit" => cur[t][1] = next[t] /\ cur[t][1] <= offset[t]
    /\ Chain(lines[t], From(t), offset[t])
    /\ rpc[t] = "send" => item[t][1] = To(t) /\ item[t][2] = bpos[t] /\ item[t][1] <= offset[t]
    /\ rpc[t] # "send" => To(t) = bpos[t]
    /\ rpc[t] \in {"read", "save", "wait"} => bpos[t] <= offset[t]

\* The offset is not behind the last item handled, and neither is the one that the task
\* saves.
Saved(t) ==
  /\ rpc[t] # "none" => last[t] <= offset[t]
  /\ cpc[t] \in {"closefile", "save"} => last[t] <= mem[t][t]

Whole(i) == i[1] % LineLen = 0 /\ i[2] = i[1] + LineLen
AllWhole(q) == \A i \in 1 .. Len(q) : Whole(q[i])

\* Whole lines are read as whole lines.
Lined(t) ==
  Tidy =>
    /\ size[t] % LineLen = 0
    /\ rpc[t] # "none" => fpos[t] <= size[t]
    /\ Working(t) => /\ bpos[t] % LineLen = 0
                     /\ cpc[t] = "emit" => Whole(cur[t])
                     /\ AllWhole(lines[t])
                     /\ rpc[t] = "send" => Whole(item[t])

IInv == TypeOK /\ \A t \in Tasks : Life(t) /\ Buffer(t) /\ Queue(t) /\ Saved(t) /\ Lined(t)

(***************************************************************************)
(* Whose step it is.                                                       *)
(***************************************************************************)

LEMMA OtherTask ==
  ASSUME TypeOK, NEW t \in Tasks, NEW x \in Tasks, x # t, TaskNext(t)
  PROVE  Same(x)
<1> USE DEF Same, TypeOK, schedVars, taskVars, readerVars, sharedVars, ghostVars
<1>1. CASE Begin(t)
  BY <1>1 DEF Begin, load
<1>2. CASE BeginFail(t) \/ EmitError(t) \/ Return(t) \/ SaveFail(t) \/ Save(t)
  BY <1>2 DEF BeginFail, EmitError, Return, SaveFail, Save
<1>3. CASE ReadLine(t)
  BY <1>3 DEF ReadLine
<1>4. CASE SkipLine(t)
  BY <1>4 DEF SkipLine, Handled
<1>5. CASE Emit(t)
  BY <1>5 DEF Emit, Handled
<1>6. CASE CloseDone(t) \/ CloseFile(t)
  BY SMTT(30), <1>6 DEF CloseDone, CloseFile
<1>7. CASE CloseSet(t)
  BY <1>7 DEF CloseSet, Set
<1> QED
  BY <1>1, <1>2, <1>3, <1>4, <1>5, <1>6, <1>7 DEF TaskNext

LEMMA OtherReader ==
  ASSUME TypeOK, NEW t \in Tasks, NEW x \in Tasks, x # t, ReaderNext(t)
  PROVE  Same(x)
<1> USE DEF Same, TypeOK, schedVars, taskVars, readerVars, sharedVars, ghostVars
<1>1. CASE Fill(t)
  BY <1>1 DEF Fill
<1>2. CASE TakeLine(t)
  BY <1>2 DEF TakeLine, Holds
<1>3. CASE TakeRest(t)
  BY SMTT(30), <1>3 DEF TakeRest, Holds
<1>4. CASE ReadFail(t)
  BY SMTT(30), <1>4 DEF ReadFail, Holds
<1>5. CASE Send(t)
  BY <1>5 DEF Send
<1>6. CASE Track(t)
  BY <1>6 DEF Track
<1>7. CASE MaybeSave(t)
  <2>1. mem'[x] = mem[x]
    BY <1>7 DEF MaybeSave, Set
  <2> QED
    BY <1>7, <2>1 DEF MaybeSave
<1>8. CASE Wake(t) \/ WaitClosed(t)
  BY <1>8 DEF Wake, WaitClosed
<1> QED
  BY <1>1, <1>2, <1>3, <1>4, <1>5, <1>6, <1>7, <1>8 DEF ReaderNext

\* What a step is to a task: its own, its reader's, the end or the start of the process,
\* or another's.
LEMMA WhoseStep ==
  ASSUME TypeOK, [Next]_vars, NEW x \in Tasks
  PROVE  TaskNext(x) \/ ReaderNext(x) \/ Wait \/ Boot \/ Same(x)
<1> USE DEF Same, schedVars, taskVars, readerVars, sharedVars, ghostVars
<1>1. CASE \E t \in Tasks : TaskNext(t) \/ ReaderNext(t)
  BY <1>1, OtherTask, OtherReader DEF TypeOK
<1>2. CASE \E t \in Tasks : Truncate(t)
  BY <1>2 DEF Truncate
<1>3. CASE \E t \in Tasks, n \in world.writes : Write(t, n)
  BY <1>3 DEF Write
<1>4. CASE Engine \/ Stop
  BY <1>4 DEF Engine, Stop
<1>5. CASE UNCHANGED vars
  BY <1>5 DEF vars
<1> QED
  BY <1>1, <1>2, <1>3, <1>4, <1>5 DEF Next, Terminated

\* A start of the process leaves nothing of the one before.
LEMMA BootFresh ==
  ASSUME Boot, NEW x \in Tasks
  PROVE  /\ cpc'[x] = "begin" /\ rpc'[x] = "none" /\ closed'[x] = FALSE /\ err'[x] = "none"
         /\ lines'[x] = <<>>
  BY DEF Boot, Reborn, AllTasks

\* Its end finds every task done, and ends the readers.
LEMMA WaitEnds ==
  ASSUME TypeOK, Wait, NEW x \in Tasks
  PROVE  /\ cpc'[x] = cpc[x] /\ cpc[x] \in {"done", "unsaved"}
         /\ rpc[x] = "none" => rpc'[x] = "none"
         /\ rpc[x] # "none" => rpc'[x] = "exited"
         /\ UNCHANGED <<world, size, disk, mem, bpos, fpos, offset, lines, closed, last, next, err>>
  BY DEF Wait, TypeOK, taskVars, sharedVars, ghostVars

(***************************************************************************)
(* The invariant is kept, part by part.                                    *)
(***************************************************************************)

LEMMA LifeStep ==
  ASSUME TypeOK, [Next]_vars, NEW x \in Tasks, Life(x)
  PROVE  Life(x)'
<1> USE DEF Life, TypeOK, schedVars, taskVars, readerVars, sharedVars, ghostVars
<1>1. CASE TaskNext(x)
  <2>1. CASE Begin(x) \/ BeginFail(x) \/ EmitError(x) \/ ReadLine(x) \/ SkipLine(x) \/ Emit(x)
    BY <2>1 DEF Begin, load, BeginFail, EmitError, ReadLine, SkipLine, Emit
  <2>2. CASE Return(x) \/ CloseDone(x) \/ CloseSet(x) \/ CloseFile(x) \/ Save(x) \/ SaveFail(x)
    BY <2>2 DEF Return, Cancelled, CloseDone, CloseSet, CloseFile, Save, SaveFail
  <2> QED
    BY <1>1, <2>1, <2>2 DEF TaskNext
<1>2. CASE ReaderNext(x)
  <2>1. cpc' = cpc /\ closed' = closed /\ rpc[x] # "none"
    BY <1>2 DEF ReaderNext, Fill, TakeLine, TakeRest, ReadFail, Send, Track, MaybeSave, Wake,
      WaitClosed
  <2>2. rpc'[x] # "none"
    <3>1. CASE Fill(x) \/ TakeLine(x) \/ TakeRest(x) \/ ReadFail(x) \/ Send(x)
      BY <3>1 DEF Fill, TakeLine, TakeRest, ReadFail, Send, Holds
    <3>2. CASE Track(x)
      <4>1. err[x] \in {"none", "eof", "closed"}
        OBVIOUS
      <4> QED
        BY <3>2, <4>1 DEF Track
    <3>3. CASE MaybeSave(x) \/ Wake(x) \/ WaitClosed(x)
      BY <3>3 DEF MaybeSave, Wake, WaitClosed
    <3> QED
      BY <1>2, <3>1, <3>2, <3>3 DEF ReaderNext
  <2> QED
    BY <2>1, <2>2
<1>3. CASE Wait
  BY <1>3, WaitEnds
<1>4. CASE Boot
  BY <1>4, BootFresh
<1>5. CASE Same(x)
  BY <1>5 DEF Same
<1> QED
  BY <1>1, <1>2, <1>3, <1>4, <1>5, WhoseStep

\* The task touches the reader's variables only when it starts it.
LEMMA ReaderKept ==
  ASSUME NEW x \in Tasks, TaskNext(x), ~Begin(x)
  PROVE  UNCHANGED <<rpc, item, err, bpos, fpos, offset>>
  BY DEF TaskNext, BeginFail, EmitError, ReadLine, SkipLine, Emit, Return, CloseDone, CloseSet,
    CloseFile, Save, SaveFail, readerVars

\* ... and then it starts it where it will itself begin.
LEMMA BeginFacts ==
  ASSUME TypeOK, NEW x \in Tasks, Begin(x)
  PROVE  \E start \in Nat :
           /\ start = StartOffset(x, disk)
           /\ cpc[x] = "begin" /\ cpc'[x] = "read" /\ rpc'[x] = "read"
           /\ bpos'[x] = start /\ fpos'[x] = start /\ offset'[x] = start
           /\ last'[x] = start /\ next'[x] = start
           /\ UNCHANGED <<world, size, disk, lines, cur, item, err, closed>>
<1>1. PICK start \in Nat : start = StartOffset(x, disk)
  BY StartType
<1>2. /\ cpc[x] = "begin" /\ cpc'[x] = "read" /\ rpc'[x] = "read"
      /\ bpos'[x] = start /\ fpos'[x] = start /\ offset'[x] = start
      /\ last'[x] = start /\ next'[x] = start
      /\ UNCHANGED <<world, size, disk, lines, cur, item, err, closed>>
  BY <1>1 DEF Begin, load, TypeOK, schedVars, sharedVars
<1> QED
  BY <1>1, <1>2

\* A step of the reader leaves the task's variables alone, and most of its own.
LEMMA ReaderFacts ==
  ASSUME TypeOK, NEW x \in Tasks, ReaderNext(x)
  PROVE  /\ UNCHANGED <<world, size, disk, cpc, cur, closed, done, last, next>>
         /\ rpc[x] # "none"
         /\ ~Send(x) => UNCHANGED lines
         /\ ~Track(x) => UNCHANGED offset
         /\ ~Fill(x) /\ ~Wake(x) => UNCHANGED fpos
         /\ ~MaybeSave(x) => UNCHANGED mem
<1> USE DEF schedVars, taskVars, readerVars, sharedVars, ghostVars
<1>1. CASE Fill(x) \/ TakeLine(x) \/ TakeRest(x) \/ ReadFail(x)
  BY <1>1 DEF Fill, TakeLine, TakeRest, ReadFail
<1>2. CASE Send(x) \/ Track(x) \/ MaybeSave(x) \/ Wake(x) \/ WaitClosed(x)
  BY <1>2 DEF Send, Track, MaybeSave, Wake, WaitClosed
<1> QED
  BY <1>1, <1>2 DEF ReaderNext

LEMMA HoldsFacts ==
  ASSUME TypeOK, NEW x \in Tasks, NEW i \in Items, NEW e, Holds(x, i, e)
  PROVE  item'[x] = i /\ err'[x] = e /\ bpos'[x] = i[2] /\ rpc'[x] = "send"
  BY DEF Holds, TypeOK

\* What the reader does when it comes to hold an item.
LEMMA TakeFacts ==
  ASSUME TypeOK, NEW x \in Tasks, TakeLine(x) \/ TakeRest(x) \/ ReadFail(x)
  PROVE  /\ rpc[x] = "read" /\ UNCHANGED fpos
         /\ \/ /\ rpc'[x] = "send" /\ item'[x][1] = bpos[x] /\ item'[x][2] = bpos'[x]
               /\ \/ /\ TakeLine(x) /\ HasLine(x) /\ err'[x] = "none"
                     /\ bpos'[x] = LineEnd(bpos[x])
                  \/ /\ ~HasLine(x) /\ err'[x] \in {"eof", "closed"}
                     /\ bpos'[x] = fpos[x] /\ bpos[x] < fpos[x]
                     /\ ~closed[x] => AtEnd(x)
            \/ /\ bpos[x] >= fpos[x] /\ UNCHANGED <<item, err, bpos>>
               /\ rpc'[x] \in {"wait", "exited"}
<1>1. bpos[x] \in Nat /\ fpos[x] \in Nat
  BY DEF TypeOK
<1>2. CASE TakeLine(x)
  <2>1. PICK i \in Items : i = <<bpos[x], LineEnd(bpos[x])>>
    BY <1>1, LineEndFacts DEF Items
  <2>2. Holds(x, i, "none")
    BY <1>2, <2>1 DEF TakeLine
  <2>3. item'[x] = i /\ err'[x] = "none" /\ bpos'[x] = i[2] /\ rpc'[x] = "send"
    BY <2>2, HoldsFacts
  <2> QED
    BY <1>2, <2>1, <2>3 DEF TakeLine
<1>3. CASE (TakeRest(x) \/ ReadFail(x)) /\ bpos[x] < fpos[x]
  <2>1. PICK i \in Items : i = <<bpos[x], fpos[x]>>
    BY <1>1 DEF Items
  <2>2. PICK e \in {"eof", "closed"} : Holds(x, i, e)
    BY <1>3, <2>1 DEF TakeRest, ReadFail
  <2>3. item'[x] = i /\ err'[x] = e /\ bpos'[x] = i[2] /\ rpc'[x] = "send"
    BY <2>2, HoldsFacts
  <2>4. rpc[x] = "read" /\ UNCHANGED fpos /\ ~HasLine(x) /\ (~closed[x] => AtEnd(x))
    BY <1>3 DEF TakeRest, ReadFail
  <2> QED
    BY <1>3, <2>1, <2>3, <2>4
<1>4. CASE (TakeRest(x) \/ ReadFail(x)) /\ ~(bpos[x] < fpos[x])
  <2>1. UNCHANGED <<item, err, bpos>> /\ rpc'[x] \in {"wait", "exited"}
    BY <1>4 DEF TakeRest, ReadFail, TypeOK
  <2>2. rpc[x] = "read" /\ UNCHANGED fpos
    BY <1>4 DEF TakeRest, ReadFail
  <2> QED
    BY <1>1, <1>4, <2>1, <2>2
<1> QED
  BY <1>2, <1>3, <1>4

LEMMA BufferStep ==
  ASSUME TypeOK, [Next]_vars, NEW x \in Tasks, Life(x), Buffer(x)
  PROVE  Buffer(x)'
<1>1. /\ bpos[x] \in Nat /\ fpos[x] \in Nat /\ offset[x] \in Nat /\ size[x] \in Nat
      /\ rpc \in [Tasks -> ReaderPcs] /\ Ahead \in Nat
  BY DEF TypeOK
<1>2. CASE TaskNext(x)
  <2>1. CASE Begin(x)
    <3>1. PICK start \in Nat : /\ rpc'[x] = "read" /\ bpos'[x] = start /\ fpos'[x] = start
                               /\ offset'[x] = start
      BY <2>1, BeginFacts
    <3> QED
      BY <1>1, <3>1 DEF Buffer
  <2> QED
    BY <1>2, <2>1, ReaderKept DEF Buffer
<1>3. CASE ReaderNext(x)
  <2>1. rpc[x] # "none"
    BY <1>3, ReaderFacts
  <2>2. CASE Fill(x)
    <3>1. fpos'[x] = Min2(size[x], bpos[x] + Ahead) /\ UNCHANGED <<rpc, err, bpos, offset>>
      BY <2>2 DEF Fill, TypeOK
    <3>2. rpc[x] = "read" /\ fpos[x] < size[x]
      BY <1>1, <2>2 DEF Fill, AtEnd
    <3>3. offset[x] <= fpos'[x] /\ bpos[x] <= fpos'[x] /\ fpos'[x] <= bpos[x] + Ahead
      BY <1>1, <2>1, <3>1, <3>2 DEF Buffer, Min2
    <3> QED
      BY <3>1, <3>2, <3>3 DEF Buffer
  <2>3. CASE TakeLine(x) \/ TakeRest(x) \/ ReadFail(x)
    <3>1. UNCHANGED <<fpos, offset>>
      <4>1. ~Fill(x) /\ ~Wake(x) /\ ~Track(x)
        BY <2>3 DEF TakeLine, TakeRest, ReadFail, Fill, Wake, Track
      <4> QED
        BY <1>3, <4>1, ReaderFacts
    <3>2. rpc[x] = "read" /\ offset[x] <= fpos[x] /\ bpos[x] <= fpos[x] /\ fpos[x] <= bpos[x] + Ahead
      BY <2>3, TakeFacts DEF Buffer
    <3>3. CASE rpc'[x] = "send" /\ HasLine(x) /\ err'[x] = "none" /\ bpos'[x] = LineEnd(bpos[x])
      <4>1. LineEnd(bpos[x]) \in Nat /\ LineEnd(bpos[x]) > bpos[x] /\ LineEnd(bpos[x]) <= fpos[x]
        BY <1>1, <3>3, LineEndFacts DEF HasLine
      <4>2. /\ offset[x] <= fpos[x] /\ bpos'[x] <= fpos[x] /\ fpos[x] <= bpos'[x] + Ahead
        BY <1>1, <3>2, <3>3, <4>1
      <4> QED
        BY <3>1, <3>3, <4>2 DEF Buffer
    <3>4. CASE rpc'[x] = "send" /\ bpos'[x] = fpos[x]
      BY <1>1, <3>1, <3>2, <3>4 DEF Buffer
    <3>5. CASE bpos[x] >= fpos[x] /\ UNCHANGED bpos
      <4>1. bpos[x] = fpos[x]
        BY <1>1, <3>2, <3>5
      <4> QED
        BY <1>1, <3>1, <3>2, <3>5, <4>1 DEF Buffer
    <3> QED
      BY <2>3, <3>3, <3>4, <3>5, TakeFacts
  <2>4. CASE Send(x)
    <3>1. /\ rpc[x] = "send" /\ rpc'[x] = "track" /\ UNCHANGED <<err, bpos, fpos, offset>>
      BY <2>4 DEF Send, TypeOK
    <3> QED
      BY <3>1 DEF Buffer
  <2>5. CASE Track(x)
    <3>1. /\ rpc[x] = "track" /\ UNCHANGED <<err, bpos, fpos>>
          /\ offset'[x] = offset[x] \/ offset'[x] = fpos[x]
          /\ rpc'[x] = "wait" => err[x] = "eof"
          /\ rpc'[x] \in {"save", "wait", "exited"}
      <4>1. err[x] \in {"none", "eof", "closed"}
        BY DEF TypeOK
      <4> QED
        BY <2>5, <4>1 DEF Track, Position, TypeOK
    <3> QED
      BY <1>1, <3>1 DEF Buffer
  <2>6. CASE MaybeSave(x)
    <3>1. rpc[x] = "save" /\ rpc'[x] = "read" /\ UNCHANGED <<err, bpos, fpos, offset>>
      BY <2>6 DEF MaybeSave, TypeOK
    <3> QED
      BY <3>1 DEF Buffer
  <2>7. CASE Wake(x)
    <3>1. /\ rpc[x] = "wait" /\ rpc'[x] = "read" /\ bpos'[x] = fpos[x] /\ fpos'[x] = fpos[x]
          /\ UNCHANGED offset
      BY <2>7 DEF Wake, Reset, TypeOK
    <3> QED
      BY <1>1, <3>1 DEF Buffer
  <2>8. CASE WaitClosed(x)
    <3>1. rpc[x] = "wait" /\ rpc'[x] = "exited" /\ UNCHANGED <<err, bpos, fpos, offset>>
      BY <2>8 DEF WaitClosed, TypeOK
    <3> QED
      BY <3>1 DEF Buffer
  <2> QED
    BY <1>3, <2>2, <2>3, <2>4, <2>5, <2>6, <2>7, <2>8 DEF ReaderNext
<1>4. CASE Wait
  <2>1. /\ UNCHANGED <<bpos, fpos, offset, err>> /\ rpc'[x] \in {"none", "exited"}
        /\ rpc[x] = "none" => rpc'[x] = "none"
    BY <1>4, WaitEnds
  <2> QED
    BY <2>1 DEF Buffer
<1>5. CASE Boot
  BY <1>5, BootFresh DEF Buffer
<1>6. CASE Same(x)
  BY <1>6 DEF Same, Buffer
<1> QED
  BY <1>2, <1>3, <1>4, <1>5, <1>6, WhoseStep

LEMMA ChainTail ==
  ASSUME NEW q \in Seq(Items), NEW f, NEW o, q # <<>>, Chain(q, f, o)
  PROVE  /\ Head(q) \in Items /\ Tail(q) \in Seq(Items)
         /\ Head(q)[1] = f /\ Head(q)[1] <= o
         /\ Chain(Tail(q), Head(q)[2], o)
         /\ End(Tail(q), Head(q)[2]) = End(q, f)
<1> DEFINE r == Tail(q)
<1>1. /\ Len(q) \in Nat /\ Len(q) >= 1 /\ Head(q) = q[1] /\ Head(q) \in Items
      /\ r \in Seq(Items) /\ Len(r) = Len(q) - 1 /\ \A i \in 1 .. Len(r) : r[i] = q[i + 1]
  OBVIOUS
<1> HIDE DEF r
<1>2. q[1][1] = f /\ q[1][1] <= o
  BY <1>1 DEF Chain
<1>3. Chain(r, q[1][2], o)
  <2> SUFFICES ASSUME NEW i \in 1 .. Len(r)
               PROVE  r[i][1] = (IF i = 1 THEN q[1][2] ELSE r[i - 1][2]) /\ r[i][1] <= o
    BY DEF Chain
  <2>1. i \in Int /\ i + 1 \in 1 .. Len(q) /\ i + 1 # 1 /\ (i + 1) - 1 = i
    BY <1>1
  <2>2. q[i + 1][1] = q[i][2] /\ q[i + 1][1] <= o
    BY <2>1 DEF Chain
  <2>3. i # 1 => i - 1 \in 1 .. Len(r) /\ (i - 1) + 1 = i
    BY <1>1
  <2>4. r[i] = q[i + 1] /\ (i # 1 => r[i - 1] = q[i])
    BY <1>1, <2>3
  <2> QED
    BY <2>2, <2>4
<1>4. End(r, q[1][2]) = End(q, f)
  <2>1. CASE r = <<>>
    <3>1. Len(q) = 1
      BY <1>1, <2>1
    <3> QED
      BY <2>1, <3>1 DEF End
  <2>2. CASE r # <<>>
    <3>1. Len(r) \in 1 .. Len(r) /\ Len(r) + 1 = Len(q)
      BY <1>1, <2>2
    <3>2. r[Len(r)] = q[Len(q)]
      BY <1>1, <3>1
    <3> QED
      BY <2>2, <3>2 DEF End
  <2> QED
    BY <2>1, <2>2
<1> QED
  BY <1>1, <1>2, <1>3, <1>4 DEF r

LEMMA ChainAppend ==
  ASSUME NEW q \in Seq(Items), NEW f, NEW o, NEW i \in Items, Chain(q, f, o),
         i[1] = End(q, f), i[1] <= o
  PROVE  Chain(Append(q, i), f, o) /\ End(Append(q, i), f) = i[2]
<1> DEFINE r == Append(q, i)
<1>1. /\ Len(q) \in Nat /\ Len(r) = Len(q) + 1 /\ r # <<>> /\ r[Len(q) + 1] = i
      /\ \A j \in 1 .. Len(q) : r[j] = q[j]
  OBVIOUS
<1> HIDE DEF r
<1>2. End(r, f) = i[2]
  BY <1>1 DEF End
<1>3. Chain(r, f, o)
  <2> SUFFICES ASSUME NEW j \in 1 .. Len(r)
               PROVE  r[j][1] = (IF j = 1 THEN f ELSE r[j - 1][2]) /\ r[j][1] <= o
    BY DEF Chain
  <2>1. CASE j \in 1 .. Len(q)
    <3>1. r[j] = q[j] /\ (j # 1 => j - 1 \in 1 .. Len(q))
      BY <1>1, <2>1
    <3>2. j # 1 => r[j - 1] = q[j - 1]
      BY <1>1, <3>1
    <3> QED
      BY <2>1, <3>1, <3>2 DEF Chain
  <2>2. CASE j = Len(q) + 1
    <3>1. r[j] = i
      BY <1>1, <2>2
    <3>2. CASE q = <<>>
      BY <1>1, <2>2, <3>1, <3>2 DEF End
    <3>3. CASE q # <<>>
      <4>1. j - 1 = Len(q) /\ Len(q) \in 1 .. Len(q) /\ j # 1
        BY <1>1, <2>2, <3>3
      <4>2. r[j - 1] = q[Len(q)]
        BY <1>1, <4>1
      <4> QED
        BY <3>1, <3>3, <4>1, <4>2 DEF End
    <3> QED
      BY <3>2, <3>3
  <2> QED
    BY <1>1, <2>1, <2>2
<1> QED
  BY <1>2, <1>3 DEF r

LEMMA ChainLater ==
  ASSUME NEW q \in Seq(Items), NEW f, NEW o \in Nat, NEW p \in Nat, o <= p, Chain(q, f, o)
  PROVE  Chain(q, f, p)
<1> SUFFICES ASSUME NEW i \in 1 .. Len(q)
             PROVE  q[i][1] = (IF i = 1 THEN f ELSE q[i - 1][2]) /\ q[i][1] <= p
  BY DEF Chain
<1>1. q[i][1] \in Nat
  BY DEF Items
<1> QED
  BY <1>1 DEF Chain

LEMMA QueueStep ==
  ASSUME TypeOK, [Next]_vars, NEW x \in Tasks, Life(x), Buffer(x), Queue(x)
  PROVE  Queue(x)'
<1> SUFFICES ASSUME Working(x)' PROVE Queue(x)'
  BY DEF Queue
<1>1. /\ bpos[x] \in Nat /\ fpos[x] \in Nat /\ offset[x] \in Nat /\ next[x] \in Nat
      /\ lines[x] \in Seq(Items) /\ cur[x] \in Items /\ item[x] \in Items
  BY DEF TypeOK
<1>2. CASE TaskNext(x)
  <2>1. CASE Begin(x)
    <3>1. PICK start \in Nat :
            /\ cpc[x] = "begin" /\ cpc'[x] = "read" /\ rpc'[x] = "read"
            /\ bpos'[x] = start /\ offset'[x] = start /\ next'[x] = start
            /\ UNCHANGED lines
      BY <2>1, BeginFacts
    <3>2. lines'[x] = <<>>
      BY <3>1 DEF Life
    <3>3. From(x)' = start /\ To(x)' = start /\ Chain(lines[x], From(x), offset[x])'
      BY <3>1, <3>2 DEF From, To, End, Chain
    <3> QED
      BY <3>1, <3>3 DEF Queue
  <2>2. ASSUME ~Begin(x)
        PROVE  UNCHANGED <<rpc, item, bpos, offset>>
    BY <1>2, <2>2, ReaderKept
  <2>3. CASE ReadLine(x)
    <3>1. /\ cpc[x] = "read" /\ cpc'[x] = "emit" /\ lines[x] # <<>>
          /\ cur'[x] = Head(lines[x]) /\ lines'[x] = Tail(lines[x]) /\ UNCHANGED next
      BY <2>3 DEF ReadLine, TypeOK, ghostVars
    <3>2. UNCHANGED <<rpc, item, bpos, offset>>
      BY <2>2, <3>1 DEF Begin, load
    <3>3. Chain(lines[x], next[x], offset[x]) /\ To(x) = End(lines[x], next[x])
      BY <3>1 DEF Queue, Working, From, To
    <3>4. /\ Head(lines[x])[1] = next[x] /\ Head(lines[x])[1] <= offset[x]
          /\ Chain(Tail(lines[x]), Head(lines[x])[2], offset[x])
          /\ End(Tail(lines[x]), Head(lines[x])[2]) = End(lines[x], next[x])
      BY <1>1, <3>1, <3>3, ChainTail
    <3>5. From(x)' = Head(lines[x])[2] /\ To(x)' = To(x)
      BY <3>1, <3>3, <3>4 DEF From, To
    <3>6. Chain(lines[x], From(x), offset[x])'
      BY <3>1, <3>2, <3>4, <3>5
    <3> QED
      BY <3>1, <3>2, <3>4, <3>5, <3>6 DEF Queue, Working
  <2>4. CASE SkipLine(x)
    <3>1. /\ cpc[x] = "read" /\ cpc'[x] = "read" /\ lines[x] # <<>>
          /\ next'[x] = Head(lines[x])[2] /\ lines'[x] = Tail(lines[x])
      BY <2>4 DEF SkipLine, Handled, TypeOK, taskVars
    <3>2. UNCHANGED <<rpc, item, bpos, offset>>
      BY <2>2, <3>1 DEF Begin, load
    <3>3. Chain(lines[x], next[x], offset[x]) /\ To(x) = End(lines[x], next[x])
      BY <3>1 DEF Queue, Working, From, To
    <3>4. /\ Chain(Tail(lines[x]), Head(lines[x])[2], offset[x])
          /\ End(Tail(lines[x]), Head(lines[x])[2]) = End(lines[x], next[x])
      BY <1>1, <3>1, <3>3, ChainTail
    <3>5. From(x)' = Head(lines[x])[2] /\ To(x)' = To(x)
      BY <3>1, <3>3, <3>4 DEF From, To
    <3>6. Chain(lines[x], From(x), offset[x])'
      BY <3>1, <3>2, <3>4, <3>5
    <3> QED
      BY <3>1, <3>2, <3>5, <3>6 DEF Queue, Working
  <2>5. CASE Emit(x)
    <3>1. /\ cpc[x] = "emit" /\ cpc'[x] = "read" /\ next'[x] = cur[x][2] /\ UNCHANGED lines
      BY <2>5 DEF Emit, Handled, TypeOK, sharedVars
    <3>2. UNCHANGED <<rpc, item, bpos, offset>>
      BY <2>2, <3>1 DEF Begin, load
    <3>3. From(x)' = From(x) /\ To(x)' = To(x)
      BY <3>1 DEF From, To
    <3>4. Chain(lines[x], From(x), offset[x])'
      BY <3>1, <3>2, <3>3 DEF Queue, Working
    <3> QED
      BY <3>1, <3>2, <3>3, <3>4 DEF Queue, Working
  <2>6. CASE BeginFail(x) \/ EmitError(x) \/ Return(x) \/ CloseDone(x) \/ CloseSet(x)
             \/ CloseFile(x) \/ Save(x) \/ SaveFail(x)
    <3>1. cpc'[x] \in {"error", "done", "close", "set", "closefile", "save", "unsaved"}
      BY <2>6 DEF BeginFail, EmitError, Return, CloseDone, CloseSet, CloseFile, Save, SaveFail,
        TypeOK
    <3> QED
      BY <3>1 DEF Working
  <2> QED
    BY <1>2, <2>1, <2>3, <2>4, <2>5, <2>6 DEF TaskNext
<1>3. CASE ReaderNext(x)
  <2>1. UNCHANGED <<cpc, cur, next, closed>> /\ From(x)' = From(x) /\ Working(x)
    BY <1>3, ReaderFacts DEF From, Working
  <2>2. ~closed[x]
    BY <2>1 DEF Life, Working
  <2>3. CASE Send(x)
    <3>1. /\ rpc[x] = "send" /\ rpc'[x] = "track" /\ lines'[x] = Append(lines[x], item[x])
          /\ UNCHANGED <<bpos, offset>>
      BY <2>3 DEF Send, TypeOK
    <3>2. /\ Chain(lines[x], From(x), offset[x]) /\ item[x][1] = End(lines[x], From(x))
          /\ item[x][1] <= offset[x] /\ item[x][2] = bpos[x]
      BY <2>1, <3>1 DEF Queue, To
    <3>3. /\ Chain(Append(lines[x], item[x]), From(x), offset[x])
          /\ End(Append(lines[x], item[x]), From(x)) = item[x][2]
      BY <1>1, <3>2, ChainAppend
    <3>4. Chain(lines[x], From(x), offset[x])'
      BY <2>1, <3>1, <3>3
    <3>5. To(x)' = bpos[x]
      BY <2>1, <3>1, <3>2, <3>3 DEF To
    <3> QED
      BY <2>1, <3>1, <3>4, <3>5 DEF Queue
  <2>4. CASE Track(x)
    <3>1. /\ rpc[x] = "track" /\ rpc'[x] \in {"save", "wait", "exited"} /\ offset'[x] = fpos[x]
          /\ UNCHANGED <<bpos, lines>>
      <4>1. err[x] \in {"none", "eof", "closed"}
        BY DEF TypeOK
      <4> QED
        BY <2>2, <2>4, <4>1 DEF Track, Position, TypeOK, sharedVars
    <3>2. offset[x] <= fpos[x] /\ bpos[x] <= fpos[x]
      BY <3>1 DEF Buffer
    <3>3. Chain(lines[x], From(x), fpos[x])
      BY <1>1, <2>1, <3>2, ChainLater DEF Queue
    <3>4. Chain(lines[x], From(x), offset[x])'
      BY <2>1, <3>1, <3>3
    <3>5. To(x)' = bpos[x]
      BY <2>1, <3>1 DEF Queue, To
    <3>6. cpc[x] = "emit" => cur[x][1] = next[x] /\ cur[x][1] <= fpos[x]
      <4>1. cur[x][1] \in Nat
        BY <1>1 DEF Items
      <4> QED
        BY <1>1, <2>1, <3>2, <4>1 DEF Queue
    <3> QED
      BY <2>1, <3>1, <3>2, <3>4, <3>5, <3>6 DEF Queue
  <2>5. ASSUME ~Send(x), ~Track(x)
        PROVE  /\ UNCHANGED <<lines, offset>> /\ To(x)' = To(x)
               /\ Chain(lines[x], From(x), offset[x])'
    <3>1. UNCHANGED <<lines, offset>>
      BY <1>3, <2>5, ReaderFacts
    <3> QED
      BY <2>1, <3>1 DEF To, Queue
  <2>6. CASE TakeLine(x) \/ TakeRest(x) \/ ReadFail(x)
    <3>1. rpc[x] = "read"
      BY <2>6, TakeFacts
    <3>2. ~Send(x) /\ ~Track(x)
      BY <3>1 DEF Send, Track
    <3>3. bpos[x] <= offset[x] /\ To(x) = bpos[x]
      BY <2>1, <3>1 DEF Queue
    <3>4. CASE rpc'[x] = "send" /\ item'[x][1] = bpos[x] /\ item'[x][2] = bpos'[x]
      BY <2>1, <2>5, <3>2, <3>3, <3>4 DEF Queue
    <3>5. CASE UNCHANGED bpos /\ rpc'[x] \in {"wait", "exited"}
      BY <2>1, <2>5, <3>2, <3>3, <3>5 DEF Queue
    <3> QED
      BY <2>6, <3>4, <3>5, TakeFacts
  <2>7. CASE Fill(x) \/ MaybeSave(x) \/ Wake(x) \/ WaitClosed(x)
    <3>1. /\ rpc[x] \in {"read", "save", "wait"} /\ rpc'[x] \in {"read", "exited"}
          /\ bpos'[x] = bpos[x] \/ (rpc[x] = "wait" /\ bpos'[x] = fpos[x])
      BY <2>7 DEF Fill, MaybeSave, Wake, Reset, WaitClosed, TypeOK
    <3>2. bpos'[x] = bpos[x]
      BY <3>1 DEF Buffer
    <3>3. ~Send(x) /\ ~Track(x)
      BY <3>1 DEF Send, Track
    <3>4. bpos[x] <= offset[x] /\ To(x) = bpos[x]
      BY <2>1, <3>1 DEF Queue
    <3> QED
      BY <2>1, <2>5, <3>1, <3>2, <3>3, <3>4 DEF Queue
  <2> QED
    BY <1>3, <2>3, <2>4, <2>6, <2>7 DEF ReaderNext
<1>4. CASE Wait \/ Boot
  BY <1>4, WaitEnds, BootFresh DEF Working
<1>5. CASE Same(x)
  <2>1. From(x)' = From(x) /\ To(x)' = To(x) /\ Working(x)
    BY <1>5 DEF Same, From, To, Working
  <2>2. Chain(lines[x], From(x), offset[x])'
    BY <1>5, <2>1 DEF Same, Queue
  <2> QED
    BY <1>5, <2>1, <2>2 DEF Same, Queue
<1> QED
  BY <1>2, <1>3, <1>4, <1>5, WhoseStep

LEMMA SavedStep ==
  ASSUME TypeOK, [Next]_vars, NEW x \in Tasks, Life(x), Buffer(x), Queue(x), Saved(x)
  PROVE  Saved(x)'
<1>1. /\ fpos[x] \in Nat /\ offset[x] \in Nat /\ last[x] \in Nat
      /\ lines[x] \in Seq(Items) /\ mem[x] \in [Tasks -> Offsets]
      /\ mem \in [Tasks -> [Tasks -> Offsets]]
  BY DEF TypeOK
<1>2. CASE TaskNext(x)
  <2>1. CASE Begin(x)
    <3>1. PICK start \in Nat : cpc'[x] = "read" /\ offset'[x] = start /\ last'[x] = start
      BY <2>1, BeginFacts
    <3> QED
      BY <3>1 DEF Saved
  <2>2. ASSUME ~Begin(x)
        PROVE  UNCHANGED <<rpc, offset>>
    BY <1>2, <2>2, ReaderKept
  <2>3. CASE SkipLine(x)
    <3>1. cpc[x] = "read" /\ cpc'[x] = "read" /\ lines[x] # <<>> /\ last'[x] = Head(lines[x])[1]
      BY <2>3 DEF SkipLine, Handled, TypeOK, taskVars
    <3>2. Chain(lines[x], From(x), offset[x])
      BY <3>1 DEF Queue, Working
    <3>3. Head(lines[x])[1] <= offset[x]
      BY <1>1, <3>1, <3>2, ChainTail
    <3> QED
      BY <2>2, <3>1, <3>3 DEF Begin, load, Saved
  <2>4. CASE Emit(x)
    <3>1. cpc[x] = "emit" /\ cpc'[x] = "read" /\ last'[x] = cur[x][1]
      BY <2>4 DEF Emit, Handled, TypeOK
    <3>2. cur[x][1] <= offset[x]
      BY <3>1 DEF Queue, Working
    <3> QED
      BY <2>2, <3>1, <3>2 DEF Begin, load, Saved
  <2>5. CASE CloseSet(x)
    <3>1. /\ cpc[x] = "set" /\ UNCHANGED <<rpc, offset, last>> /\ mem'[x][x] = offset[x]
      BY <1>1, <2>5 DEF CloseSet, Set, readerVars, ghostVars
    <3>2. rpc[x] # "none"
      BY <3>1 DEF Life
    <3> QED
      BY <3>1, <3>2 DEF Saved
  <2>6. CASE CloseFile(x) \/ Save(x) \/ SaveFail(x)
    <3>1. /\ cpc[x] \in {"closefile", "save"} /\ UNCHANGED <<rpc, offset, last, mem>>
      BY <2>6 DEF CloseFile, Save, SaveFail, readerVars, ghostVars
    <3> QED
      BY <3>1 DEF Saved
  <2>7. CASE BeginFail(x) \/ EmitError(x) \/ ReadLine(x) \/ Return(x) \/ CloseDone(x)
    <3>1. /\ cpc'[x] \in {"error", "done", "emit", "close", "set"}
          /\ UNCHANGED <<rpc, offset, last>>
      BY <2>7 DEF BeginFail, EmitError, ReadLine, Return, CloseDone, TypeOK, readerVars, ghostVars
    <3> QED
      BY <3>1 DEF Saved
  <2> QED
    BY <1>2, <2>1, <2>3, <2>4, <2>5, <2>6, <2>7 DEF TaskNext
<1>3. CASE ReaderNext(x)
  <2>1. UNCHANGED <<cpc, last>> /\ rpc[x] # "none" /\ last[x] <= offset[x]
    BY <1>3, ReaderFacts DEF Saved
  <2>2. last[x] <= offset'[x]
    <3>1. CASE Track(x)
      <4>1. offset'[x] = offset[x] \/ offset'[x] = fpos[x]
        BY <3>1 DEF Track, Position, TypeOK
      <4> QED
        BY <1>1, <2>1, <4>1 DEF Buffer
    <3> QED
      BY <1>3, <2>1, <3>1, ReaderFacts
  <2>3. mem'[x][x] = mem[x][x] \/ mem'[x][x] = offset[x]
    <3>1. CASE MaybeSave(x)
      <4>1. CASE Set(x)
        BY <1>1, <4>1 DEF Set
      <4> QED
        BY <3>1, <4>1 DEF MaybeSave
    <3> QED
      BY <1>3, <3>1, ReaderFacts
  <2> QED
    BY <2>1, <2>2, <2>3 DEF Saved
<1>4. CASE Wait
  BY <1>4, WaitEnds DEF Saved
<1>5. CASE Boot
  BY <1>5, BootFresh DEF Saved
<1>6. CASE Same(x)
  BY <1>6 DEF Same, Saved
<1> QED
  BY <1>2, <1>3, <1>4, <1>5, <1>6, WhoseStep

LEMMA Multiple ==
  ASSUME NEW m \in Nat, NEW d \in Nat, d > 0, m % d = 0
  PROVE  \E a \in Nat : m = a * d
<1>1. m \div d \in Nat /\ m = d * (m \div d) + (m % d)
  BY Z3
<1> QED
  BY <1>1

LEMMA Multiples ==
  ASSUME NEW m \in Nat, NEW n \in Nat, m % LineLen = 0, n % LineLen = 0
  PROVE  /\ (m + n) % LineLen = 0
         /\ m < n => m + LineLen <= n
<1>1. PICK a \in Nat : m = a * LineLen
  BY Multiple
<1>2. PICK b \in Nat : n = b * LineLen
  BY Multiple
<1> QED
  BY <1>1, <1>2

LEMMA WorldFixed ==
  ASSUME TypeOK, [Next]_vars
  PROVE  world' = world
<1> USE DEF schedVars
<1>1. CASE \E t \in Tasks : TaskNext(t)
  BY <1>1 DEF TaskNext, Begin, load, BeginFail, EmitError, ReadLine, SkipLine, Emit, Return,
    CloseDone, CloseSet, CloseFile, Save, SaveFail
<1>2. CASE \E t \in Tasks : ReaderNext(t)
  BY <1>2, ReaderFacts
<1>3. CASE (\E t \in Tasks : Truncate(t)) \/ \E t \in Tasks, n \in world.writes : Write(t, n)
  BY <1>3 DEF Truncate, Write
<1>4. CASE Engine \/ Stop \/ Wait \/ Boot
  BY <1>4 DEF Engine, Stop, Wait, Boot
<1>5. CASE UNCHANGED vars
  BY <1>5 DEF vars
<1> QED
  BY <1>1, <1>2, <1>3, <1>4, <1>5 DEF Next, Terminated

\* With whole lines, a log only grows, by whole lines.
LEMMA LogGrows ==
  ASSUME TypeOK, [Next]_vars, NEW x \in Tasks, Tidy, size[x] % LineLen = 0
  PROVE  size'[x] >= size[x] /\ size'[x] % LineLen = 0
<1>1. size \in [Tasks -> Nat] /\ size[x] \in Nat
  BY DEF TypeOK
<1>2. CASE \E t \in Tasks, n \in world.writes : Write(t, n)
  <2>1. PICK t \in Tasks, n \in world.writes : Write(t, n)
    BY <1>2
  <2>2. n \in Nat /\ n % LineLen = 0
    BY DEF Tidy, TypeOK
  <2>3. size'[x] = size[x] \/ size'[x] = size[x] + n
    BY <1>1, <2>1 DEF Write
  <2>4. (size[x] + n) % LineLen = 0
    BY <1>1, <2>2, Multiples
  <2> QED
    BY <1>1, <2>2, <2>3, <2>4
<1>3. CASE \E t \in Tasks : Truncate(t)
  BY <1>3 DEF Truncate, Tidy
<1>4. ASSUME size' = size PROVE size'[x] >= size[x] /\ size'[x] % LineLen = 0
  BY <1>1, <1>4
<1>5. CASE \E t \in Tasks : TaskNext(t)
  <2>1. size' = size
    BY <1>5 DEF TaskNext, Begin, load, BeginFail, EmitError, ReadLine, SkipLine, Emit, Return,
      CloseDone, CloseSet, CloseFile, Save, SaveFail
  <2> QED
    BY <1>4, <2>1
<1>6. CASE \E t \in Tasks : ReaderNext(t)
  BY <1>4, <1>6, ReaderFacts
<1>7. CASE Engine \/ Stop \/ Wait \/ Boot \/ UNCHANGED vars
  BY <1>4, <1>7 DEF Engine, Stop, Wait, Boot, vars
<1> QED
  BY <1>2, <1>3, <1>5, <1>6, <1>7 DEF Next, Terminated

LEMMA WholeTail ==
  ASSUME NEW q \in Seq(Items), q # <<>>, AllWhole(q)
  PROVE  Whole(Head(q)) /\ AllWhole(Tail(q))
<1> DEFINE r == Tail(q)
<1>1. /\ Len(q) \in Nat /\ Len(q) >= 1 /\ Head(q) = q[1]
      /\ Len(r) = Len(q) - 1 /\ \A i \in 1 .. Len(r) : r[i] = q[i + 1]
  OBVIOUS
<1> HIDE DEF r
<1>2. \A i \in 1 .. Len(r) : i + 1 \in 1 .. Len(q)
  BY <1>1
<1>3. Whole(q[1])
  BY <1>1 DEF AllWhole
<1>4. AllWhole(r)
  BY <1>1, <1>2 DEF AllWhole
<1> QED
  BY <1>1, <1>3, <1>4 DEF r

LEMMA WholeAppend ==
  ASSUME NEW q \in Seq(Items), NEW i \in Items, AllWhole(q), Whole(i)
  PROVE  AllWhole(Append(q, i))
<1> DEFINE r == Append(q, i)
<1>1. /\ Len(q) \in Nat /\ Len(r) = Len(q) + 1 /\ r[Len(q) + 1] = i
      /\ \A j \in 1 .. Len(q) : r[j] = q[j]
  OBVIOUS
<1> HIDE DEF r
<1>2. \A j \in 1 .. Len(r) : j \in 1 .. Len(q) \/ j = Len(q) + 1
  BY <1>1
<1>3. AllWhole(r)
  BY <1>1, <1>2 DEF AllWhole
<1> QED
  BY <1>3 DEF r

LEMMA LinedStep ==
  ASSUME TypeOK, [Next]_vars, NEW x \in Tasks, Life(x), Buffer(x), Lined(x)
  PROVE  Lined(x)'
<1> SUFFICES ASSUME Tidy' PROVE Lined(x)'
  BY DEF Lined
<1>1. /\ bpos[x] \in Nat /\ fpos[x] \in Nat /\ size[x] \in Nat
      /\ lines[x] \in Seq(Items) /\ item[x] \in Items
  BY DEF TypeOK
<1>2. Tidy
  BY WorldFixed DEF Tidy
<1>3. size[x] % LineLen = 0 /\ (rpc[x] # "none" => fpos[x] <= size[x])
  BY <1>2 DEF Lined
<1>4. size'[x] \in Nat /\ size'[x] >= size[x] /\ size'[x] % LineLen = 0
  <2>1. size'[x] \in Nat
    BY KeywordTypeStep DEF TypeOK
  <2> QED
    BY <1>2, <1>3, <2>1, LogGrows
<1>5. Working(x) => /\ bpos[x] % LineLen = 0
                    /\ cpc[x] = "emit" => Whole(cur[x])
                    /\ AllWhole(lines[x])
                    /\ rpc[x] = "send" => Whole(item[x])
  BY <1>2 DEF Lined
<1>6. SUFFICES /\ rpc'[x] # "none" => fpos'[x] <= size'[x]
               /\ Working(x)' => /\ bpos'[x] % LineLen = 0
                                 /\ cpc'[x] = "emit" => Whole(cur'[x])
                                 /\ AllWhole(lines'[x])
                                 /\ rpc'[x] = "send" => Whole(item'[x])
  BY <1>4, <1>6 DEF Lined
<1>7. ASSUME UNCHANGED <<fpos, rpc>>
      PROVE  rpc'[x] # "none" => fpos'[x] <= size'[x]
  BY <1>1, <1>3, <1>4, <1>7
<1>8. CASE TaskNext(x)
  <2>1. CASE Begin(x)
    <3>1. PICK start \in Nat :
            /\ start = StartOffset(x, disk)
            /\ cpc[x] = "begin" /\ cpc'[x] = "read" /\ rpc'[x] = "read"
            /\ bpos'[x] = start /\ fpos'[x] = start /\ UNCHANGED lines
      BY <2>1, BeginFacts
    <3>2. start = 0
      BY <1>2, <3>1 DEF Tidy, StartOffset, Get
    <3>3. 0 % LineLen = 0 /\ 0 <= size'[x]
      BY <1>4
    <3>4. AllWhole(lines'[x])
      BY <3>1 DEF Life, AllWhole
    <3> QED
      BY <3>1, <3>2, <3>3, <3>4
  <2>2. ASSUME ~Begin(x)
        PROVE  UNCHANGED <<rpc, item, bpos, fpos>>
    BY <1>8, <2>2, ReaderKept
  <2>3. CASE ReadLine(x)
    <3>1. /\ cpc[x] = "read" /\ lines[x] # <<>>
          /\ cur'[x] = Head(lines[x]) /\ lines'[x] = Tail(lines[x])
      BY <2>3 DEF ReadLine, TypeOK
    <3>2. Whole(Head(lines[x])) /\ AllWhole(Tail(lines[x]))
      BY <1>1, <1>5, <3>1, WholeTail DEF Working
    <3> QED
      BY <1>5, <1>7, <2>2, <3>1, <3>2 DEF Begin, load, Working
  <2>4. CASE SkipLine(x)
    <3>1. cpc[x] = "read" /\ cpc'[x] = "read" /\ lines[x] # <<>> /\ lines'[x] = Tail(lines[x])
      BY <2>4 DEF SkipLine, TypeOK, taskVars
    <3>2. AllWhole(Tail(lines[x]))
      BY <1>1, <1>5, <3>1, WholeTail DEF Working
    <3> QED
      BY <1>5, <1>7, <2>2, <3>1, <3>2 DEF Begin, load, Working
  <2>5. CASE Emit(x)
    <3>1. cpc[x] = "emit" /\ cpc'[x] = "read" /\ UNCHANGED lines
      BY <2>5 DEF Emit, TypeOK, sharedVars
    <3> QED
      BY <1>5, <1>7, <2>2, <3>1 DEF Begin, load, Working
  <2>6. CASE BeginFail(x) \/ EmitError(x) \/ Return(x) \/ CloseDone(x) \/ CloseSet(x)
             \/ CloseFile(x) \/ Save(x) \/ SaveFail(x)
    <3>1. /\ cpc'[x] \in {"error", "done", "close", "set", "closefile", "save", "unsaved"}
          /\ UNCHANGED <<rpc, fpos>>
      BY <2>6 DEF BeginFail, EmitError, Return, CloseDone, CloseSet, CloseFile, Save, SaveFail,
        TypeOK, readerVars
    <3> QED
      BY <1>7, <3>1 DEF Working
  <2> QED
    BY <1>8, <2>1, <2>3, <2>4, <2>5, <2>6 DEF TaskNext
<1>9. CASE ReaderNext(x)
  <2>1. UNCHANGED <<size, cpc, cur, closed>> /\ Working(x)' = Working(x) /\ rpc[x] # "none"
    BY <1>9, ReaderFacts DEF Working
  <2>2. Working(x) => ~closed[x]
    BY DEF Life, Working
  <2>3. fpos'[x] <= size'[x]
    <3>1. CASE Fill(x)
      <4>1. fpos'[x] = Min2(size[x], bpos[x] + Ahead)
        BY <3>1 DEF Fill, TypeOK
      <4>2. fpos'[x] \in Nat
        BY KeywordTypeStep DEF TypeOK
      <4> QED
        BY <1>1, <2>1, <4>1, <4>2 DEF Min2
    <3>2. CASE Wake(x)
      <4>1. fpos'[x] = fpos[x]
        BY <3>2 DEF Wake, Reset, TypeOK
      <4> QED
        BY <1>3, <2>1, <4>1
    <3> QED
      BY <1>3, <1>9, <2>1, <3>1, <3>2, ReaderFacts
  <2>4. ASSUME Working(x)
        PROVE  /\ bpos'[x] % LineLen = 0
               /\ cpc'[x] = "emit" => Whole(cur'[x])
               /\ AllWhole(lines'[x])
               /\ rpc'[x] = "send" => Whole(item'[x])
    <3>1. CASE Send(x)
      <4>1. rpc[x] = "send" /\ rpc'[x] = "track" /\ lines'[x] = Append(lines[x], item[x]) /\ UNCHANGED bpos
        BY <3>1 DEF Send, TypeOK
      <4>2. AllWhole(Append(lines[x], item[x]))
        BY <1>1, <1>5, <2>4, <4>1, WholeAppend
      <4> QED
        BY <1>5, <2>1, <2>4, <4>1, <4>2
    <3>2. ASSUME ~Send(x)
          PROVE  AllWhole(lines'[x]) /\ (cpc'[x] = "emit" => Whole(cur'[x]))
      BY <1>5, <1>9, <2>1, <2>4, <3>2, ReaderFacts
    <3>3. CASE TakeLine(x) \/ TakeRest(x) \/ ReadFail(x)
      <4>1. rpc[x] = "read"
        BY <3>3, TakeFacts
      <4>2. ~Send(x)
        BY <4>1 DEF Send
      <4>3. bpos[x] % LineLen = 0 /\ LineEnd(bpos[x]) = bpos[x] + LineLen
        BY <1>1, <1>5, <2>4, LineEndFacts
      <4>4. CASE /\ rpc'[x] = "send" /\ item'[x][1] = bpos[x] /\ item'[x][2] = bpos'[x]
                 /\ bpos'[x] = LineEnd(bpos[x])
        <5>1. LineLen % LineLen = 0
          OBVIOUS
        <5>2. (bpos[x] + LineLen) % LineLen = 0
          BY <1>1, <4>3, <5>1, Multiples
        <5>3. Whole(item'[x])
          BY <4>3, <4>4 DEF Whole
        <5> QED
          BY <3>2, <4>2, <4>3, <4>4, <5>2, <5>3
      <4>5. CASE ~HasLine(x) /\ bpos[x] < fpos[x] /\ (~closed[x] => AtEnd(x))
        <5>1. fpos[x] = size[x]
          BY <1>1, <1>3, <2>1, <2>2, <2>4, <4>5 DEF AtEnd
        <5>2. bpos[x] + LineLen <= fpos[x]
          BY <1>1, <1>3, <4>3, <4>5, <5>1, Multiples
        <5> QED
          BY <4>3, <4>5, <5>2 DEF HasLine
      <4>6. CASE UNCHANGED bpos /\ rpc'[x] \in {"wait", "exited"}
        BY <3>2, <4>2, <4>3, <4>6
      <4> QED
        BY <3>3, <4>4, <4>5, <4>6, TakeFacts
    <3>4. CASE Fill(x) \/ Track(x) \/ MaybeSave(x) \/ Wake(x) \/ WaitClosed(x)
      <4>1. \/ rpc[x] # "send" /\ bpos'[x] = bpos[x]
            \/ rpc[x] = "wait" /\ bpos'[x] = fpos[x]
        BY <3>4 DEF Fill, Track, MaybeSave, Wake, Reset, WaitClosed, TypeOK
      <4>2. bpos'[x] = bpos[x] /\ ~Send(x)
        BY <4>1 DEF Buffer, Send
      <4>3. rpc'[x] # "send"
        <5>1. err[x] \in {"none", "eof", "closed"}
          BY DEF TypeOK
        <5> QED
          BY <3>4, <5>1 DEF Fill, Track, MaybeSave, Wake, WaitClosed, TypeOK
      <4> QED
        BY <1>5, <2>4, <3>2, <4>2, <4>3
    <3> QED
      BY <1>9, <3>1, <3>3, <3>4 DEF ReaderNext
  <2> QED
    BY <2>1, <2>3, <2>4
<1>10. CASE Wait
  <2>1. UNCHANGED <<size, fpos>> /\ cpc'[x] \in {"done", "unsaved"} /\ (rpc'[x] # "none" => rpc[x] # "none")
    BY <1>10, WaitEnds
  <2> QED
    BY <1>3, <2>1 DEF Working
<1>11. CASE Boot
  BY <1>11, BootFresh DEF Working
<1>12. CASE Same(x)
  BY <1>1, <1>3, <1>4, <1>5, <1>12 DEF Same, Working
<1> QED
  BY <1>8, <1>9, <1>10, <1>11, <1>12, WhoseStep

LEMMA InvInit == Init => IInv
<1> SUFFICES ASSUME Init PROVE IInv
  OBVIOUS
<1>1. TypeOK
  BY KeywordTypeInit
<1>2. ASSUME NEW t \in Tasks
      PROVE  Life(t) /\ Buffer(t) /\ Queue(t) /\ Saved(t) /\ Lined(t)
  <2>1. /\ cpc[t] = "begin" /\ rpc[t] = "none" /\ closed[t] = FALSE /\ lines[t] = <<>>
        /\ size[t] % LineLen = 0
    BY DEF Init, Fresh, AllTasks
  <2> QED
    BY <2>1 DEF Life, Buffer, Queue, Saved, Lined, Working
<1> QED
  BY <1>1, <1>2 DEF IInv

LEMMA InvStep == IInv /\ [Next]_vars => IInv'
<1> SUFFICES ASSUME IInv, [Next]_vars PROVE IInv'
  OBVIOUS
<1>1. TypeOK /\ TypeOK'
  BY KeywordTypeStep DEF IInv
<1>2. ASSUME NEW t \in Tasks
      PROVE  Life(t)' /\ Buffer(t)' /\ Queue(t)' /\ Saved(t)' /\ Lined(t)'
  BY <1>1, LifeStep, BufferStep, QueueStep, SavedStep, LinedStep DEF IInv
<1> QED
  BY <1>1, <1>2 DEF IInv

(***************************************************************************)
(* The theorems.                                                           *)
(***************************************************************************)

\* The body of InOrder, for one task.
Ordered(t) ==
  cpc[t] # "begin" /\ lives' = lives /\ next'[t] # next[t] =>
    /\ last'[t] = next[t]
    /\ Tidy => last'[t] % LineLen = 0 /\ next'[t] = last'[t] + LineLen

LEMMA OrderedStep ==
  ASSUME IInv, [Next]_vars, NEW x \in Tasks
  PROVE  Ordered(x)
<1> SUFFICES ASSUME cpc[x] # "begin", lives' = lives, next'[x] # next[x]
             PROVE  /\ last'[x] = next[x]
                    /\ Tidy => last'[x] % LineLen = 0 /\ next'[x] = last'[x] + LineLen
  BY DEF Ordered
<1>1. TypeOK /\ Queue(x) /\ Lined(x) /\ lines[x] \in Seq(Items)
  BY DEF IInv, TypeOK
<1>2. CASE SkipLine(x)
  <2>1. /\ cpc[x] = "read" /\ lines[x] # <<>>
        /\ last'[x] = Head(lines[x])[1] /\ next'[x] = Head(lines[x])[2]
    BY <1>1, <1>2 DEF SkipLine, Handled, TypeOK
  <2>2. Chain(lines[x], next[x], offset[x]) /\ (Tidy => AllWhole(lines[x]))
    BY <1>1, <2>1 DEF Queue, Lined, Working, From
  <2>3. Head(lines[x])[1] = next[x] /\ (Tidy => Whole(Head(lines[x])))
    BY <1>1, <2>1, <2>2, ChainTail, WholeTail
  <2> QED
    BY <2>1, <2>3 DEF Whole
<1>3. CASE Emit(x)
  <2>1. cpc[x] = "emit" /\ last'[x] = cur[x][1] /\ next'[x] = cur[x][2]
    BY <1>1, <1>3 DEF Emit, Handled, TypeOK
  <2> QED
    BY <1>1, <2>1 DEF Queue, Lined, Working, Whole
<1>4. CASE TaskNext(x) /\ ~SkipLine(x) /\ ~Emit(x)
  <2>1. ~Begin(x)
    BY DEF Begin, load
  <2>2. next' = next
    BY <1>4, <2>1 DEF TaskNext, BeginFail, EmitError, ReadLine, Return, CloseDone, CloseSet,
      CloseFile, Save, SaveFail, ghostVars
  <2> QED
    BY <2>2
<1>5. CASE ReaderNext(x)
  BY <1>1, <1>5, ReaderFacts
<1>6. CASE Wait
  BY <1>1, <1>6, WaitEnds
<1>7. CASE Boot
  <2>1. lives \in Nat
    BY <1>1 DEF TypeOK
  <2> QED
    BY <1>7, <2>1 DEF Boot
<1>8. CASE Same(x)
  BY <1>8 DEF Same
<1> QED
  BY <1>1, <1>2, <1>3, <1>4, <1>5, <1>6, <1>7, <1>8, WhoseStep

\* Gather.Run and Harvester.loop: within a life, a task handles its file's items one after
\* another without a gap or a repeat, through the read-ahead buffer, the channel and the
\* waits at the end of the file; and logs written in whole lines arrive as whole lines.
THEOREM ItemsInOrder == Spec => InOrder
<1>1. IInv /\ [Next]_vars => [\A t \in Tasks : Ordered(t)]_vars
  BY OrderedStep
<1> QED
  BY <1>1, InvInit, InvStep, PTL DEF Spec, InOrder, Ordered

\* What a task that succeeds in saving writes of its own file.
Current(t) == cpc[t] = "save" /\ cpc'[t] = "done" => disk'[t] >= last'[t]

\* Harvester.Close and OffsetRegistry.Save: whatever the reader is still doing, what a save
\* writes for the task's own file is not behind the last item the task handled.
THEOREM SavesAreCurrent == Spec => [][\A t \in Tasks : Current(t)]_vars
<1>1. ASSUME IInv, [Next]_vars, NEW x \in Tasks
      PROVE  Current(x)
  <2> SUFFICES ASSUME cpc[x] = "save", cpc'[x] = "done" PROVE disk'[x] >= last'[x]
    BY DEF Current
  <2>1. TypeOK /\ Saved(x) /\ last[x] \in Nat /\ mem[x] \in [Tasks -> Offsets]
    BY <1>1 DEF IInv, TypeOK
  <2>2. CASE TaskNext(x)
    <3>1. Save(x)
      BY <2>1, <2>2 DEF TaskNext, Begin, load, BeginFail, EmitError, ReadLine, SkipLine, Emit, Return,
        Cancelled, CloseDone, CloseSet, CloseFile, SaveFail, TypeOK
    <3>2. disk' = mem[x] /\ last' = last
      BY <3>1 DEF Save, ghostVars
    <3>3. last[x] <= mem[x][x]
      BY <2>1 DEF Saved
    <3>4. mem[x][x] \in Int
      BY <2>1 DEF Offsets
    <3> QED
      BY <2>1, <3>2, <3>3, <3>4
  <2>3. CASE ReaderNext(x) \/ Wait \/ Boot \/ Same(x)
    BY <2>1, <2>3, ReaderFacts, WaitEnds, BootFresh DEF Same
  <2> QED
    BY <1>1, <2>1, <2>2, <2>3, WhoseStep
<1>2. IInv /\ [Next]_vars => [\A t \in Tasks : Current(t)]_vars
  BY <1>1
<1> QED
  BY <1>2, InvInit, InvStep, PTL DEF Spec

\* The registry file of a task that has it for itself.
Kept == \A t \in Tasks : cpc[t] = "done" /\ rpc[t] # "none" => disk[t] >= last[t]

\* Gather.Run: when a registry file belongs to one task, then after a clean stop that saved
\* it the offset in it is not behind the last item handled.
THEOREM OffsetsAreSaved ==
  ASSUME NEW t0, Tasks = {t0}
  PROVE  Spec => []OffsetsSaved
<1>1. Init => Kept
  BY DEF Init, Fresh, AllTasks, Kept
<1>2. ASSUME IInv, Kept, [Next]_vars
      PROVE  Kept'
  <2> SUFFICES ASSUME NEW x \in Tasks, cpc'[x] = "done", rpc'[x] # "none"
               PROVE  disk'[x] >= last'[x]
    BY DEF Kept
  <2>1. /\ TypeOK /\ Saved(x) /\ Life(x) /\ last[x] \in Nat /\ mem[x] \in [Tasks -> Offsets]
        /\ \A t \in Tasks : t = x
    BY <1>2 DEF IInv, TypeOK
  <2>2. CASE Save(x)
    <3>1. disk' = mem[x] /\ last' = last /\ cpc[x] = "save"
      BY <2>2 DEF Save, ghostVars
    <3>2. last[x] <= mem[x][x] /\ mem[x][x] \in Int
      BY <2>1, <3>1 DEF Saved, Offsets
    <3> QED
      BY <2>1, <3>1, <3>2
  <2>3. CASE EmitError(x)
    <3>1. cpc[x] = "error" /\ rpc' = rpc
      BY <2>3 DEF EmitError, readerVars
    <3> QED
      BY <2>1, <3>1 DEF Life
  <2>4. CASE TaskNext(x) /\ ~Save(x) /\ ~EmitError(x)
    BY <2>1, <2>4 DEF TaskNext, Begin, load, BeginFail, ReadLine, SkipLine, Emit, Return, CloseDone,
      CloseSet, CloseFile, SaveFail, TypeOK, taskVars
  <2>5. CASE Boot
    BY <2>5, BootFresh
  <2>6. CASE ~TaskNext(x) /\ ~Boot
    <3>1. cpc[x] = "done" /\ rpc[x] # "none" /\ last'[x] = last[x]
      <4>1. CASE ReaderNext(x) \/ Wait
        BY <2>1, <4>1, ReaderFacts, WaitEnds
      <4>2. CASE Same(x)
        BY <4>2 DEF Same
      <4> QED
        BY <1>2, <2>1, <2>6, <4>1, <4>2, WhoseStep
    <3>2. disk' = disk
      <4>1. CASE \E t \in Tasks : ReaderNext(t)
        BY <2>1, <4>1, ReaderFacts
      <4>2. CASE (\E t \in Tasks : Truncate(t)) \/ \E t \in Tasks, n \in world.writes : Write(t, n)
        BY <4>2 DEF Truncate, Write
      <4>3. CASE Engine \/ Stop \/ Wait \/ UNCHANGED vars
        BY <4>3 DEF Engine, Stop, Wait, vars
      <4> QED
        BY <1>2, <2>1, <2>6, <4>1, <4>2, <4>3 DEF Next, Terminated
    <3> QED
      BY <1>2, <3>1, <3>2 DEF Kept
  <2> QED
    BY <2>2, <2>3, <2>4, <2>5, <2>6
<1>3. Kept => OffsetsSaved
  BY DEF Kept, OffsetsSaved
<1>4. IInv /\ Kept /\ [Next]_vars => Kept'
  BY <1>2
<1> QED
  BY <1>1, <1>3, <1>4, InvInit, InvStep, PTL DEF Spec
=============================================================================
