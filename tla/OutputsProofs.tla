--------------------------- MODULE OutputsProofs ---------------------------
(***************************************************************************)
(* Theorems about Outputs, for every list of outputs and every limit.      *)
(***************************************************************************)
EXTENDS Outputs, WellFoundedInduction, TLAPS

(***************************************************************************)
(* Types.                                                                  *)
(***************************************************************************)

LEMMA TypeInit == Init => TypeOK
  <1> SUFFICES ASSUME Init PROVE TypeOK
    OBVIOUS
  <1>1. <<>> \in Seq(Nat) /\ <<>> \in Seq({"file", "http"})
    OBVIOUS
  <1>2. spool \in [{0} \cup Backups -> Seq(Nat)] /\ spoolBytes \in [{0} \cup Backups -> Nat]
    BY <1>1 DEF Init
  <1>3. /\ 0 \in 0 .. MaxEvents /\ 0 \in 0 .. EventCap /\ 1 \in 1 .. MaxLives
        /\ 0 \in 0 .. RetryMax /\ 0 \in 0 .. MaxBackups /\ 0 \in Nat
    BY OutputsAssumption
  <1>4. /\ made \in 0 .. MaxEvents /\ ch \in 0 .. EventCap /\ ctxDone \in BOOLEAN
        /\ lives \in 1 .. MaxLives /\ attempt \in 0 .. RetryMax /\ slot \in 0 .. MaxBackups
    BY <1>3 DEF Init
  <1>5. /\ open \in BOOLEAN /\ fbOpen \in BOOLEAN
        /\ written \in Nat /\ nLog \in Nat /\ fbSize \in Nat /\ nSpool \in Nat
        /\ logBytes \in Nat /\ oldBytes \in Nat
        /\ log \in Seq(Nat) /\ oldLog \in Seq(Nat) /\ outs \in Seq({"file", "http"})
    BY <1>1, <1>3 DEF Init
  <1>6. /\ epc = "select" /\ opc = "none" /\ cut = {}
        /\ returned = {} /\ failed = {} /\ stored = {}
    BY DEF Init
  <1> QED BY <1>2, <1>4, <1>5, <1>6 DEF TypeOK

\* Publish returns: the part of the type invariant it is about.
LEMMA ReturnType ==
  ASSUME TypeOK, NEW ok \in BOOLEAN, outs # <<>>, Return(ok)
  PROVE  /\ opc' = "none"
         /\ outs' \in Seq({"file", "http"})
         /\ returned' \subseteq {"file", "http"} /\ failed' \subseteq returned'
  <1>1. Head(outs) \in {"file", "http"} /\ Tail(outs) \in Seq({"file", "http"})
    BY DEF TypeOK
  <1> QED BY <1>1 DEF TypeOK, Return, Remaining

\* A rename in the spool leaves sequences, and sizes.
LEMMA ShiftedType ==
  ASSUME TypeOK, NEW i \in 0 .. MaxBackups, Renamed(i)
  PROVE  spool' \in [{0} \cup Backups -> Seq(Nat)] /\ spoolBytes' \in [{0} \cup Backups -> Nat]
  <1>1. i \in {0} \cup Backups /\ i + 1 \in {0} \cup Backups
    BY OutputsAssumption DEF Backups
  <1>2. spool[i] \in Seq(Nat) /\ <<>> \in Seq(Nat) /\ spoolBytes[i] \in Nat
    BY <1>1 DEF TypeOK
  <1>3. spool' \in [{0} \cup Backups -> Seq(Nat)]
    BY <1>1, <1>2 DEF Renamed, Shifted, TypeOK
  <1>4. spoolBytes' \in [{0} \cup Backups -> Nat]
    BY <1>1, <1>2 DEF Renamed, Shifted, TypeOK
  <1> QED BY <1>3, <1>4

LEMMA TypeNext == TypeOK /\ [Next]_vars => TypeOK'
  <1> SUFFICES ASSUME TypeOK, [Next]_vars PROVE TypeOK'
    OBVIOUS
  <1> USE OutputsAssumption DEF envVars, engVars, fileVars, spoolVars, httpVars, pubVars
  <1>1. CASE Produce
    BY <1>1 DEF Produce, TypeOK
  <1>2. CASE Take
    BY <1>2 DEF Take, PublishAll, TypeOK
  <1>3. CASE Heartbeat
    BY <1>3 DEF Heartbeat, PublishAll, TypeOK
  <1>4. CASE EventDone
    BY <1>4 DEF EventDone, TypeOK
  <1>5. CASE EngineStop
    BY <1>5 DEF EngineStop, TypeOK
  <1>6. CASE FileNext
    <2>1. CASE FilePublish
      <3>0. /\ written' \in Nat /\ nLog' \in Nat /\ log' \in Seq(Nat) /\ logBytes' \in Nat
            /\ stored' \subseteq {"file", "http", "server"}
        BY <2>1 DEF FilePublish, TypeOK
      <3>1. CASE written' >= FileMax
        BY <2>1, <3>0, <3>1 DEF FilePublish, At, Goto, TypeOK
      <3>2. CASE ~(written' >= FileMax)
        <4>1. Return(TRUE)
          BY <2>1, <3>2 DEF FilePublish
        <4> QED BY <2>1, <3>0, <3>2, <4>1, ReturnType DEF FilePublish, At, TypeOK
      <3> QED BY <3>1, <3>2
    <2>2. CASE FilePublishFail
      BY <2>2, ReturnType DEF FilePublishFail, At, TypeOK
    <2>3. CASE FileRename
      BY <2>3 DEF FileRename, At, Goto, TypeOK
    <2>4. CASE FileRenameFail
      BY <2>4 DEF FileRenameFail, At, Goto, TypeOK
    <2>5. CASE FileReopen
      <3>1. written' \in Nat
        BY <2>5 DEF FileReopen, CountFrom, TypeOK
      <3> QED BY <2>5, <3>1, ReturnType DEF FileReopen, At, TypeOK
    <2>6. CASE FileReopenFail
      BY <2>6, ReturnType DEF FileReopenFail, At, TypeOK
    <2> QED BY <1>6, <2>1, <2>2, <2>3, <2>4, <2>5, <2>6 DEF FileNext
  <1>7. CASE HttpNext
    <2>1. CASE HttpPublish
      BY <2>1 DEF HttpPublish, At, Goto, TypeOK
    <2>2. CASE FormatFail
      BY <2>2, ReturnType DEF FormatFail, At, TypeOK
    <2>3. CASE SendOk
      BY <2>3, ReturnType DEF SendOk, At, TypeOK
    <2>4. CASE SendFail
      <3>1. attempt' \in 0 .. RetryMax /\ stored' \subseteq {"file", "http", "server"}
        BY <2>4 DEF SendFail, MoreAttempts, TypeOK
      <3>2. /\ UNCHANGED <<outs, returned, failed>>
            /\ opc' \in {"backoff", "fallback"}
        BY <2>4 DEF SendFail, Goto
      <3> QED BY <2>4, <3>1, <3>2 DEF SendFail, TypeOK
    <2>5. CASE Backoff
      BY <2>5 DEF Backoff, At, Goto, TypeOK
    <2>6. CASE BackoffCancelled
      BY <2>6 DEF BackoffCancelled, GiveUp, At, Goto, TypeOK
    <2>7. CASE FallbackOpen
      BY <2>7 DEF FallbackOpen, At, Goto, CountFrom, Backups, TypeOK
    <2>8. CASE FallbackFail
      BY <2>8, ReturnType DEF FallbackFail, At, TypeOK
    <2>9. CASE FallbackWrite
      <3>1. /\ spool' \in [{0} \cup Backups -> Seq(Nat)]
            /\ spoolBytes' \in [{0} \cup Backups -> Nat]
            /\ nSpool' \in Nat /\ fbSize' \in Nat
            /\ stored' \subseteq {"file", "http", "server"}
        BY <2>9 DEF FallbackWrite, Backups, TypeOK
      <3>2. CASE fbSize' >= SpoolMax
        <4>1. slot' \in 0 .. MaxBackups
          BY <2>9, <3>2 DEF FallbackWrite, Oldest
        <4> QED BY <2>9, <3>1, <3>2, <4>1 DEF FallbackWrite, At, Goto, TypeOK
      <3>3. CASE ~(fbSize' >= SpoolMax)
        <4>1. Return(TRUE)
          BY <2>9, <3>3 DEF FallbackWrite
        <4> QED BY <2>9, <3>1, <3>3, <4>1, ReturnType DEF FallbackWrite, At, TypeOK
      <3> QED BY <3>2, <3>3
    <2>10. CASE FallbackWriteFail
      BY <2>10, ReturnType DEF FallbackWriteFail, At, TypeOK
    <2>11. CASE Shift
      <3>1. spool' \in [{0} \cup Backups -> Seq(Nat)] /\ spoolBytes' \in [{0} \cup Backups -> Nat]
        BY <2>11, ShiftedType DEF Shift, TypeOK
      <3>2. slot' \in 0 .. MaxBackups
        BY <2>11 DEF Shift, TypeOK
      <3> QED BY <2>11, <3>1, <3>2 DEF Shift, TypeOK
    <2>12. CASE ShiftBase
      <3>1. spool' \in [{0} \cup Backups -> Seq(Nat)] /\ spoolBytes' \in [{0} \cup Backups -> Nat]
        BY <2>12, ShiftedType DEF ShiftBase, TypeOK
      <3> QED BY <2>12, <3>1, ReturnType DEF ShiftBase, At, TypeOK
    <2>13. CASE ShiftFail
      <3>1. slot' \in 0 .. MaxBackups /\ cut' \subseteq {"file", "spool"}
        BY <2>13 DEF ShiftFail, TypeOK
      <3> QED BY <2>13, <3>1, ReturnType DEF ShiftFail, At, TypeOK
    <2> QED BY <1>7, <2>1, <2>2, <2>3, <2>4, <2>5, <2>6, <2>7, <2>8, <2>9, <2>10,
               <2>11, <2>12, <2>13 DEF HttpNext
  <1>8. CASE Cancel
    BY <1>8 DEF Cancel, TypeOK
  <1>9. CASE Boot
    <2>1. written' \in Nat /\ lives' \in 1 .. MaxLives
      BY <1>9 DEF Boot, CountFrom, TypeOK
    <2>2. cut' \subseteq {"file", "spool"}
      BY <1>9 DEF Boot, TypeOK
    <2>3. <<>> \in Seq({"file", "http"})
      OBVIOUS
    <2>4. attempt' \in 0 .. RetryMax /\ slot' \in 0 .. MaxBackups /\ ch' \in 0 .. EventCap
      BY <1>9 DEF Boot
    <2> QED BY <1>9, <2>1, <2>2, <2>3, <2>4 DEF Boot, TypeOK
  <1>10. CASE UNCHANGED vars
    BY <1>10 DEF vars, TypeOK
  <1> QED BY <1>1, <1>2, <1>3, <1>4, <1>5, <1>6, <1>7, <1>8, <1>9, <1>10
          DEF Next, EngineNext, Terminated

\* Every variable of the engine and the outputs keeps its type; in particular
\* trySend never makes more than retry_max retries.
THEOREM OutputsTypeCorrect == Spec => []TypeOK
  BY TypeInit, TypeNext, PTL DEF Spec

(***************************************************************************)
(* No event is lost without an error.                                      *)
(***************************************************************************)

\* Between two steps of a Publish it is known whose it is, and a rotation is
\* of a file the event was written to.
PubInv ==
  /\ opc # "none" => epc = "publish" /\ outs # <<>>
  /\ opc \in {"rename", "reopen"} => Head(outs) = "file" /\ "file" \in stored
  /\ opc = "shift" => Head(outs) = "http" /\ "http" \in stored
  /\ NoSilentLoss

LEMMA PubInit == Init => PubInv
  BY DEF Init, PubInv, NoSilentLoss

\* A Publish that returns: what it must have done if it reports no error.
LEMMA ReturnPub ==
  ASSUME TypeOK, PubInv, NEW ok \in BOOLEAN, outs # <<>>, Return(ok),
         stored \subseteq stored',
         ok /\ Head(outs) = "file" => "file" \in stored',
         ok /\ Head(outs) = "http" => stored' \cap {"http", "server"} # {}
  PROVE  PubInv'
  <1>1. NoSilentLoss'
    <2>1. returned' = returned \cup {Head(outs)}
      BY DEF Return
    <2>2. failed' = IF ok THEN failed ELSE failed \cup {Head(outs)}
      BY DEF Return
    <2>3. NoSilentLoss
      BY DEF PubInv
    <2>4. "file" \in returned' \ failed' => "file" \in stored'
      BY <2>1, <2>2, <2>3 DEF NoSilentLoss
    <2>5. "http" \in returned' \ failed' => stored' \cap {"http", "server"} # {}
      BY <2>1, <2>2, <2>3 DEF NoSilentLoss
    <2> QED BY <2>4, <2>5 DEF NoSilentLoss
  <1>2. opc' = "none"
    BY DEF Return
  <1> QED BY <1>1, <1>2 DEF PubInv

\* A Publish that goes on.
LEMMA GotoPub ==
  ASSUME PubInv, NEW pc, Goto(pc), epc = "publish", outs # <<>>, epc' = epc,
         stored \subseteq stored',
         pc \in {"rename", "reopen"} => Head(outs) = "file" /\ "file" \in stored',
         pc = "shift" => Head(outs) = "http" /\ "http" \in stored'
  PROVE  PubInv'
  <1>1. NoSilentLoss'
    BY DEF PubInv, NoSilentLoss, Goto
  <1> QED BY <1>1 DEF PubInv, Goto

\* A step that leaves the Publish in progress alone.
LEMMA SamePub ==
  ASSUME PubInv, UNCHANGED <<opc, outs, pubVars>>, epc' = epc \/ opc = "none"
  PROVE  PubInv'
  BY DEF PubInv, NoSilentLoss, pubVars

LEMMA PubNext == TypeOK /\ PubInv /\ [Next]_vars => PubInv'
  <1> SUFFICES ASSUME TypeOK, PubInv, [Next]_vars PROVE PubInv'
    OBVIOUS
  <1> USE DEF envVars, engVars, pubVars
  <1>1. CASE Produce
    BY <1>1, SamePub DEF Produce
  <1>2. CASE PublishAll
    <2>1. opc = "none"
      BY <1>2 DEF PublishAll, PubInv
    <2> QED BY <1>2, <2>1 DEF PublishAll, PubInv, NoSilentLoss
  <1>3. CASE EventDone
    BY <1>3 DEF EventDone, PubInv, NoSilentLoss
  <1>4. CASE EngineStop
    <2>1. opc = "none"
      BY <1>4 DEF EngineStop, PubInv
    <2> QED BY <1>4, <2>1, SamePub DEF EngineStop
  <1>5. CASE FileNext
    <2>1. CASE FilePublish
      <3>1. stored \subseteq stored' /\ "file" \in stored' /\ epc' = epc
        BY <2>1 DEF FilePublish
      <3>2. epc = "publish" /\ outs # <<>> /\ Head(outs) = "file"
        BY <2>1 DEF FilePublish, At
      <3>3. Goto("rename") \/ Return(TRUE)
        BY <2>1 DEF FilePublish
      <3> QED BY <3>1, <3>2, <3>3, GotoPub, ReturnPub
    <2>2. CASE FilePublishFail
      BY <2>2, ReturnPub DEF FilePublishFail, At
    <2>3. CASE FileRename
      BY <2>3, GotoPub DEF FileRename, At, PubInv
    <2>4. CASE FileRenameFail
      BY <2>4, GotoPub DEF FileRenameFail, At, PubInv
    <2>5. CASE FileReopen
      BY <2>5, ReturnPub DEF FileReopen, At, PubInv
    <2>6. CASE FileReopenFail
      BY <2>6, ReturnPub DEF FileReopenFail, At, PubInv
    <2> QED BY <1>5, <2>1, <2>2, <2>3, <2>4, <2>5, <2>6 DEF FileNext
  <1>6. CASE HttpNext
    <2>1. CASE HttpPublish
      BY <2>1, GotoPub DEF HttpPublish, At
    <2>2. CASE FormatFail
      BY <2>2, ReturnPub DEF FormatFail, At
    <2>3. CASE SendOk
      <3>1. stored \subseteq stored' /\ stored' \cap {"http", "server"} # {}
        BY <2>3 DEF SendOk
      <3> QED BY <2>3, <3>1, ReturnPub DEF SendOk, At
    <2>4. CASE SendFail
      <3>1. stored \subseteq stored' /\ epc' = epc
        BY <2>4 DEF SendFail
      <3>2. Goto("backoff") \/ Goto("fallback")
        BY <2>4 DEF SendFail
      <3> QED BY <2>4, <3>1, <3>2, GotoPub DEF SendFail, At
    <2>5. CASE Backoff
      BY <2>5, GotoPub DEF Backoff, At
    <2>6. CASE BackoffCancelled
      BY <2>6, GotoPub DEF BackoffCancelled, GiveUp, At
    <2>7. CASE FallbackOpen
      BY <2>7, GotoPub DEF FallbackOpen, At
    <2>8. CASE FallbackFail
      BY <2>8, ReturnPub DEF FallbackFail, At
    <2>9. CASE FallbackWrite
      <3>1. stored \subseteq stored' /\ "http" \in stored' /\ epc' = epc
        BY <2>9 DEF FallbackWrite
      <3>2. epc = "publish" /\ outs # <<>> /\ Head(outs) = "http"
        BY <2>9 DEF FallbackWrite, At
      <3>3. Goto("shift") \/ Return(TRUE)
        BY <2>9 DEF FallbackWrite
      <3> QED BY <3>1, <3>2, <3>3, GotoPub, ReturnPub
    <2>10. CASE FallbackWriteFail
      BY <2>10, ReturnPub DEF FallbackWriteFail, At
    <2>11. CASE Shift
      BY <2>11, SamePub DEF Shift
    <2>12. CASE ShiftBase
      BY <2>12, ReturnPub DEF ShiftBase, At, PubInv
    <2>13. CASE ShiftFail
      BY <2>13, ReturnPub DEF ShiftFail, At
    <2> QED BY <1>6, <2>1, <2>2, <2>3, <2>4, <2>5, <2>6, <2>7, <2>8, <2>9, <2>10,
               <2>11, <2>12, <2>13 DEF HttpNext
  <1>7. CASE Cancel
    BY <1>7, SamePub DEF Cancel
  <1>8. CASE Boot
    BY <1>8 DEF Boot, PubInv, NoSilentLoss
  <1>9. CASE UNCHANGED vars
    BY <1>9, SamePub DEF vars
  <1> QED BY <1>1, <1>2, <1>3, <1>4, <1>5, <1>6, <1>7, <1>8, <1>9
          DEF Next, EngineNext, Take, Heartbeat, Terminated

\* Whatever the outputs, their limits and the failures: when a Publish has
\* returned without an error, the event is stored.
THEOREM NothingLostSilently == Spec => []NoSilentLoss
  <1>1. PubInv => NoSilentLoss
    BY DEF PubInv
  <1> QED BY <1>1, OutputsTypeCorrect, PubInit, PubNext, PTL DEF Spec

(***************************************************************************)
(* Every output gets every event.                                          *)
(***************************************************************************)

\* The outputs that have had the event and those it is still for are all there
\* are.
RoundInv ==
  /\ epc = "select" => returned = {}
  /\ epc = "publish" => returned \cup ToSet(outs) = ToSet(Wired)

LEMMA ToSetHead ==
  ASSUME NEW S, NEW s \in Seq(S), s # <<>>
  PROVE  ToSet(s) = {Head(s)} \cup ToSet(Tail(s))
  <1>1. \A x \in ToSet(s) : x \in {Head(s)} \cup ToSet(Tail(s))
    <2> TAKE x \in ToSet(s)
    <2>1. PICK i \in 1 .. Len(s) : x = s[i]
      BY DEF ToSet
    <2>2. CASE i = 1
      BY <2>1, <2>2
    <2>3. CASE i # 1
      <3>1. i - 1 \in 1 .. Len(Tail(s)) /\ Tail(s)[i - 1] = s[i]
        BY <2>3
      <3>2. Tail(s) \in Seq(S)
        OBVIOUS
      <3>3. i - 1 \in DOMAIN Tail(s)
        BY <3>1, <3>2
      <3> QED BY <2>1, <3>1, <3>3 DEF ToSet
    <2> QED BY <2>2, <2>3
  <1>2. \A x \in ToSet(Tail(s)) : x \in ToSet(s)
    <2> TAKE x \in ToSet(Tail(s))
    <2>1. PICK i \in 1 .. Len(Tail(s)) : x = Tail(s)[i]
      BY DEF ToSet
    <2>2. i + 1 \in 1 .. Len(s) /\ Tail(s)[i] = s[i + 1]
      OBVIOUS
    <2> QED BY <2>1, <2>2 DEF ToSet
  <1>3. Head(s) \in ToSet(s)
    BY DEF ToSet
  <1> QED BY <1>1, <1>2, <1>3

\* Whether it fails or not, a Publish that returns hands the event on.
LEMMA ReturnRound ==
  ASSUME TypeOK, RoundInv, NEW ok, Return(ok), epc = "publish", outs # <<>>, epc' = epc
  PROVE  RoundInv'
  <1>1. ToSet(outs) = {Head(outs)} \cup ToSet(Tail(outs))
    BY ToSetHead DEF TypeOK
  <1>2. outs' = Tail(outs) /\ returned' = returned \cup {Head(outs)}
    BY DEF Return, Remaining
  <1>3. returned \cup ToSet(outs) = ToSet(Wired)
    BY DEF RoundInv
  <1>4. returned' \cup ToSet(Tail(outs)) = ToSet(Wired)
    BY <1>1, <1>2, <1>3
  <1> QED BY <1>2, <1>4 DEF RoundInv

LEMMA SameRound ==
  ASSUME RoundInv, UNCHANGED <<outs, returned>>, epc' = epc \/ epc' = "exit"
  PROVE  RoundInv'
  BY DEF RoundInv

LEMMA RoundNext == TypeOK /\ RoundInv /\ [Next]_vars => RoundInv'
  <1> SUFFICES ASSUME TypeOK, RoundInv, [Next]_vars PROVE RoundInv'
    OBVIOUS
  <1> USE DEF envVars, engVars, pubVars
  <1>1. CASE Produce \/ Cancel \/ EngineStop \/ Shift
    BY <1>1, SameRound DEF Produce, Cancel, EngineStop, Shift
  <1>2. CASE PublishAll
    BY <1>2 DEF PublishAll, RoundInv
  <1>3. CASE EventDone
    BY <1>3 DEF EventDone, RoundInv
  <1>4. CASE FileNext
    <2>1. epc = "publish" /\ outs # <<>> /\ epc' = epc
      BY <1>4 DEF FileNext, FilePublish, FilePublishFail, FileRename, FileRenameFail,
                  FileReopen, FileReopenFail, At
    <2>2. \/ Return(TRUE) \/ Return(FALSE) \/ UNCHANGED <<outs, returned>>
      BY <1>4 DEF FileNext, FilePublish, FilePublishFail, FileRename, FileRenameFail,
                  FileReopen, FileReopenFail, Goto
    <2> QED BY <2>1, <2>2, ReturnRound, SameRound
  <1>5. CASE HttpNext /\ ~Shift
    <2>1. epc = "publish" /\ outs # <<>> /\ epc' = epc
      BY <1>5 DEF HttpNext, HttpPublish, FormatFail, SendOk, SendFail, Backoff,
                  BackoffCancelled, FallbackOpen, FallbackFail, FallbackWrite,
                  FallbackWriteFail, ShiftBase, ShiftFail, At
    <2>2. \/ Return(TRUE) \/ Return(FALSE) \/ UNCHANGED <<outs, returned>>
      BY <1>5 DEF HttpNext, HttpPublish, FormatFail, SendOk, SendFail, Backoff,
                  BackoffCancelled, GiveUp, FallbackOpen, FallbackFail, FallbackWrite,
                  FallbackWriteFail, ShiftBase, ShiftFail, Goto
    <2> QED BY <2>1, <2>2, ReturnRound, SameRound
  <1>6. CASE Boot
    BY <1>6 DEF Boot, RoundInv
  <1>7. CASE UNCHANGED vars
    BY <1>7, SameRound DEF vars
  <1> QED BY <1>1, <1>2, <1>3, <1>4, <1>5, <1>6, <1>7
          DEF Next, EngineNext, Take, Heartbeat, Terminated

\* However many outputs there are and whichever of them fail: the engine goes on
\* when each of them has had the event.
THEOREM EveryOutputGetsEveryEvent == Spec => []OutputsIndependent
  <1>1. Init => RoundInv
    BY DEF Init, RoundInv
  <1>2. RoundInv => OutputsIndependent
    <2> SUFFICES ASSUME RoundInv, epc = "publish", outs = <<>> PROVE returned = ToSet(Wired)
      BY DEF OutputsIndependent
    <2>1. ToSet(outs) = {}
      BY DEF ToSet
    <2> QED BY <2>1 DEF RoundInv
  <1> QED BY <1>1, <1>2, OutputsTypeCorrect, RoundNext, PTL DEF Spec

(***************************************************************************)
(* The sizes of the files.                                                 *)
(***************************************************************************)

\* Of a file the last line written has made as long as this, the limit is max.
Within(bytes, max) == bytes < max + MaxLine \/ bytes <= MaxLine

\* The counter of an open file is its size, and only a file that is about to be
\* rotated is full.
FileInv ==
  /\ open => written = logBytes
  /\ opc \in {"rename", "reopen"} => ~open
  /\ "file" \notin cut => /\ Within(logBytes, FileMax) /\ Within(oldBytes, FileMax)
                          /\ opc # "rename" => logBytes < FileMax \/ logBytes = 0

SpoolInv ==
  /\ fbOpen => fbSize = spoolBytes[0]
  /\ opc = "write" => fbOpen
  /\ opc = "shift" => ~fbOpen /\ spool[0] # <<>>
  /\ "spool" \notin cut =>
       /\ \A k \in {0} \cup Backups : spoolBytes[k] < SpoolMax + MaxLine
       /\ opc # "shift" => spoolBytes[0] < SpoolMax

LEMMA SizesInit == Init => FileInv /\ SpoolInv
  <1> SUFFICES ASSUME Init PROVE FileInv /\ SpoolInv
    OBVIOUS
  <1>1. spoolBytes[0] = 0 /\ \A k \in {0} \cup Backups : spoolBytes[k] = 0
    BY DEF Init
  <1> QED BY <1>1, OutputsAssumption DEF Init, FileInv, SpoolInv, Within

\* A step that is not of the file output's Publish.
LEMMA SameFile ==
  ASSUME FileInv, UNCHANGED <<open, written, logBytes, oldBytes>>, cut \subseteq cut',
         opc' = opc \/ (opc # "rename" /\ opc' \notin {"rename", "reopen"})
  PROVE  FileInv'
  BY DEF FileInv, Within

\* A step that is not of the spool.
LEMMA SameSpool ==
  ASSUME SpoolInv, UNCHANGED <<fbOpen, fbSize, spool, spoolBytes>>, cut \subseteq cut',
         opc' = opc \/ (opc # "shift" /\ opc' \notin {"write", "shift"})
  PROVE  SpoolInv'
  BY DEF SpoolInv

LEMMA FileNextSizes == TypeOK /\ FileInv /\ SpoolInv /\ FileNext => FileInv' /\ SpoolInv'
  <1> SUFFICES ASSUME TypeOK, FileInv, SpoolInv, FileNext PROVE FileInv' /\ SpoolInv'
    OBVIOUS
  <1>1. SpoolInv'
    BY SameSpool DEF FileNext, FilePublish, FilePublishFail, FileRename, FileRenameFail,
       FileReopen, FileReopenFail, At, Goto, Return, httpVars, spoolVars
  <1>2. FileInv'
    <2>1. CASE FilePublish
      <3>1. PICK n \in 1 .. MaxLine : logBytes' = logBytes + n /\ written' = written + n
        BY <2>1 DEF FilePublish
      <3>2. written' = logBytes' /\ cut' = cut /\ oldBytes' = oldBytes
        BY <2>1, <3>1 DEF FilePublish, FileInv
      <3>3. "file" \notin cut => logBytes < FileMax \/ logBytes = 0
        BY <2>1 DEF FilePublish, At, FileInv
      <3>4. /\ logBytes \in Nat /\ FileMax \in Nat /\ MaxLine \in Nat /\ n \in Nat /\ n <= MaxLine
        BY OutputsAssumption DEF TypeOK
      <3>5. "file" \notin cut => Within(logBytes', FileMax) /\ Within(oldBytes', FileMax)
        <4>1. "file" \notin cut => Within(logBytes', FileMax)
          BY <3>1, <3>3, <3>4 DEF Within
        <4>2. "file" \notin cut => Within(oldBytes, FileMax)
          BY DEF FileInv
        <4> QED BY <3>2, <4>1, <4>2
      <3>6. CASE written' >= FileMax
        <4>1. opc' = "rename" /\ open' = FALSE
          BY <2>1, <3>6 DEF FilePublish, Goto
        <4> QED BY <3>2, <3>5, <4>1 DEF FileInv, Within
      <3>7. CASE ~(written' >= FileMax)
        <4>1. opc' = "none"
          BY <2>1, <3>7 DEF FilePublish, Return
        <4>2. logBytes' < FileMax
          BY <3>1, <3>2, <3>4, <3>7
        <4> QED BY <3>2, <3>5, <4>1, <4>2 DEF FileInv, Within
      <3> QED BY <3>6, <3>7
    <2>2. CASE FilePublishFail
      BY <2>2, SameFile DEF FilePublishFail, At, Return, fileVars
    <2>3. CASE FileRename
      <3>1. /\ opc' = "reopen" /\ logBytes' = 0 /\ oldBytes' = logBytes /\ UNCHANGED <<open, cut>>
            /\ ~open
        BY <2>3 DEF FileRename, At, Goto, FileInv
      <3>2. Within(0, FileMax)
        BY OutputsAssumption DEF Within
      <3> QED BY <3>1, <3>2 DEF FileInv, Within
    <2>4. CASE FileRenameFail
      BY <2>4 DEF FileRenameFail, At, Goto, FileInv, fileVars
    <2>5. CASE FileReopen
      BY <2>5 DEF FileReopen, At, Return, CountFrom, FileInv, Within
    <2>6. CASE FileReopenFail
      BY <2>6, SameFile DEF FileReopenFail, At, Return, fileVars
    <2> QED BY <2>1, <2>2, <2>3, <2>4, <2>5, <2>6 DEF FileNext
  <1> QED BY <1>1, <1>2

\* A rename makes no file larger than the largest.
LEMMA RenamedBelow ==
  ASSUME TypeOK, NEW i \in 0 .. MaxBackups, Renamed(i), NEW max \in Nat,
         \A k \in {0} \cup Backups : spoolBytes[k] < max
  PROVE  \A k \in {0} \cup Backups : spoolBytes'[k] < max
  <1>1. i \in {0} \cup Backups /\ i + 1 \in {0} \cup Backups
    BY OutputsAssumption DEF Backups
  <1>2. spoolBytes \in [{0} \cup Backups -> Nat] /\ 0 < max
    <2>1. spoolBytes[i] \in Nat /\ spoolBytes[i] < max
      BY <1>1 DEF TypeOK
    <2> QED BY <2>1 DEF TypeOK
  <1> QED BY <1>1, <1>2 DEF Renamed, Shifted

LEMMA HttpNextSizes == TypeOK /\ FileInv /\ SpoolInv /\ HttpNext => FileInv' /\ SpoolInv'
  <1> SUFFICES ASSUME TypeOK, FileInv, SpoolInv, HttpNext PROVE FileInv' /\ SpoolInv'
    OBVIOUS
  <1>1. FileInv'
    BY SameFile DEF HttpNext, HttpPublish, FormatFail, SendOk, SendFail, Backoff,
       BackoffCancelled, GiveUp, FallbackOpen, FallbackFail, FallbackWrite,
       FallbackWriteFail, Shift, ShiftBase, ShiftFail, At, Goto, Return, fileVars
  <1>2. SpoolInv'
    <2>1. CASE \/ HttpPublish \/ FormatFail \/ SendOk \/ SendFail \/ Backoff
               \/ BackoffCancelled \/ FallbackFail \/ FallbackWriteFail
      BY <2>1, SameSpool DEF HttpPublish, FormatFail, SendOk, SendFail, Backoff,
         BackoffCancelled, GiveUp, FallbackFail, FallbackWriteFail, At, Goto, Return, httpVars,
         spoolVars
    <2>2. CASE FallbackOpen
      BY <2>2 DEF FallbackOpen, At, Goto, CountFrom, SpoolInv, spoolVars
    <2>3. CASE FallbackWrite
      <3>1. PICK n \in 1 .. MaxLine :
              spoolBytes' = [spoolBytes EXCEPT ![0] = @ + n] /\ fbSize' = fbSize + n
        BY <2>3 DEF FallbackWrite
      <3>2. /\ spoolBytes'[0] = spoolBytes[0] + n
            /\ \A k \in {0} \cup Backups : k # 0 => spoolBytes'[k] = spoolBytes[k]
        BY <3>1 DEF TypeOK
      <3>3. fbOpen /\ fbSize' = spoolBytes'[0] /\ cut' = cut
        BY <2>3, <3>1, <3>2 DEF FallbackWrite, At, SpoolInv
      <3>4. "spool" \notin cut => spoolBytes[0] < SpoolMax
        BY <2>3 DEF FallbackWrite, At, SpoolInv
      <3>5. spoolBytes[0] \in Nat /\ SpoolMax \in Nat /\ MaxLine \in Nat /\ n \in Nat /\ n <= MaxLine
        BY OutputsAssumption DEF TypeOK, Backups
      <3>6. "spool" \notin cut => \A k \in {0} \cup Backups : spoolBytes'[k] < SpoolMax + MaxLine
        <4> SUFFICES ASSUME "spool" \notin cut, NEW k \in {0} \cup Backups
                     PROVE  spoolBytes'[k] < SpoolMax + MaxLine
          OBVIOUS
        <4>1. CASE k = 0
          BY <3>2, <3>4, <3>5, <4>1
        <4>2. CASE k # 0
          BY <3>2, <4>2 DEF SpoolInv
        <4> QED BY <4>1, <4>2
      <3>7. CASE fbSize' >= SpoolMax
        <4>1. opc' = "shift" /\ fbOpen' = FALSE
          BY <2>3, <3>7 DEF FallbackWrite, Goto
        <4>2. spool'[0] # <<>>
          <5>1. spool[0] \in Seq(Nat) /\ nSpool + 1 \in Nat
            BY DEF TypeOK
          <5>2. spool'[0] = Append(spool[0], nSpool + 1)
            BY <2>3 DEF FallbackWrite, TypeOK
          <5>3. Len(Append(spool[0], nSpool + 1)) = Len(spool[0]) + 1 /\ Len(spool[0]) \in Nat
            BY <5>1
          <5>4. Len(Append(spool[0], nSpool + 1)) # 0
            BY <5>3
          <5>5. Len(<<>>) = 0
            OBVIOUS
          <5> QED BY <5>2, <5>4, <5>5, Zenon
        <4> QED BY <3>3, <3>6, <4>1, <4>2 DEF SpoolInv
      <3>8. CASE ~(fbSize' >= SpoolMax)
        <4>1. opc' = "none"
          BY <2>3, <3>8 DEF FallbackWrite, Return
        <4>2. spoolBytes'[0] < SpoolMax
          BY <3>2, <3>3, <3>5, <3>8
        <4> QED BY <3>3, <3>6, <4>1, <4>2 DEF SpoolInv
      <3> QED BY <3>7, <3>8
    <2>4. CASE Shift
      <3>1. slot \in 0 .. MaxBackups /\ slot # 0 /\ slot + 1 # 0 /\ Renamed(slot)
        BY <2>4, OutputsAssumption DEF Shift, TypeOK
      <3>2. spool'[0] = spool[0] /\ spoolBytes'[0] = spoolBytes[0]
        BY <3>1, OutputsAssumption DEF Renamed, Shifted, TypeOK
      <3>3. "spool" \notin cut => \A k \in {0} \cup Backups : spoolBytes'[k] < SpoolMax + MaxLine
        <4>1. PICK max \in Nat : max = SpoolMax + MaxLine
          BY OutputsAssumption
        <4>2. "spool" \notin cut => \A k \in {0} \cup Backups : spoolBytes[k] < max
          BY <4>1 DEF SpoolInv
        <4> QED BY <3>1, <4>1, <4>2, RenamedBelow
      <3> QED BY <2>4, <3>2, <3>3 DEF Shift, SpoolInv
    <2>5. CASE ShiftBase
      <3>0. 0 \in 0 .. MaxBackups /\ Renamed(0)
        BY <2>5, OutputsAssumption DEF ShiftBase
      <3>1. spoolBytes'[0] = 0
        <4>1. spool[0] # <<>>
          BY <2>5 DEF ShiftBase, At, SpoolInv
        <4> QED BY <3>0, <4>1, OutputsAssumption DEF Renamed, Shifted, Backups, TypeOK
      <3>2. opc' = "none" /\ ~fbOpen' /\ cut' = cut
        BY <2>5 DEF ShiftBase, At, Return, SpoolInv
      <3>3. "spool" \notin cut => \A k \in {0} \cup Backups : spoolBytes'[k] < SpoolMax + MaxLine
        <4>1. PICK max \in Nat : max = SpoolMax + MaxLine
          BY OutputsAssumption
        <4>2. "spool" \notin cut => \A k \in {0} \cup Backups : spoolBytes[k] < max
          BY <4>1 DEF SpoolInv
        <4> QED BY <3>0, <4>1, <4>2, RenamedBelow
      <3> QED BY <3>1, <3>2, <3>3, OutputsAssumption DEF SpoolInv
    <2>6. CASE ShiftFail
      BY <2>6 DEF ShiftFail, At, Return, SpoolInv, spoolVars
    <2> QED BY <2>1, <2>2, <2>3, <2>4, <2>5, <2>6 DEF HttpNext
  <1> QED BY <1>1, <1>2

LEMMA SizesNext == TypeOK /\ FileInv /\ SpoolInv /\ [Next]_vars => FileInv' /\ SpoolInv'
  <1> SUFFICES ASSUME TypeOK, FileInv, SpoolInv, [Next]_vars PROVE FileInv' /\ SpoolInv'
    OBVIOUS
  <1>1. CASE \/ Produce \/ PublishAll \/ EventDone \/ EngineStop \/ Cancel
             \/ UNCHANGED vars
    BY <1>1, SameFile, SameSpool DEF Produce, PublishAll, EventDone, EngineStop, Cancel,
       fileVars, httpVars, spoolVars, vars
  <1>2. CASE FileNext \/ HttpNext
    BY <1>2, FileNextSizes, HttpNextSizes
  <1>3. CASE Boot
    <2>1. FileInv'
      BY <1>3 DEF Boot, CountFrom, FileInv, Within
    <2>2. SpoolInv'
      BY <1>3 DEF Boot, SpoolInv, spoolVars
    <2> QED BY <2>1, <2>2
  <1> QED BY <1>1, <1>2, <1>3 DEF Next, EngineNext, Take, Heartbeat, Terminated

\* Whatever the limits and however long the lines: unless a rotation was cut short, no
\* file or backup passes its limit by a whole longest line, however often the process
\* is started again.
THEOREM FilesBounded == Spec => []SizesBounded
  <1>1. FileInv /\ SpoolInv => SizesBounded
    BY DEF FileInv, SpoolInv, SizesBounded, Within
  <1> QED BY <1>1, OutputsTypeCorrect, SizesInit, SizesNext, PTL DEF Spec

(***************************************************************************)
(* Flattening a sequence of sequences, by induction: a set of numbers that *)
(* is not empty has a least one (the form the provers can use).            *)
(***************************************************************************)

LEMMA Least ==
  ASSUME NEW T \in SUBSET Nat, T # {}
  PROVE  \E x \in T : \A y \in T : x <= y
  <1>1. PICK R : R = OpToRel(<, Nat)
    OBVIOUS
  <1>2. IsWellFoundedOn(R, Nat)
    BY <1>1, NatLessThanWellFounded
  <1>3. PICK x \in T : \A y \in T : <<y, x>> \notin R
    BY <1>2, WFMin
  <1>4. \A y \in T : ~(y < x)
    BY <1>1, <1>3 DEF OpToRel
  <1> QED BY <1>4

\* Induction from 1 to n, about the set of numbers that have the property.
LEMMA UpTo ==
  ASSUME NEW n \in Nat, NEW H, 1 \in H,
         \A i \in 1 .. n : i \in H /\ i < n => i + 1 \in H
  PROVE  \A i \in 1 .. n : i \in H
  <1> SUFFICES ASSUME NEW j \in 1 .. n, j \notin H PROVE FALSE
    OBVIOUS
  <1>1. PICK T : T = {i \in 1 .. n : i \notin H}
    OBVIOUS
  <1>2. T \in SUBSET Nat /\ T # {}
    BY <1>1
  <1>3. PICK x \in T : \A y \in T : x <= y
    BY <1>2, Least
  <1>4. x \in 1 .. n /\ x \notin H
    BY <1>1
  <1>5. x # 1
    BY <1>4
  <1>6. x - 1 \in 1 .. n /\ x - 1 < n /\ x - 1 \notin T
    BY <1>3, <1>4, <1>5
  <1>7. x - 1 \in H
    BY <1>1, <1>6
  <1>8. (x - 1) + 1 \in H
    BY <1>6, <1>7
  <1> QED BY <1>4, <1>8

\* FlattenSeq puts the sequences one after the other.
LEMMA Flatten ==
  ASSUME NEW s \in Seq(Seq(Nat)), Len(s) # 0
  PROVE  \E g \in [1 .. Len(s) -> Seq(Nat)] :
           /\ g[1] = s[1]
           /\ \A i \in 1 .. Len(s) : i # 1 => g[i] = g[i - 1] \o s[i]
           /\ FlattenSeq(s) = g[Len(s)]
  <1>1. PICK n : n = Len(s)
    OBVIOUS
  <1>2. n \in Nat /\ n >= 1 /\ 1 \in 1 .. n /\ \A i \in 1 .. n : s[i] \in Seq(Nat)
    BY <1>1
  <1> DEFINE Joins(g, m) == /\ g[1] = s[1]
                            /\ \A i \in 1 .. m : i # 1 => g[i] = g[i - 1] \o s[i]
             Can(m) == \E g \in [1 .. m -> Seq(Nat)] : Joins(g, m)
             H == {m \in 1 .. n : Can(m)}
  <1>3. 1 \in H
    <2>1. [i \in 1 .. 1 |-> s[1]] \in [1 .. 1 -> Seq(Nat)]
      BY <1>2
    <2>2. Joins([i \in 1 .. 1 |-> s[1]], 1)
      OBVIOUS
    <2> QED BY <1>2, <2>1, <2>2
  <1>4. ASSUME NEW m \in 1 .. n, m \in H, m < n PROVE m + 1 \in H
    <2>1. PICK g \in [1 .. m -> Seq(Nat)] : Joins(g, m)
      BY <1>4
    <2>2. PICK h : h = [i \in 1 .. (m + 1) |-> IF i = m + 1 THEN g[m] \o s[m + 1] ELSE g[i]]
      OBVIOUS
    <2>3. m + 1 \in 1 .. n /\ m \in 1 .. m /\ m \in Nat
      BY <1>2, <1>4
    <2>4. g[m] \o s[m + 1] \in Seq(Nat)
      BY <1>2, <2>3
    <2>5. h \in [1 .. (m + 1) -> Seq(Nat)]
      BY <2>2, <2>3, <2>4
    <2>6. h[1] = s[1]
      BY <2>1, <2>2, <2>3
    <2>7. ASSUME NEW i \in 1 .. (m + 1), i # 1 PROVE h[i] = h[i - 1] \o s[i]
      <3>1. CASE i = m + 1
        <4>1. h[i] = g[m] \o s[m + 1] /\ h[i - 1] = g[m]
          BY SMTT(30), <2>2, <2>3, <3>1
        <4> QED BY <3>1, <4>1
      <3>2. CASE i # m + 1
        <4>1. i \in 1 .. m /\ i - 1 \in 1 .. m
          BY <2>3, <2>7, <3>2
        <4>2. h[i] = g[i] /\ h[i - 1] = g[i - 1]
          BY <2>2, <2>3, <4>1, <3>2
        <4> QED BY <2>1, <2>7, <4>1, <4>2
      <3> QED BY <3>1, <3>2
    <2>8. Joins(h, m + 1)
      BY <2>6, <2>7
    <2> QED BY <2>3, <2>5, <2>8
  <1>5. n \in H
    <2> HIDE DEF H
    <2>1. \A i \in 1 .. n : i \in H
      BY <1>2, <1>3, <1>4, UpTo
    <2> QED BY <1>2, <2>1
  <1>6. PICK g \in [1 .. n -> Seq(Nat)] : Joins(g, n)
    BY <1>5
  <1>7. g = [i \in 1 .. n |-> IF i = 1 THEN s[i] ELSE g[i - 1] \o s[i]]
    BY <1>2, <1>6
  <1>8. PICK f : /\ f = [i \in 1 .. n |-> IF i = 1 THEN s[i] ELSE f[i - 1] \o s[i]]
                 /\ FlattenSeq(s) = f[n]
    BY <1>1, <1>2, <1>7 DEF FlattenSeq
  <1>9. f[1] = s[1] /\ \A i \in 1 .. n : i # 1 => f[i] = f[i - 1] \o s[i]
    BY <1>2, <1>8
  <1>10. \A i \in 1 .. n : f[i] \in Seq(Nat)
    <2>1. PICK G : G = {i \in 1 .. n : f[i] \in Seq(Nat)}
      OBVIOUS
    <2>2. 1 \in G
      BY <1>2, <1>9, <2>1
    <2>3. ASSUME NEW i \in 1 .. n, i \in G, i < n PROVE i + 1 \in G
      <3>1. i + 1 \in 1 .. n /\ i + 1 # 1 /\ (i + 1) - 1 = i
        BY <1>2, <2>3
      <3>2. f[i + 1] = f[i] \o s[i + 1]
        BY <1>9, <3>1
      <3>3. f[i] \in Seq(Nat) /\ s[i + 1] \in Seq(Nat)
        BY <1>2, <2>1, <2>3, <3>1
      <3>4. f[i] \o s[i + 1] \in Seq(Nat)
        BY <3>3
      <3>5. f[i + 1] \in Seq(Nat)
        BY <3>2, <3>4
      <3> QED BY <2>1, <3>1, <3>5
    <2>4. \A i \in 1 .. n : i \in G
      BY <1>2, <2>2, <2>3, UpTo
    <2> QED BY <2>1, <2>4
  <1>11. f \in [1 .. n -> Seq(Nat)]
    BY <1>8, <1>10
  <1> QED BY <1>1, <1>8, <1>9, <1>11

(***************************************************************************)
(* What the log and the spool keep.                                        *)
(***************************************************************************)

\* The lines of s are numbered without a gap, after the line from.
Numbered(s, from) == \A i \in 1 .. Len(s) : s[i] = from + i

LogInv ==
  /\ Numbered(log, nLog - Len(log))
  /\ Numbered(oldLog, nLog - Len(log) - Len(oldLog))

Empty(k) == spool[k] = <<>>

\* b[k + 1] is the last line before file k of the spool, b[k] the last one up to it.
\* Lines have been dropped only when the oldest backup is there.
Marks(b) ==
  /\ b[0] = nSpool /\ b[MaxBackups + 2] >= 0
  /\ \A k \in 0 .. MaxBackups + 1 : b[k + 1] = b[k] - Len(spool[k]) /\ Numbered(spool[k], b[k + 1])
  /\ "spool" \notin cut /\ b[MaxBackups + 2] > 0 => ~Empty(MaxBackups + 1)

\* A rename meets a file that is there only at the oldest backup.  Unless a rotation was
\* cut short, backups are full and none is missing between two, but for the one that the
\* rotation in progress has just moved.
ChainInv ==
  /\ opc = "shift" /\ slot < MaxBackups => Empty(slot + 1)
  /\ "spool" \notin cut =>
       /\ opc = "shift" => spoolBytes[0] >= SpoolMax
       /\ \A k \in 1 .. MaxBackups + 1 : ~Empty(k) => spoolBytes[k] >= SpoolMax
       /\ \A k \in 1 .. MaxBackups : ~Empty(k + 1) =>
            IF opc = "shift" /\ slot < MaxBackups /\ k = slot + 1 THEN ~Empty(slot) ELSE ~Empty(k)

KeptInv == LogInv /\ ChainInv /\ \E b \in [0 .. MaxBackups + 2 -> Int] : Marks(b)

LEMMA KeptInit == Init => KeptInv
  <1> SUFFICES ASSUME Init PROVE KeptInv
    OBVIOUS
  <1> USE OutputsAssumption DEF Init
  <1>1. \A k \in 0 .. MaxBackups + 1 : spool[k] = <<>>
    BY DEF Backups
  <1>2. LogInv
    BY DEF LogInv, Numbered
  <1>3. ChainInv
    <2>0. opc = "none"
      OBVIOUS
    <2>1. opc # "shift" /\ \A k \in 1 .. MaxBackups + 1 : Empty(k)
      <3> HIDE DEF Init
      <3>1. \A k \in 1 .. MaxBackups + 1 : k \in 0 .. MaxBackups + 1
        OBVIOUS
      <3> QED BY <1>1, <2>0, <3>1 DEF Empty
    <2>2. \A k \in 1 .. MaxBackups : Empty(k + 1)
      BY <2>1
    <2> HIDE DEF Init
    <2> QED BY <2>1, <2>2 DEF ChainInv
  <1>4. PICK b : b = [k \in 0 .. MaxBackups + 2 |-> 0]
    OBVIOUS
  <1>5. b \in [0 .. MaxBackups + 2 -> Int]
    BY <1>4
  <1>6. Marks(b)
    <2>1. \A k \in 0 .. MaxBackups + 2 : b[k] = 0
      BY <1>4
    <2>2. MaxBackups + 2 \in 0 .. MaxBackups + 2 /\ 0 \in 0 .. MaxBackups + 2
      OBVIOUS
    <2>3. \A k \in 0 .. MaxBackups + 1 : k \in 0 .. MaxBackups + 2 /\ k + 1 \in 0 .. MaxBackups + 2
      OBVIOUS
    <2>4. Len(<<>>) = 0 /\ nSpool = 0
      OBVIOUS
    <2>5. b[0] = nSpool /\ b[MaxBackups + 2] = 0
      BY <2>1, <2>2, <2>4
    <2>6. \A k \in 0 .. MaxBackups + 1 : b[k + 1] = b[k] - Len(spool[k])
      <3> TAKE k \in 0 .. MaxBackups + 1
      <3>1. b[k] = 0 /\ b[k + 1] = 0 /\ Len(spool[k]) = 0
        BY <1>1, <2>1, <2>3, <2>4
      <3>2. 0 = 0 - 0
        OBVIOUS
      <3> QED BY <3>1, <3>2, Zenon
    <2>7. \A k \in 0 .. MaxBackups + 1 : Numbered(spool[k], b[k + 1])
      <3> TAKE k \in 0 .. MaxBackups + 1
      <3>1. spool[k] = <<>>
        BY <1>1, Zenon
      <3>2. 1 .. Len(<<>>) = {}
        OBVIOUS
      <3> QED BY <3>1, <3>2, Zenon DEF Numbered
    <2>8. b[MaxBackups + 2] >= 0 /\ ~(b[MaxBackups + 2] > 0)
      BY <2>5
    <2> QED BY <2>5, <2>6, <2>7, <2>8 DEF Marks
  <1> QED BY <1>2, <1>3, <1>5, <1>6 DEF KeptInv

LEMMA LogStep == TypeOK /\ LogInv /\ [Next]_vars => LogInv'
  <1> SUFFICES ASSUME TypeOK, LogInv, [Next]_vars PROVE LogInv'
    OBVIOUS
  <1>0. log \in Seq(Nat) /\ oldLog \in Seq(Nat) /\ nLog \in Nat
    BY DEF TypeOK
  <1>1. CASE FilePublish
    <2>1. nLog' = nLog + 1 /\ log' = Append(log, nLog + 1) /\ oldLog' = oldLog
      BY <1>1 DEF FilePublish
    <2>2. Len(log') = Len(log) + 1 /\ Len(log) \in Nat /\ Len(oldLog) \in Nat
      BY <1>0, <2>1
    <2>3. \A i \in 1 .. Len(log') : log'[i] = IF i = Len(log) + 1 THEN nLog + 1 ELSE log[i]
      BY <1>0, <2>1
    <2>4. Numbered(log', nLog' - Len(log'))
      BY <1>0, <2>1, <2>2, <2>3 DEF LogInv, Numbered
    <2>5. nLog' - Len(log') - Len(oldLog') = nLog - Len(log) - Len(oldLog)
      BY <1>0, <2>1, <2>2
    <2> QED BY <2>1, <2>4, <2>5 DEF LogInv
  <1>2. CASE FileRename
    <2>1. nLog' = nLog /\ log' = <<>> /\ oldLog' = log
      BY <1>2 DEF FileRename
    <2>2. Len(log') = 0 /\ Len(log) \in Nat
      BY <1>0, <2>1
    <2> QED BY <1>0, <2>1, <2>2 DEF LogInv, Numbered
  <1>3. CASE UNCHANGED <<log, oldLog, nLog>>
    BY <1>3 DEF LogInv
  <1>4. ASSUME ~FilePublish, ~FileRename PROVE UNCHANGED <<log, oldLog, nLog>>
    BY <1>4 DEF Next, EngineNext, FileNext, HttpNext, Take, Heartbeat, PublishAll, Produce, EventDone,
       EngineStop, FilePublishFail, FileRenameFail, FileReopen, FileReopenFail, HttpPublish, FormatFail,
       SendOk, SendFail, Backoff, BackoffCancelled, FallbackOpen, FallbackFail, FallbackWrite,
       FallbackWriteFail, Shift, ShiftBase, ShiftFail, Cancel, Boot, Terminated, vars, fileVars
  <1> QED BY <1>1, <1>2, <1>3, <1>4

\* What a rename in the spool does.
LEMMA RenamedFacts ==
  ASSUME TypeOK, NEW i \in 0 .. MaxBackups, Renamed(i)
  PROVE  /\ Empty(i) => spool' = spool /\ spoolBytes' = spoolBytes
         /\ ~Empty(i) => /\ spool'[i + 1] = spool[i] /\ spool'[i] = <<>>
                         /\ spoolBytes'[i + 1] = spoolBytes[i]
                         /\ \A k \in 0 .. MaxBackups + 1 : k # i /\ k # i + 1 =>
                              spool'[k] = spool[k] /\ spoolBytes'[k] = spoolBytes[k]
  <1>1. i \in {0} \cup Backups /\ i + 1 \in {0} \cup Backups /\ i # i + 1
    BY OutputsAssumption DEF Backups
  <1>2. \A k \in 0 .. MaxBackups + 1 : k \in {0} \cup Backups
    BY OutputsAssumption DEF Backups
  <1>3. spool \in [{0} \cup Backups -> Seq(Nat)] /\ spoolBytes \in [{0} \cup Backups -> Nat]
    BY DEF TypeOK
  <1>4. CASE Empty(i)
    BY <1>4 DEF Renamed, Shifted, Empty
  <1>5. CASE ~Empty(i)
    <2>1. /\ spool' = [spool EXCEPT ![i + 1] = spool[i], ![i] = <<>>]
          /\ spoolBytes' = [spoolBytes EXCEPT ![i + 1] = spoolBytes[i], ![i] = 0]
      BY <1>5 DEF Renamed, Shifted, Empty
    <2>2. /\ spool'[i + 1] = spool[i] /\ spool'[i] = <<>>
          /\ \A k \in 0 .. MaxBackups + 1 : k # i /\ k # i + 1 => spool'[k] = spool[k]
      BY <1>1, <1>2, <1>3, <2>1
    <2>3. /\ spoolBytes'[i + 1] = spoolBytes[i]
          /\ \A k \in 0 .. MaxBackups + 1 : k # i /\ k # i + 1 => spoolBytes'[k] = spoolBytes[k]
      BY <1>1, <1>2, <1>3, <2>1
    <2> QED BY <1>5, <2>2, <2>3
  <1> QED BY <1>4, <1>5

LEMMA SameChain ==
  ASSUME ChainInv, UNCHANGED <<spool, spoolBytes>>, cut \subseteq cut',
         \/ UNCHANGED <<opc, slot>>
         \/ opc' # "shift" /\ (opc # "shift" \/ "spool" \in cut')
  PROVE  ChainInv'
  BY DEF ChainInv, Empty

\* The steps that change the spool.
LEMMA OtherSteps ==
  ASSUME [Next]_vars, ~FallbackWrite, ~Shift, ~ShiftBase
  PROVE  /\ UNCHANGED <<spool, spoolBytes, nSpool>> /\ cut \subseteq cut'
         /\ \/ UNCHANGED <<opc, slot>>
            \/ opc' # "shift" /\ (opc # "shift" \/ "spool" \in cut')
  <1> USE DEF envVars, engVars, fileVars, spoolVars, httpVars, pubVars
  <1>1. CASE Produce \/ Take \/ Heartbeat \/ EventDone \/ EngineStop \/ Cancel \/ UNCHANGED vars
    BY <1>1 DEF Produce, Take, Heartbeat, PublishAll, EventDone, EngineStop, Cancel, vars
  <1>2. CASE FileNext
    BY <1>2 DEF FileNext, FilePublish, FilePublishFail, FileRename, FileRenameFail, FileReopen,
       FileReopenFail, At, Goto, Return
  <1>3. CASE HttpNext
    BY <1>3 DEF HttpNext, HttpPublish, FormatFail, SendOk, SendFail, Backoff, BackoffCancelled, GiveUp,
       FallbackOpen, FallbackFail, FallbackWriteFail, ShiftFail, At, Goto, Return
  <1>4. CASE Boot
    BY <1>4 DEF Boot
  <1> QED BY <1>1, <1>2, <1>3, <1>4 DEF Next, EngineNext, Terminated

LEMMA ChainStep == TypeOK /\ SpoolInv /\ ChainInv /\ [Next]_vars => ChainInv'
  <1> SUFFICES ASSUME TypeOK, SpoolInv, ChainInv, [Next]_vars PROVE ChainInv'
    OBVIOUS
  <1> USE OutputsAssumption
  <1>0. /\ spool \in [{0} \cup Backups -> Seq(Nat)] /\ spoolBytes \in [{0} \cup Backups -> Nat]
        /\ slot \in 0 .. MaxBackups /\ SpoolMax \in Nat
        /\ \A k \in 1 .. MaxBackups + 1 : k \in {0} \cup Backups /\ k # 0
    BY DEF TypeOK, Backups
  <1>1. CASE FallbackWrite
    <2>0. PICK n \in 1 .. MaxLine :
            spoolBytes' = [spoolBytes EXCEPT ![0] = @ + n] /\ fbSize' = fbSize + n
      BY <1>1 DEF FallbackWrite
    <2>1. \A k \in 1 .. MaxBackups + 1 : spool'[k] = spool[k] /\ spoolBytes'[k] = spoolBytes[k]
      <3>1. spool' = [spool EXCEPT ![0] = Append(spool[0], nSpool')]
        BY <1>1 DEF FallbackWrite
      <3> QED BY <1>0, <2>0, <3>1
    <2>3. opc = "write" /\ cut' = cut /\ fbSize' = spoolBytes'[0]
      BY <1>0, <1>1, <2>0 DEF FallbackWrite, At, SpoolInv
    <2>4. opc' = "shift" => fbSize' >= SpoolMax /\ slot' = MaxBackups
      BY <1>1 DEF FallbackWrite, Goto, Return, Oldest
    <2>5. "spool" \notin cut' /\ opc' = "shift" => spoolBytes'[0] >= SpoolMax
      BY <2>3, <2>4
    <2>6. \A k \in 1 .. MaxBackups : k \in 1 .. MaxBackups + 1 /\ k + 1 \in 1 .. MaxBackups + 1
      OBVIOUS
    <2>7. \A k \in 1 .. MaxBackups + 1 : Empty(k)' = Empty(k)
      BY <2>1 DEF Empty
    <2>8. "spool" \notin cut => /\ \A k \in 1 .. MaxBackups + 1 : ~Empty(k) => spoolBytes[k] >= SpoolMax
                                /\ \A k \in 1 .. MaxBackups : ~Empty(k + 1) => ~Empty(k)
      BY <2>3 DEF ChainInv
    <2>9. ~(opc' = "shift" /\ slot' < MaxBackups)
      BY <2>4
    <2> QED BY <2>1, <2>3, <2>5, <2>6, <2>7, <2>8, <2>9 DEF ChainInv
  <1>2. CASE Shift
    <2>0. PICK s : s = slot
      OBVIOUS
    <2>1. /\ opc = "shift" /\ UNCHANGED <<opc, cut>> /\ s \in 1 .. MaxBackups /\ slot = s /\ slot' = s - 1
          /\ Renamed(s)
      BY <1>0, <1>2, <2>0 DEF Shift, At
    <2>2. s \in 0 .. MaxBackups
      BY <2>1
    <2>3. /\ Empty(s) => spool' = spool /\ spoolBytes' = spoolBytes
          /\ ~Empty(s) => /\ spool'[s + 1] = spool[s] /\ spool'[s] = <<>>
                          /\ spoolBytes'[s + 1] = spoolBytes[s]
                          /\ \A k \in 0 .. MaxBackups + 1 : k # s /\ k # s + 1 =>
                               spool'[k] = spool[k] /\ spoolBytes'[k] = spoolBytes[k]
      BY <2>1, <2>2, RenamedFacts
    <2>4. Empty(s)'
      BY <2>3 DEF Empty
    <2>5. spoolBytes'[0] = spoolBytes[0]
      BY <2>1, <2>3
    <2>6. ASSUME "spool" \notin cut, NEW k \in 1 .. MaxBackups + 1, ~Empty(k)' PROVE spoolBytes'[k] >= SpoolMax
      <3>1. s \in 1 .. MaxBackups + 1 /\ k \in 0 .. MaxBackups + 1
        BY <2>1
      <3> QED BY <2>3, <2>6, <3>1 DEF ChainInv, Empty
    <2>7. ASSUME "spool" \notin cut, NEW k \in 1 .. MaxBackups, ~Empty(k + 1)'
          PROVE  IF k = s THEN ~Empty(s - 1)' ELSE ~Empty(k)'
      <3>b. ~Empty(0)
        BY <2>1 DEF SpoolInv, Empty
      <3>c. \A j \in 1 .. MaxBackups : ~Empty(j + 1) =>
              IF s < MaxBackups /\ j = s + 1 THEN ~Empty(s) ELSE ~Empty(j)
        BY <2>1, <2>7 DEF ChainInv
      <3>d. s < MaxBackups => Empty(s + 1)
        BY <2>1 DEF ChainInv
      <3>1. CASE Empty(s)
        <4>1. ~Empty(k + 1)
          BY <2>3, <2>7, <3>1 DEF Empty
        <4>2. k # s
          <5> SUFFICES ASSUME k = s PROVE FALSE
            OBVIOUS
          <5>1. ~(s < MaxBackups)
            BY <3>d, <4>1
          <5>2. ~Empty(s)
            BY <2>1, <3>c, <4>1, <5>1
          <5> QED BY <3>1, <5>2
        <4>3. ~Empty(k)
          BY <3>1, <3>c, <4>1
        <4> QED BY <2>3, <3>1, <4>2, <4>3 DEF Empty
      <3>2. CASE ~Empty(s)
        <4>1. CASE k = s
          <5>1. ~Empty(s - 1)
            <6>1. CASE s = 1
              BY <3>b, <6>1
            <6>2. CASE s # 1
              <7>1. s - 1 \in 1 .. MaxBackups /\ s - 1 # s + 1 /\ (s - 1) + 1 = s
                BY <2>1, <6>2
              <7> QED BY <3>2, <3>c, <7>1
            <6> QED BY <6>1, <6>2
          <5>2. s - 1 \in 0 .. MaxBackups + 1 /\ s - 1 # s /\ s - 1 # s + 1
            BY <2>1
          <5>3. spool'[s - 1] = spool[s - 1]
            BY <2>3, <3>2, <5>2
          <5> QED BY <4>1, <5>1, <5>3 DEF Empty
        <4>2. CASE k = s + 1
          <5>1. ~Empty(s + 1)'
            BY <2>3, <3>2 DEF Empty
          <5>2. k # s
            BY <2>1, <4>2
          <5> QED BY <4>2, <5>1, <5>2
        <4>3. CASE k # s /\ k # s + 1
          <5>0. k \in 0 .. MaxBackups + 1 /\ k + 1 \in 0 .. MaxBackups + 1
            OBVIOUS
          <5>1. k + 1 # s => ~Empty(k + 1)
            <6>1. k + 1 # s + 1
              BY <2>1, <4>3
            <6> QED BY <2>3, <2>7, <3>2, <5>0, <6>1 DEF Empty
          <5>2. ~Empty(k)
            <6>1. k + 1 = s => FALSE
              BY <2>4, <2>7
            <6> QED BY <3>c, <4>3, <5>1, <6>1
          <5>3. spool'[k] = spool[k]
            BY <2>3, <3>2, <4>3, <5>0
          <5> QED BY <4>3, <5>2, <5>3 DEF Empty
        <4> QED BY <4>1, <4>2, <4>3
      <3> QED BY <3>1, <3>2
    <2>8. slot' + 1 = s /\ slot' < MaxBackups
      BY <2>1
    <2>9. opc' = "shift" /\ ("spool" \notin cut' => "spool" \notin cut /\ spoolBytes'[0] >= SpoolMax)
      BY <2>1, <2>5 DEF ChainInv
    <2>10. ASSUME "spool" \notin cut', NEW k \in 1 .. MaxBackups, ~Empty(k + 1)'
           PROVE  IF opc' = "shift" /\ slot' < MaxBackups /\ k = slot' + 1 THEN ~Empty(slot)' ELSE ~Empty(k)'
      <3>1. Empty(slot)' = Empty(s - 1)'
        BY <2>1 DEF Empty
      <3> QED BY <2>7, <2>8, <2>9, <2>10, <3>1
    <2>11. Empty(slot + 1)'
      BY <2>4, <2>8 DEF Empty
    <2> QED BY <2>6, <2>9, <2>10, <2>11 DEF ChainInv
  <1>3. CASE ShiftBase
    <2>1. opc = "shift" /\ slot = 0 /\ Renamed(0) /\ opc' = "none" /\ cut' = cut
      BY <1>3 DEF ShiftBase, At, Return
    <2>2. SUFFICES ASSUME "spool" \notin cut
                   PROVE  /\ \A k \in 1 .. MaxBackups + 1 : ~Empty(k)' => spoolBytes'[k] >= SpoolMax
                          /\ \A k \in 1 .. MaxBackups : ~Empty(k + 1)' => ~Empty(k)'
      BY <2>1 DEF ChainInv
    <2>3. spoolBytes[0] >= SpoolMax /\ ~Empty(0)
      BY <2>1, <2>2 DEF ChainInv, SpoolInv, Empty
    <2>4. 0 \in 0 .. MaxBackups /\ 0 + 1 = 1
      OBVIOUS
    <2>5. /\ spool'[1] = spool[0] /\ spoolBytes'[1] = spoolBytes[0]
          /\ \A k \in 1 .. MaxBackups + 1 :
               k # 1 => spool'[k] = spool[k] /\ spoolBytes'[k] = spoolBytes[k]
      <3>1. \A k \in 0 .. MaxBackups + 1 :
              k # 0 /\ k # 1 => spool'[k] = spool[k] /\ spoolBytes'[k] = spoolBytes[k]
        BY <2>1, <2>3, <2>4, RenamedFacts
      <3>2. spool'[1] = spool[0] /\ spoolBytes'[1] = spoolBytes[0]
        BY <2>1, <2>3, <2>4, RenamedFacts
      <3> QED BY <3>1, <3>2
    <2>6. ASSUME NEW k \in 1 .. MaxBackups, ~Empty(k + 1)' PROVE ~Empty(k)'
      <3>1. k + 1 \in 1 .. MaxBackups + 1 /\ k + 1 # 1 /\ k \in 1 .. MaxBackups + 1
        OBVIOUS
      <3>2. ~Empty(k + 1)
        BY <2>5, <2>6, <3>1 DEF Empty
      <3>3. k # 1 => ~Empty(k)
        BY <2>1, <2>2, <3>2 DEF ChainInv
      <3> QED BY <2>3, <2>5, <3>1, <3>3 DEF Empty
    <2>7. \A k \in 1 .. MaxBackups + 1 : ~Empty(k)' => spoolBytes'[k] >= SpoolMax
      BY <2>2, <2>3, <2>5 DEF ChainInv, Empty
    <2> QED BY <2>6, <2>7
  <1>4. CASE ~FallbackWrite /\ ~Shift /\ ~ShiftBase
    BY <1>4, OtherSteps, SameChain
  <1> QED BY <1>1, <1>2, <1>3, <1>4

\* Where the oldest backup is there: all the files are full but the fallback file or, in
\* a rotation, the one just moved.
LEMMA FullSpool ==
  ASSUME TypeOK, ChainInv, "spool" \notin cut, ~Empty(MaxBackups + 1)
  PROVE  \E e \in {0} \cup Backups : \A k \in ({0} \cup Backups) \ {e} : spoolBytes[k] >= SpoolMax
  <1> USE OutputsAssumption
  <1>1. PICK n : n = MaxBackups + 1
    OBVIOUS
  <1>2. n \in Nat /\ n >= 1 /\ 1 \in 1 .. n /\ n \in 1 .. n
    BY <1>1
  <1> DEFINE Moved(k) == opc = "shift" /\ slot < MaxBackups /\ k = slot + 1
  <1>3. \A k \in 1 .. n : ~Empty(k) \/ Moved(k)
    <2>0. \A k \in 1 .. MaxBackups : ~Empty(k + 1) => IF Moved(k) THEN ~Empty(slot) ELSE ~Empty(k)
      BY DEF ChainInv
    <2> DEFINE Holds(k) == ~Empty(k) \/ (Moved(k) /\ ~Empty(slot))
    <2>1. PICK H : H = {j \in 1 .. n : Holds(n + 1 - j)}
      OBVIOUS
    <2>2. 1 \in H
      <3>1. n + 1 - 1 = MaxBackups + 1
        BY <1>1
      <3> QED BY <1>2, <2>1, <3>1
    <2>3. ASSUME NEW j \in 1 .. n, j \in H, j < n PROVE j + 1 \in H
      <3>1. PICK k : k = n - j
        OBVIOUS
      <3>2. k \in 1 .. MaxBackups /\ k + 1 = n + 1 - j /\ k = n + 1 - (j + 1) /\ j + 1 \in 1 .. n
        BY <1>1, <1>2, <2>3, <3>1
      <3>3. Holds(k + 1)
        BY <2>1, <2>3, <3>2
      <3>4. Holds(k)
        <4>1. CASE ~Empty(k + 1)
          BY <2>0, <3>2, <4>1
        <4>2. CASE Moved(k + 1) /\ ~Empty(slot)
          <5>1. k = slot
            BY <3>2, <4>2 DEF TypeOK
          <5> QED BY <4>2, <5>1
        <4> QED BY <3>3, <4>1, <4>2
      <3> QED BY <2>1, <3>2, <3>4
    <2>4. \A j \in 1 .. n : j \in H
      BY <1>2, <2>2, <2>3, UpTo
    <2> SUFFICES ASSUME NEW k \in 1 .. n PROVE ~Empty(k) \/ Moved(k)
      OBVIOUS
    <2>5. n + 1 - k \in 1 .. n /\ n + 1 - (n + 1 - k) = k
      BY <1>2
    <2>6. n + 1 - k \in H
      BY <2>4, <2>5
    <2> QED BY <2>1, <2>5, <2>6
  <1>4. \A k \in 1 .. n : ~Empty(k) => spoolBytes[k] >= SpoolMax
    BY <1>1 DEF ChainInv
  <1>5. \A k \in {0} \cup Backups : k = 0 \/ k \in 1 .. n
    BY <1>1 DEF Backups
  <1>6. CASE opc = "shift"
    <2>1. spoolBytes[0] >= SpoolMax
      BY <1>6 DEF ChainInv
    <2>2. slot + 1 \in {0} \cup Backups
      BY DEF TypeOK, Backups
    <2>3. \A k \in ({0} \cup Backups) \ {slot + 1} : spoolBytes[k] >= SpoolMax
      BY <1>3, <1>4, <1>5, <2>1
    <2> QED BY <2>2, <2>3
  <1>7. CASE opc # "shift"
    <2>1. \A k \in ({0} \cup Backups) \ {0} : spoolBytes[k] >= SpoolMax
      BY <1>3, <1>4, <1>5, <1>7
    <2> QED BY <2>1
  <1> QED BY <1>6, <1>7

\* A rename of file i moves the mark between it and the backup it becomes.
LEMMA ShiftMarks ==
  ASSUME TypeOK, ChainInv, NEW b \in [0 .. MaxBackups + 2 -> Int], Marks(b),
         opc = "shift", Renamed(slot), UNCHANGED <<nSpool, cut>>
  PROVE  \E c \in [0 .. MaxBackups + 2 -> Int] : Marks(c)'
  <1> USE OutputsAssumption
  <1>1. PICK i : i = slot
    OBVIOUS
  <1>2. i \in 0 .. MaxBackups /\ Renamed(i)
    BY <1>1 DEF TypeOK
  <1>3. CASE Empty(i)
    <2>1. spool' = spool
      BY <1>2, <1>3, RenamedFacts
    <2>2. Marks(b)'
      BY <2>1 DEF Marks, Empty
    <2> QED BY <2>2
  <1>4. CASE ~Empty(i)
    <2>1. /\ spool'[i + 1] = spool[i] /\ spool'[i] = <<>>
          /\ \A k \in 0 .. MaxBackups + 1 : k # i /\ k # i + 1 => spool'[k] = spool[k]
      BY ZenonT(30), <1>2, <1>4, RenamedFacts
    <2>2. PICK c : c = [k \in 0 .. MaxBackups + 2 |->
                          IF k = i + 1 THEN b[i] ELSE IF k = i + 2 THEN b[i + 1] ELSE b[k]]
      OBVIOUS
    <2>3. /\ i \in 0 .. MaxBackups + 1 /\ i + 1 \in 0 .. MaxBackups + 1 /\ i + 2 \in 0 .. MaxBackups + 2
          /\ \A k \in 0 .. MaxBackups + 1 : k \in 0 .. MaxBackups + 2 /\ k + 1 \in 0 .. MaxBackups + 2
          /\ 0 \in 0 .. MaxBackups + 2 /\ MaxBackups + 2 \in 0 .. MaxBackups + 2
          /\ MaxBackups + 1 \in 0 .. MaxBackups + 1
      BY <1>2
    <2>4. c \in [0 .. MaxBackups + 2 -> Int]
      BY <2>2, <2>3
    <2>5. \A k \in 0 .. MaxBackups + 2 : c[k] = IF k = i + 1 THEN b[i] ELSE IF k = i + 2 THEN b[i + 1] ELSE b[k]
      BY <2>2
    <2>6. \A k \in 0 .. MaxBackups + 1 :
            Len(spool[k]) \in Nat /\ b[k + 1] = b[k] - Len(spool[k]) /\ Numbered(spool[k], b[k + 1])
      <3>1. \A k \in 0 .. MaxBackups + 1 : k \in {0} \cup Backups
        BY DEF Backups
      <3>2. \A k \in 0 .. MaxBackups + 1 : spool[k] \in Seq(Nat)
        BY <3>1 DEF TypeOK
      <3> QED BY <3>2 DEF Marks
    <2>7. i < MaxBackups => b[i + 2] = b[i + 1]
      <3> SUFFICES ASSUME i < MaxBackups PROVE b[i + 2] = b[i + 1]
        OBVIOUS
      <3>1. spool[i + 1] = <<>>
        BY <1>1 DEF ChainInv, Empty
      <3>2. b[(i + 1) + 1] = b[i + 1] - Len(spool[i + 1]) /\ b[i + 1] \in Int
        BY <2>3, <2>6
      <3>3. (i + 1) + 1 = i + 2 /\ Len(<<>>) = 0
        BY <1>2
      <3> QED BY <3>1, <3>2, <3>3
    <2>8. ASSUME NEW k \in 0 .. MaxBackups + 1
          PROVE  c[k + 1] = c[k] - Len(spool'[k]) /\ Numbered(spool'[k], c[k + 1])
      <3>0. k \in Nat /\ i \in Nat /\ k \in 0 .. MaxBackups + 2 /\ k + 1 \in 0 .. MaxBackups + 2
            /\ b[k] \in Int /\ b[k + 1] \in Int /\ b[i] \in Int
        BY <1>2, <2>3
      <3>1. CASE k = i
        <4>1. c[k + 1] = b[i] /\ c[k] = b[i] /\ Len(spool'[k]) = 0
          BY <2>1, <2>5, <3>0, <3>1
        <4> QED BY <3>0, <4>1 DEF Numbered
      <3>2. CASE k = i + 1
        <4>1. c[k + 1] = b[i + 1] /\ c[k] = b[i] /\ spool'[k] = spool[i]
          <5>1. k + 1 = i + 2 /\ k + 1 # i + 1
            BY <3>0, <3>2
          <5> QED BY <2>1, <2>5, <3>0, <3>2, <5>1
        <4> QED BY <2>3, <2>6, <4>1
      <3>3. CASE k = i + 2
        <4>1. c[k + 1] = b[k + 1] /\ c[k] = b[i + 1] /\ spool'[k] = spool[k] /\ i < MaxBackups
          <5>1. k # i /\ k # i + 1 /\ k + 1 # i + 1 /\ k + 1 # i + 2 /\ i < MaxBackups
            BY <3>0, <3>3
          <5> QED BY <2>1, <2>5, <3>0, <3>3, <5>1
        <4> QED BY <2>6, <2>7, <3>3, <4>1
      <3>4. CASE k # i /\ k # i + 1 /\ k # i + 2
        <4>1. k + 1 # i + 1 /\ k + 1 # i + 2
          BY <3>0, <3>4
        <4>2. c[k + 1] = b[k + 1] /\ c[k] = b[k] /\ spool'[k] = spool[k]
          BY <2>1, <2>5, <3>0, <3>4, <4>1
        <4> QED BY <2>6, <4>2
      <3> QED BY <3>1, <3>2, <3>3, <3>4
    <2>9. c[0] = nSpool' /\ c[0] = b[0]
      <3>1. 0 # i + 1 /\ 0 # i + 2
        BY <1>2
      <3> QED BY <2>3, <2>5, <3>1 DEF Marks
    <2>10. /\ c[MaxBackups + 2] >= 0
           /\ "spool" \notin cut /\ c[MaxBackups + 2] > 0 => ~Empty(MaxBackups + 1)'
      <3>1. CASE i < MaxBackups
        <4>1. MaxBackups + 2 # i + 1 /\ MaxBackups + 2 # i + 2
              /\ MaxBackups + 1 # i + 1 /\ MaxBackups + 1 # i
          BY <1>2, <3>1
        <4>2. c[MaxBackups + 2] = b[MaxBackups + 2]
          BY <2>3, <2>5, <4>1
        <4>3. spool'[MaxBackups + 1] = spool[MaxBackups + 1]
          BY <2>1, <2>3, <4>1
        <4> QED BY <4>2, <4>3 DEF Marks, Empty
      <3>2. CASE i = MaxBackups
        <4>1. c[MaxBackups + 2] = b[MaxBackups + 1]
          <5>1. MaxBackups + 2 # i + 1 /\ MaxBackups + 2 = i + 2
            BY <3>2
          <5> QED BY <2>3, <2>5, <3>2, <5>1
        <4>2. /\ b[MaxBackups + 2] = b[MaxBackups + 1] - Len(spool[MaxBackups + 1])
              /\ Len(spool[MaxBackups + 1]) \in Nat
              /\ b[MaxBackups + 1] \in Int /\ b[MaxBackups + 2] \in Int /\ b[MaxBackups + 2] >= 0
          <5>1. (MaxBackups + 1) + 1 = MaxBackups + 2
            OBVIOUS
          <5>2. b[(MaxBackups + 1) + 1] = b[MaxBackups + 1] - Len(spool[MaxBackups + 1])
                /\ Len(spool[MaxBackups + 1]) \in Nat
            BY <2>3, <2>6
          <5>3. b[MaxBackups + 1] \in Int /\ b[MaxBackups + 2] \in Int /\ b[MaxBackups + 2] >= 0
            BY <2>3 DEF Marks
          <5> QED BY <5>1, <5>2, <5>3
        <4>3. c[MaxBackups + 2] >= 0
          BY <4>1, <4>2
        <4>4. spool'[MaxBackups + 1] # <<>>
          BY <1>4, <2>1, <3>2 DEF Empty
        <4> QED BY <4>3, <4>4 DEF Empty
      <3> QED BY <1>2, <3>1, <3>2
    <2>11. Marks(c)'
      BY <2>8, <2>9, <2>10 DEF Marks
    <2> QED BY <2>4, <2>11
  <1> QED BY <1>3, <1>4

LEMMA MarksStep ==
  ASSUME TypeOK, SpoolInv, ChainInv, [Next]_vars, NEW b \in [0 .. MaxBackups + 2 -> Int], Marks(b)
  PROVE  \E c \in [0 .. MaxBackups + 2 -> Int] : Marks(c)'
  <1> USE OutputsAssumption
  <1>1. CASE FallbackWrite
    <2>1. PICK c : c = [b EXCEPT ![0] = b[0] + 1]
      OBVIOUS
    <2>2. b[0] \in Int /\ 0 \in 0 .. MaxBackups + 2 /\ MaxBackups + 2 \in 0 .. MaxBackups + 2 /\ MaxBackups + 2 # 0
      OBVIOUS
    <2>3. c \in [0 .. MaxBackups + 2 -> Int]
      BY <2>1, <2>2
    <2>4. c[0] = b[0] + 1 /\ \A k \in 0 .. MaxBackups + 1 : c[k + 1] = b[k + 1] /\ (k # 0 => c[k] = b[k])
      <3>1. \A k \in 0 .. MaxBackups + 1 : k + 1 \in 0 .. MaxBackups + 2 /\ k + 1 # 0 /\ k \in 0 .. MaxBackups + 2
        OBVIOUS
      <3> QED BY <2>1, <2>2, <3>1
    <2>5. nSpool' = nSpool + 1 /\ spool' = [spool EXCEPT ![0] = Append(spool[0], nSpool + 1)] /\ cut' = cut
      BY <1>1 DEF FallbackWrite
    <2>6. /\ spool[0] \in Seq(Nat) /\ spool'[0] = Append(spool[0], nSpool + 1) /\ nSpool \in Nat
          /\ \A k \in 0 .. MaxBackups + 1 : k # 0 => spool'[k] = spool[k]
      <3>1. \A k \in 0 .. MaxBackups + 1 : k \in {0} \cup Backups
        BY DEF Backups
      <3>2. spool \in [{0} \cup Backups -> Seq(Nat)] /\ nSpool \in Nat
        BY DEF TypeOK
      <3> QED BY <2>5, <3>1, <3>2
    <2>7. c[0 + 1] = c[0] - Len(spool'[0]) /\ Numbered(spool'[0], c[0 + 1])
      <3>1. 0 \in 0 .. MaxBackups + 1
        OBVIOUS
      <3>2. /\ b[0] = nSpool /\ b[0 + 1] = b[0] - Len(spool[0]) /\ Numbered(spool[0], b[0 + 1])
            /\ c[0 + 1] = b[0 + 1]
        BY <2>4, <3>1 DEF Marks
      <3>3. Len(spool'[0]) = Len(spool[0]) + 1 /\ Len(spool[0]) \in Nat
        BY <2>6
      <3>4. PICK d \in Int : d = b[0 + 1]
        <4>1. b[0] \in Int /\ Len(spool[0]) \in Nat
          BY <2>2, <3>3
        <4>2. b[0] - Len(spool[0]) \in Int
          BY <4>1
        <4> QED BY <3>2, <4>2, Zenon
      <3>5. d = nSpool - Len(spool[0])
        BY <3>2, <3>4
      <3>6. \A i \in 1 .. Len(spool[0]) + 1 :
              spool'[0][i] = IF i = Len(spool[0]) + 1 THEN nSpool + 1 ELSE spool[0][i]
        BY SMTT(30), <2>6
      <3>7. \A i \in 1 .. Len(spool[0]) : spool[0][i] = d + i
        BY <3>2, <3>4 DEF Numbered
      <3>8. \A i \in 1 .. Len(spool[0]) + 1 : spool'[0][i] = d + i
        <4>1. PICK m \in Nat : m = Len(spool[0])
          BY <3>3
        <4>2. nSpool + 1 = d + (m + 1)
          <5>1. d = nSpool - m /\ nSpool \in Nat
            BY <2>6, <3>5, <4>1
          <5> QED BY <5>1
        <4>3. ASSUME NEW i \in 1 .. m + 1 PROVE spool'[0][i] = d + i
          <5>1. CASE i = m + 1
            BY <3>6, <4>1, <4>2, <5>1
          <5>2. CASE i # m + 1
            <6>1. i \in 1 .. m
              BY <5>2
            <6> QED BY <3>6, <3>7, <4>1, <5>2, <6>1
          <5> QED BY <5>1, <5>2
        <4> QED BY <4>1, <4>3
      <3>9. d = (nSpool + 1) - (Len(spool[0]) + 1)
        BY <2>6, <3>3, <3>5
      <3> QED BY <2>4, <3>2, <3>3, <3>4, <3>8, <3>9 DEF Numbered
    <2>8. \A k \in 0 .. MaxBackups + 1 : c[k + 1] = c[k] - Len(spool'[k]) /\ Numbered(spool'[k], c[k + 1])
      <3> TAKE k \in 0 .. MaxBackups + 1
      <3>1. CASE k = 0
        BY <2>7, <3>1
      <3>2. CASE k # 0
        BY <2>4, <2>6, <3>2 DEF Marks
      <3> QED BY <3>1, <3>2
    <2>9. c[MaxBackups + 2] = b[MaxBackups + 2] /\ b[MaxBackups + 2] \in Int
      BY <2>1, <2>2
    <2>10. "spool" \notin cut' /\ c[MaxBackups + 2] > 0 => ~Empty(MaxBackups + 1)'
      <3>1. "spool" \notin cut /\ b[MaxBackups + 2] > 0 => ~Empty(MaxBackups + 1)
        BY DEF Marks
      <3>2. spool'[MaxBackups + 1] = spool[MaxBackups + 1]
        <4>1. MaxBackups + 1 \in 0 .. MaxBackups + 1 /\ MaxBackups + 1 # 0
          OBVIOUS
        <4> QED BY <2>6, <4>1
      <3> QED BY <2>5, <2>9, <3>1, <3>2 DEF Empty
    <2>11. c[0] = nSpool' /\ c[MaxBackups + 2] >= 0
      BY <2>4, <2>5, <2>9 DEF Marks
    <2>12. Marks(c)'
      BY <2>8, <2>10, <2>11 DEF Marks
    <2> QED BY <2>3, <2>12
  <1>2. CASE Shift \/ ShiftBase
    <2>1. opc = "shift" /\ Renamed(slot) /\ UNCHANGED <<nSpool, cut>>
      BY <1>2 DEF Shift, ShiftBase, At
    <2> QED BY <2>1, ShiftMarks
  <1>3. CASE ~FallbackWrite /\ ~Shift /\ ~ShiftBase
    <2>1. UNCHANGED <<spool, nSpool>> /\ cut \subseteq cut'
      BY <1>3, OtherSteps
    <2>2. Marks(b)'
      BY <2>1 DEF Marks, Empty
    <2> QED BY <2>2
  <1> QED BY <1>1, <1>2, <1>3

\* Two pieces of what was written, one after the other.
LEMMA JoinNumbered ==
  ASSUME NEW s \in Seq(Nat), NEW t \in Seq(Nat), NEW d \in Int,
         Numbered(s, d), Numbered(t, d + Len(s))
  PROVE  Numbered(s \o t, d) /\ Len(s \o t) = Len(s) + Len(t) /\ s \o t \in Seq(Nat)
  <1>1. Len(s) \in Nat /\ Len(t) \in Nat /\ Len(s \o t) = Len(s) + Len(t) /\ s \o t \in Seq(Nat)
    OBVIOUS
  <1>2. ASSUME NEW i \in 1 .. Len(s) + Len(t) PROVE (s \o t)[i] = d + i
    <2>1. CASE i <= Len(s)
      <3>1. i \in 1 .. Len(s) /\ (s \o t)[i] = s[i]
        BY <1>1, <2>1
      <3> QED BY <3>1 DEF Numbered
    <2>2. CASE ~(i <= Len(s))
      <3>1. i - Len(s) \in 1 .. Len(t) /\ (s \o t)[i] = t[i - Len(s)]
        BY <1>1, <2>2
      <3>2. t[i - Len(s)] = (d + Len(s)) + (i - Len(s))
        BY <3>1 DEF Numbered
      <3> QED BY <1>1, <3>1, <3>2
    <2> QED BY <2>1, <2>2
  <1> QED BY <1>1, <1>2 DEF Numbered

\* The files of the spool, one after the other.
LEMMA SpoolNumbered ==
  ASSUME TypeOK, NEW b \in [0 .. MaxBackups + 2 -> Int], Marks(b)
  PROVE  Spool \in Seq(Nat) /\ Len(Spool) = nSpool - b[MaxBackups + 2] /\ Numbered(Spool, b[MaxBackups + 2])
  <1> USE OutputsAssumption
  <1>1. PICK n : n = MaxBackups + 2
    OBVIOUS
  <1>2. PICK s : s = [i \in 1 .. (MaxBackups + 2) |-> spool[MaxBackups + 2 - i]]
    OBVIOUS
  <1>3. n \in Nat /\ n >= 1 /\ 1 \in 1 .. n /\ n \in 1 .. n /\ b[n] \in Int /\ n \in 0 .. n
    BY <1>1
  <1>4. /\ \A i \in 1 .. n : n - i \in 0 .. MaxBackups + 1 /\ n - i \in 0 .. n
        /\ \A k \in 0 .. MaxBackups + 1 : spool[k] \in Seq(Nat)
    <2>1. \A k \in 0 .. MaxBackups + 1 : k \in {0} \cup Backups
      BY DEF Backups
    <2> QED BY <1>1, <2>1 DEF TypeOK
  <1>5. s \in Seq(Seq(Nat)) /\ Len(s) = n /\ \A i \in 1 .. n : s[i] = spool[n - i]
    <2>1. s \in [1 .. n -> Seq(Nat)]
      BY <1>1, <1>2, <1>4
    <2>2. s \in Seq(Seq(Nat)) /\ Len(s) = n
      BY <1>3, <2>1
    <2> QED BY <1>1, <1>2, <2>2
  <1>6. PICK g \in [1 .. n -> Seq(Nat)] :
          /\ g[1] = s[1]
          /\ \A i \in 1 .. n : i # 1 => g[i] = g[i - 1] \o s[i]
          /\ FlattenSeq(s) = g[n]
    <2>1. s \in Seq(Seq(Nat)) /\ Len(s) # 0
      BY <1>3, <1>5
    <2>2. \E g \in [1 .. Len(s) -> Seq(Nat)] :
            /\ g[1] = s[1]
            /\ \A i \in 1 .. Len(s) : i # 1 => g[i] = g[i - 1] \o s[i]
            /\ FlattenSeq(s) = g[Len(s)]
      BY <2>1, Flatten
    <2>3. Len(s) = n
      BY <1>5
    <2> HIDE <1>2
    <2> QED BY <2>2, <2>3, Zenon
  <1>7. Spool = g[n]
    BY <1>2, <1>6 DEF Spool
  <1>8. \A i \in 1 .. n : b[n - i + 1] = b[n - i] - Len(spool[n - i]) /\ Numbered(spool[n - i], b[n - i + 1])
    BY <1>4 DEF Marks
  <1>9. \A i \in 0 .. n : b[i] \in Int
    BY <1>1
  <1> DEFINE H == {i \in 1 .. n : Len(g[i]) = b[n - i] - b[n] /\ Numbered(g[i], b[n])}
  <1>10. 1 \in H
    <2>1. n - 1 + 1 = n /\ n - 1 \in 0 .. n
      BY <1>3
    <2>2. b[n] = b[n - 1] - Len(spool[n - 1]) /\ Numbered(spool[n - 1], b[n])
      BY <1>3, <1>8, <2>1
    <2>3. g[1] = spool[n - 1] /\ Len(spool[n - 1]) \in Nat /\ b[n - 1] \in Int
      <3>1. s[1] = spool[n - 1] /\ g[1] = s[1]
        BY <1>3, <1>5, <1>6, Zenon
      <3>2. spool[n - 1] \in Seq(Nat)
        BY <1>3, <1>4, Zenon
      <3>3. b[n - 1] \in Int
        BY <1>9, <2>1
      <3> QED BY <3>1, <3>2, <3>3
    <2>4. Len(g[1]) = b[n - 1] - b[n]
      BY <1>3, <2>2, <2>3
    <2> QED BY <1>3, <2>2, <2>3, <2>4
  <1>11. ASSUME NEW i \in 1 .. n, i \in H, i < n PROVE i + 1 \in H
    <2>1. PICK j : j = i + 1
      OBVIOUS
    <2>2. j \in 1 .. n /\ j # 1 /\ j - 1 = i /\ n - j + 1 = n - i /\ n - j \in 0 .. n /\ n - i \in 0 .. n
      BY <1>3, <1>11, <2>1
    <2>3. g[j] = g[i] \o spool[n - j] /\ g[i] \in Seq(Nat) /\ spool[n - j] \in Seq(Nat)
      BY ZenonT(30), <1>4, <1>5, <1>6, <2>2
    <2>4. b[n - i] = b[n - j] - Len(spool[n - j]) /\ Numbered(spool[n - j], b[n - i])
      BY <1>8, <2>2
    <2>5. b[n - i] \in Int /\ b[n - j] \in Int /\ Len(g[i]) \in Nat /\ Len(spool[n - j]) \in Nat
      BY SMTT(30), <1>9, <2>2, <2>3
    <2>6. Len(g[i]) = b[n - i] - b[n] /\ Numbered(g[i], b[n])
      BY <1>11
    <2>7. b[n - i] = b[n] + Len(g[i])
      BY SMTT(30), <1>3, <2>5, <2>6
    <2>8. Numbered(g[j], b[n]) /\ Len(g[j]) = Len(g[i]) + Len(spool[n - j])
      <3>1. PICK x \in Seq(Nat), y \in Seq(Nat) : x = g[i] /\ y = spool[n - j]
        BY <2>3
      <3>2. PICK d \in Int : d = b[n]
        BY <1>3
      <3>3. Numbered(x, d) /\ Numbered(y, d + Len(x))
        BY <2>4, <2>6, <2>7, <3>1, <3>2
      <3>4. Numbered(x \o y, d) /\ Len(x \o y) = Len(x) + Len(y)
        BY <3>3, JoinNumbered
      <3> QED BY <2>3, <3>1, <3>2, <3>4
    <2>9. Len(g[j]) = b[n - j] - b[n]
      <3>1. PICK x \in Nat, y \in Nat : x = Len(g[i]) /\ y = Len(spool[n - j])
        BY <2>5
      <3>2. PICK d \in Int, p \in Int, q \in Int : d = b[n] /\ p = b[n - i] /\ q = b[n - j]
        BY <1>3, <2>5
      <3>3. p = q - y /\ p = d + x /\ Len(g[j]) = x + y
        BY <2>4, <2>7, <2>8, <3>1, <3>2
      <3>4. x + y = q - d
        BY <3>3
      <3> QED BY <3>2, <3>3, <3>4
    <2> QED BY <2>1, <2>2, <2>8, <2>9
  <1>12. n \in H
    <2> HIDE DEF H
    <2>1. \A i \in 1 .. n : i \in H
      BY <1>3, <1>10, <1>11, UpTo
    <2> QED BY <1>3, <2>1
  <1>13. Len(g[n]) = b[0] - b[n] /\ Numbered(g[n], b[n]) /\ g[n] \in Seq(Nat)
    <2>1. n - n = 0
      BY <1>3
    <2> QED BY <1>3, <1>12, <2>1
  <1> QED BY <1>1, <1>7, <1>13 DEF Marks

LEMMA NumberedNewest ==
  ASSUME NEW s \in Seq(Nat), NEW n \in Int, Numbered(s, n - Len(s))
  PROVE  Newest(s, n)
  BY DEF Numbered, Newest

LEMMA KeptNext == TypeOK /\ SpoolInv /\ KeptInv /\ [Next]_vars => KeptInv'
  <1> SUFFICES ASSUME TypeOK, SpoolInv, KeptInv, [Next]_vars PROVE KeptInv'
    OBVIOUS
  <1>1. PICK b \in [0 .. MaxBackups + 2 -> Int] : Marks(b)
    BY DEF KeptInv
  <1>2. LogInv' /\ ChainInv'
    BY LogStep, ChainStep DEF KeptInv
  <1>3. \E c \in [0 .. MaxBackups + 2 -> Int] : Marks(c)'
    BY <1>1, MarksStep DEF KeptInv
  <1> QED BY <1>2, <1>3 DEF KeptInv

\* Whatever the limits and the number of backups, whichever renames of rotate and
\* rotateFallback fail and wherever the process dies: the log and the spool hold the
\* newest lines without a gap, and a spool whose rotations were not cut short drops
\* lines only when all its backups are full.
THEOREM NewestLinesKept == Spec => []NewestKept
  <1>1. TypeOK /\ KeptInv => NewestKept
    <2> SUFFICES ASSUME TypeOK, KeptInv PROVE NewestKept
      OBVIOUS
    <2>1. Newest(oldLog \o log, nLog)
      <3>1. log \in Seq(Nat) /\ oldLog \in Seq(Nat) /\ nLog \in Nat /\ Len(log) \in Nat /\ Len(oldLog) \in Nat
        BY DEF TypeOK
      <3>2. PICK d \in Int : d = nLog - Len(log) - Len(oldLog)
        <4>1. nLog - Len(log) - Len(oldLog) \in Int
          BY <3>1
        <4> QED BY <4>1, Zenon
      <3>3. Numbered(oldLog, d) /\ Numbered(log, d + Len(oldLog))
        <4>1. nLog - Len(log) = d + Len(oldLog)
          BY <3>1, <3>2
        <4>2. Numbered(log, nLog - Len(log)) /\ Numbered(oldLog, nLog - Len(log) - Len(oldLog))
          BY DEF KeptInv, LogInv
        <4> QED BY <3>2, <4>1, <4>2
      <3>4. Numbered(oldLog \o log, d) /\ Len(oldLog \o log) = Len(oldLog) + Len(log) /\ oldLog \o log \in Seq(Nat)
        BY <3>1, <3>3, JoinNumbered
      <3>5. nLog - Len(oldLog \o log) = d
        BY <3>1, <3>2, <3>4
      <3>6. PICK s \in Seq(Nat) : s = oldLog \o log
        BY <3>4, Zenon
      <3>7. Numbered(s, nLog - Len(s)) /\ nLog \in Int
        BY <3>1, <3>4, <3>5, <3>6
      <3>8. Newest(s, nLog)
        BY <3>7, NumberedNewest
      <3> QED BY <3>6, <3>8
    <2>2. PICK b \in [0 .. MaxBackups + 2 -> Int] : Marks(b)
      BY DEF KeptInv
    <2>3. PICK e \in Int : e = b[MaxBackups + 2]
      BY OutputsAssumption
    <2>4. Spool \in Seq(Nat) /\ Len(Spool) = nSpool - e /\ Numbered(Spool, e)
      BY <2>2, <2>3, SpoolNumbered
    <2>5. nSpool \in Nat /\ Len(Spool) \in Nat
      BY <2>4 DEF TypeOK
    <2>6. nSpool - Len(Spool) = e
      BY <2>4, <2>5
    <2>7. Newest(Spool, nSpool)
      BY <2>4, <2>5, <2>6, NumberedNewest
    <2>8. "spool" \notin cut /\ Len(Spool) < nSpool =>
            \E x \in {0} \cup Backups : \A k \in ({0} \cup Backups) \ {x} : spoolBytes[k] >= SpoolMax
      <3>1. Len(Spool) < nSpool => e > 0
        BY <2>5, <2>6
      <3>2. "spool" \notin cut /\ e > 0 => ~Empty(MaxBackups + 1)
        BY <2>2, <2>3 DEF Marks
      <3> QED BY <3>1, <3>2, FullSpool DEF KeptInv
    <2> QED BY <2>1, <2>7, <2>8 DEF NewestKept
  <1>2. Spec => []SpoolInv
    BY OutputsTypeCorrect, SizesInit, SizesNext, PTL DEF Spec
  <1> QED BY <1>1, <1>2, OutputsTypeCorrect, KeptInit, KeptNext, PTL DEF Spec
=============================================================================
