------------------------------ MODULE Checker ------------------------------
(***************************************************************************)
(* The checker scheduler of monitorbeat (scheduler/checker): it runs every *)
(* task once, one after the other, and ends.  main does not use it; the    *)
(* caller here goes through main's start (load, Clean, wireOutputs,        *)
(* buildAllTasks, Add, Start) and then calls Stop, Wait and Reload as the  *)
(* comment of Reload tells it to.  Settings says what the file becomes,    *)
(* Collectors what a task sends.                                           *)
(*                                                                         *)
(* A definition whose comment begins with "Mutant" is a wrong form of the  *)
(* one after it, against which the properties are tried.                   *)
(***************************************************************************)
EXTENDS Settings, Collectors

CONSTANTS
  Files,      \* configuration files: [tasks, outputs]
  Texts,      \* per format, what a script or a metrics page may say
  Logs,       \* kernel logs
  Tables,     \* sets of processes
  Codes,      \* status codes of HTTP
  MaxConns,   \* bound: connections of a family
  EventCap,   \* capacity of the event channel
  MaxStarts,  \* bound: calls of Start
  MaxReloads  \* bound: calls of Reload

Entries ==
  [typ : ToSet(Sections), line : Nat, id : Int,
   ident : {NoIdent} \cup (ToSet(Alphabet) \X Int), timeout : Int, target : BOOLEAN,
   expect : BOOLEAN, code : Int, format : {""} \cup DOMAIN Texts, names : SUBSET STRING,
   regex : {"", "match", "malformed"}, topN : Int,
   parts : SUBSET {"mem", "load", "disk", "net"}, paths : Seq(Paths)]
OutputEntries ==
  [typ : STRING, target : BOOLEAN, malformed : BOOLEAN, timeout : Int, retryMax : Int,
   maxSize : Int, maxBackups : Int]

ASSUME BoundsAssumption ==
  EventCap \in Nat \ {0} /\ MaxStarts \in Nat \ {0} /\ MaxReloads \in Nat /\ MaxConns \in Nat

\* An entry carries its place in the file.
ASSUME FilesAssumption ==
  \A f \in Files :
    /\ f.tasks \in Seq(Entries) /\ f.outputs \in Seq(OutputEntries)
    /\ \A i \in DOMAIN f.tasks : f.tasks[i].line = i

\* Only a sample has a label, and a family is a histogram or summary or it is not, which
\* the other formats do not have.  The patterns a line of the log matches depend on its text.
ASSUME WorldAssumption ==
  /\ "prometheus" \in DOMAIN Texts
  /\ \A format \in DOMAIN Texts : \A text \in Texts[format] :
       /\ text \in Seq(ToSet(text))
       /\ \A i \in DOMAIN text : ~IsSample(text[i]) => text[i].label = ""
       /\ \A i \in DOMAIN text : text[i].kind = "compound" => format = "prometheus"
       /\ \A i, j \in DOMAIN text :
            text[i].kind = "compound" /\ text[j].kind = "number" => text[i].key # text[j].key
  /\ \A log \in Logs :
       /\ log \in Seq([text : STRING, matches : SUBSET Nat])
       /\ \A i, j \in DOMAIN log : log[i].text = log[j].text => log[i].matches = log[j].matches
  /\ \A table \in Tables : IsFiniteSet(table) /\ \A p \in table : p.cpu \in Int

NoInput == [broken |-> {}]
NoEvent == Event(<<>>)

VARIABLES
  cpc,       \* where the caller is
  toAdd,     \* tasks it has still to Add
  outputs,   \* outputs registered with the engine
  tasks,     \* Scheduler.tasks: at most one task per ident
  status,    \* Scheduler.Status
  signalled, \* the context of the process is cancelled
  cancelled, \* the context made by Start is cancelled
  rpc, todo, \* run, and the tasks it has still to run
  input,     \* what the outside world does to the task that runs
  event,     \* the event that it sends
  ch,        \* the number of events in the event channel
  starts,
  \* history variables: the files loaded and, of the last run, how many there were
  \* at Start, the tasks begun, those whose event was sent and those without one
  files, since, ran, sent, silent

callerVars == <<cpc, toAdd, outputs, starts>>
ctxVars == <<signalled, cancelled>>
runVars == <<rpc, todo, input, event>>
histVars == <<ran, sent, silent>>
vars == <<callerVars, tasks, status, ctxVars, runVars, ch, files, since, histVars>>

Done == signalled \/ cancelled

Init ==
  /\ cpc = "boot" /\ toAdd = <<>> /\ outputs = <<>> /\ starts = 0
  /\ tasks = {} /\ status = "ready"
  /\ signalled = FALSE /\ cancelled = FALSE
  /\ rpc = "none" /\ todo = <<>> /\ input = NoInput /\ event = NoEvent /\ ch = 0
  /\ files = <<>> /\ since = 0 /\ ran = <<>> /\ sent = {} /\ silent = {}

(***************************************************************************)
(* The caller.                                                             *)
(***************************************************************************)

\* The tasks of the file loaded last; each remembers which file that was.
Built(f) ==
  LET ts == buildAllTasks(f.tasks)
  IN  [i \in DOMAIN ts |-> [t |-> ts[i], file |-> Len(files) + 1]]

\* The file is loaded and the outputs are made; a failing Init ends main.
Boot(f) ==
  /\ cpc = "boot"
  /\ LET w == wireOutputs(f.outputs)
     IN  /\ outputs' = w.registered
         /\ cpc' = IF w.err THEN "exit" ELSE "add"
  /\ toAdd' = Built(f)
  /\ files' = <<f>>
  /\ UNCHANGED <<starts, tasks, status, ctxVars, runVars, ch, since, histVars>>

\* loadConfig fails: the file cannot be read or is no YAML.
LoadFail ==
  /\ cpc = "boot"
  /\ cpc' = "exit"
  /\ UNCHANGED <<toAdd, outputs, starts, tasks, status, ctxVars, runVars, ch, files, since, histVars>>

\* Put of the tree map.
PutTask(S, x) == {y \in S : y.t.ident # x.t.ident} \cup {x}

Add ==
  /\ cpc = "add" /\ toAdd # <<>>
  /\ tasks' = PutTask(tasks, Head(toAdd))
  /\ toAdd' = Tail(toAdd)
  /\ UNCHANGED <<cpc, outputs, starts, status, ctxVars, runVars, ch, files, since, histVars>>

Start ==
  /\ starts < MaxStarts
  /\ \/ cpc = "add" /\ toAdd = <<>>
     \/ cpc = "waited"
  /\ cpc' = "started" /\ starts' = starts + 1
  /\ status' = "running" /\ cancelled' = FALSE
  /\ rpc' = "snapshot"
  /\ since' = Len(files) /\ ran' = <<>> /\ sent' = {} /\ silent' = {}
  /\ UNCHANGED <<toAdd, outputs, tasks, signalled, todo, input, event, ch, files>>

\* SIGTERM.
Signal ==
  /\ ~signalled
  /\ cpc \notin {"boot", "exit"}
  /\ signalled' = TRUE
  /\ UNCHANGED <<callerVars, tasks, status, cancelled, runVars, ch, files, since, histVars>>

Stop ==
  /\ cpc = "started"
  /\ cpc' = "stopped"
  /\ status' = "finished" /\ cancelled' = TRUE
  /\ UNCHANGED <<toAdd, outputs, starts, tasks, signalled, runVars, ch, files, since, histVars>>

Wait ==
  /\ cpc \in {"started", "stopped"}
  /\ rpc = "done"
  /\ cpc' = "waited" /\ status' = "finished"
  /\ UNCHANGED <<toAdd, outputs, starts, tasks, ctxVars, runVars, ch, files, since, histVars>>

\* Mutant: the new tasks are put in with the old ones.
PutAmongOld(S, ts) == FoldLeft(PutTask, S, ts)

\* Reload clears the tree map and puts the new tasks in, under the lock.
Replaced(S, ts) == FoldLeft(PutTask, {}, ts)

Reload(f) ==
  /\ cpc \in {"started", "stopped", "waited"}
  /\ Len(files) <= MaxReloads
  /\ tasks' = Replaced(tasks, Built(f))
  /\ files' = Append(files, f)
  /\ UNCHANGED <<callerVars, status, ctxVars, runVars, ch, since, histVars>>

(***************************************************************************)
(* run.                                                                    *)
(***************************************************************************)

\* The values of the tree map in the order of its keys.
InOrder(S) ==
  {s \in [1 .. Cardinality(S) -> S] :
     \A i, j \in DOMAIN s : i < j => Before(s[i].t.ident, s[j].t.ident)}

\* The tasks in the order of their idents, copied under the lock.
Snapshot ==
  /\ rpc = "snapshot"
  /\ \E s \in InOrder(tasks) : todo' = s
  /\ rpc' = "check"
  /\ UNCHANGED <<callerVars, tasks, status, ctxVars, input, event, ch, files, since, histVars>>

\* All tasks have run, or the context is found cancelled before the next one.
Finish ==
  /\ rpc = "check"
  /\ todo = <<>> \/ Done
  /\ rpc' = "done" /\ todo' = <<>> /\ status' = "finished"
  /\ UNCHANGED <<callerVars, tasks, ctxVars, input, event, ch, files, since, histVars>>

\* What the world may do to a task.
Inputs(t) ==
  CASE t.typ \in {"tcp", "udp", "http"} ->
         [broken : SUBSET (ToSet(ProbeStages(t)) \ {"status"}), code : Codes]
    [] t.typ = "script" -> [text : Texts[t.format], fails : BOOLEAN, lingers : BOOLEAN]
    [] t.typ = "metricbeat" -> [text : Texts[t.format], fails : BOOLEAN, silent : BOOLEAN]
    [] t.typ = "dmesg" -> [log : Logs, fails : BOOLEAN]
    [] t.typ = "processbeat" -> [table : Tables, fails : BOOLEAN]
    [] t.typ = "socketsnapshot" -> [broken : SUBSET {"tcp", "udp"}, tcp : 0 .. MaxConns, udp : 0 .. MaxConns]
    [] t.typ = "basereport" -> [broken : SUBSET ({"cpu", "mem", "load", "net", "/"} \cup ToSet(t.paths))]
    [] OTHER -> {NoInput}

\* The next task is begun.
Begin ==
  /\ rpc = "check"
  /\ todo # <<>> /\ ~Done
  /\ \E in \in Inputs(Head(todo).t) : input' = in
  /\ rpc' = "collect"
  /\ ran' = Append(ran, Head(todo))
  /\ UNCHANGED <<callerVars, tasks, status, ctxVars, todo, event, ch, files, since, sent, silent>>

\* The command is killed at the timeout, but not its descendants, and a call waits
\* until they have closed their output.
Lingering == rpc = "collect" /\ Head(todo).t.typ = "script" /\ input.lingers

\* An http.Client without a timeout waits for a silent server until the context ends.
Hanging ==
  /\ rpc = "collect" /\ Head(todo).t.typ = "metricbeat"
  /\ input.silent /\ Head(todo).t.timeout <= 0 /\ ~Done

NextTask == rpc' = "check" /\ todo' = Tail(todo) /\ input' = NoInput /\ event' = NoEvent

\* Run panics, which run recovers from, or returns without an event.
Silently ==
  /\ silent' = silent \cup {Head(todo)}
  /\ NextTask
  /\ UNCHANGED sent

Panic ==
  /\ rpc = "collect" /\ ~Lingering
  /\ Silently
  /\ UNCHANGED <<callerVars, tasks, status, ctxVars, ch, files, since, ran>>

\* Run has collected its data.
Collect ==
  /\ rpc = "collect" /\ ~Lingering /\ ~Hanging
  /\ LET events == Events(Head(todo).t, input, Done)
     IN  \/ events = {} /\ Silently
         \/ /\ \E e \in events : event' = e
            /\ rpc' = "send"
            /\ UNCHANGED <<todo, input, sent, silent>>
  /\ UNCHANGED <<callerVars, tasks, status, ctxVars, ch, files, since, ran>>

Send ==
  /\ rpc = "send"
  /\ ch < EventCap
  /\ ch' = ch + 1
  /\ sent' = sent \cup {Head(todo)}
  /\ NextTask
  /\ UNCHANGED <<callerVars, tasks, status, ctxVars, files, since, ran, silent>>

SendCancelled ==
  /\ rpc = "send"
  /\ Done
  /\ NextTask
  /\ UNCHANGED <<callerVars, tasks, status, ctxVars, ch, files, since, histVars>>

\* The engine takes an event.
Engine ==
  /\ ch > 0 /\ ~signalled
  /\ ch' = ch - 1
  /\ UNCHANGED <<callerVars, tasks, status, ctxVars, runVars, files, since, histVars>>

Next ==
  \/ \E f \in Files : Boot(f) \/ Reload(f)
  \/ LoadFail \/ Add \/ Start \/ Signal \/ Stop \/ Wait
  \/ Snapshot \/ Finish \/ Begin \/ Panic \/ Collect \/ Send \/ SendCancelled
  \/ Engine

Spec == Init /\ [][Next]_vars

\* run is a goroutine, a task ends by itself or at its timeout, and the engine reads.
FairSpec ==
  /\ Spec
  /\ WF_vars(Snapshot \/ Finish \/ Begin \/ Collect \/ Send \/ SendCancelled)
  /\ WF_vars(Engine)

(***************************************************************************)
(* Properties.                                                             *)
(***************************************************************************)

\* Every variable has its type; the limits of the outputs are ones that retries, spool
\* and rotation can work with, whatever the file says.  Only a file output may have a limit
\* of zero, for a fraction of a megabyte: it is rotated after every event.
TypeOK ==
  /\ cpc \in {"boot", "exit", "add", "started", "stopped", "waited"}
  /\ rpc \in {"none", "snapshot", "check", "collect", "send", "done"}
  /\ status \in {"ready", "running", "finished"}
  /\ signalled \in BOOLEAN /\ cancelled \in BOOLEAN
  /\ ch \in 0 .. EventCap /\ starts \in 0 .. MaxStarts
  /\ \A o \in ToSet(outputs) :
       /\ o.typ = "file" => o.maxSize >= 0
       /\ o.typ = "http" => o.maxSize > 0 /\ o.timeout > 0 /\ o.retryMax >= 0 /\ o.maxBackups >= 0
  /\ \A x, y \in tasks : x.t.ident = y.t.ident => x = y
  /\ since <= Len(files)
  /\ sent \cap silent = {} /\ sent \cup silent \subseteq ToSet(ran)

\* What a file asks for: every entry that can be built and is not for the keyword scheduler,
\* except where a later one (in the order of the sections) goes by the same name.
SectionOf(typ) == CHOOSE i \in DOMAIN Sections : Sections[i] = typ
NameOf(e) == IF e.ident # NoIdent THEN e.ident ELSE <<e.typ, IF e.id = 0 THEN 1 ELSE e.id>>
Usable(e) == e.typ # "keyword" /\ ~(e.typ \in {"script", "metricbeat"} /\ ~e.target)
Wanted(f) ==
  {i \in DOMAIN f.tasks :
     /\ Usable(f.tasks[i])
     /\ ~ \E j \in DOMAIN f.tasks :
            /\ Usable(f.tasks[j]) /\ NameOf(f.tasks[j]) = NameOf(f.tasks[i])
            /\ \/ SectionOf(f.tasks[i].typ) < SectionOf(f.tasks[j].typ)
               \/ f.tasks[i].typ = f.tasks[j].typ /\ i < j}

\* A run that nobody cancels runs exactly the tasks one file asks for (the last one
\* loaded when it took its copy), each once and in the order of the idents; a task it
\* is done with has sent its event unless it had none or the context is cancelled;
\* and when the run is over the status says so.
Served ==
  /\ \A i, j \in DOMAIN ran : i < j => Before(ran[i].t.ident, ran[j].t.ident)
  /\ rpc = "done" =>
       /\ status = "finished"
       /\ ~Done => \E n \in since .. Len(files) :
                     /\ {x.t.line : x \in ToSet(ran)} = Wanted(files[n])
                     /\ \A x \in ToSet(ran) : x.file = n
  /\ ~Done => \A i \in DOMAIN ran :
                \/ ran[i] \in sent \cup silent
                \/ i = Len(ran) /\ rpc \in {"collect", "send"}

LastOf(text, kind, k) ==
  LET at == {i \in DOMAIN text : text[i].kind = kind /\ text[i].key = k}
  IN  text[CHOOSE i \in at : \A j \in at : j <= i].val
Keys(text, kind) == {text[i].key : i \in {j \in DOMAIN text : text[j].kind = kind}}

\* A text as far as it is read: up to a line that is too long.
Readable(format, text) ==
  IF format = "prometheus" THEN text
  ELSE CHOOSE s \in {SubSeq(text, 1, n) : n \in 0 .. Len(text)} :
         /\ Keys(s, "long") = {}
         /\ Len(s) < Len(text) => text[Len(s) + 1].kind = "long"

\* A parsed text: every metric and every label has the value printed last, and every
\* histogram or summary the value zero; of a page in the Prometheus format with a line that
\* is no sample, nothing is reported.
ParsedRight(t, in, ev, own) ==
  LET text == Readable(t.format, in.text)
  IN  IF t.format = "prometheus" /\ Keys(text, "text") # {}
      THEN DOMAIN ev.metrics = own /\ ev.labels = [hostname |-> "host"]
      ELSE /\ DOMAIN ev.metrics = Keys(text, "number") \cup Keys(text, "compound") \cup own
           /\ \A k \in Keys(text, "number") \ own : ev.metrics[k] = LastOf(text, "number", k)
           /\ \A k \in Keys(text, "compound") \ own : ev.metrics[k] = 0
           /\ t.format # "prometheus" =>
                /\ DOMAIN ev.labels = Keys(text, "text") \cup {"hostname"}
                /\ \A k \in Keys(text, "text") : ev.labels[k] = LastOf(text, "text", k)
           /\ t.format = "prometheus" =>
                ("l" \in DOMAIN ev.labels <=> \E i \in DOMAIN text : text[i].label # "")

\* A line that occurs n times is reported under its first n patterns.
DmesgRight(log, items) ==
  /\ \A i, j \in DOMAIN items : i # j => items[i] # items[j]
  /\ \A l \in ToSet(log) : \A p \in l.matches :
       (<<p, l.text>> \in ToSet(items)) <=>
         (Cardinality({q \in l.matches : q < p}) <
            Cardinality({i \in DOMAIN log : log[i].text = l.text}))
  /\ ToSet(items) \subseteq UNION {{<<p, l.text>> : p \in l.matches} : l \in ToSet(log)}

\* The busiest processes that the filters let through, and as many as were asked for.
ProcessesRight(t, in, items) ==
  LET selected == Selected(t, in.table)
  IN  /\ ToSet(items) \subseteq selected
      /\ Cardinality(ToSet(items)) = Len(items)
      /\ Len(items) = IF Cardinality(selected) < t.topN THEN Cardinality(selected) ELSE t.topN
      /\ \A p \in selected \ ToSet(items) : \A q \in ToSet(items) : p.cpu <= q.cpu

ProbeRight(t, in, ev, done) ==
  LET fine == in.broken = {} /\ (t.typ = "http" => in.code = t.code)
  IN  /\ ev.error <=> ev.metrics["success"] = 0
      /\ ~ev.error => fine
      /\ ev.error => ~fine \/ done
      /\ "bytes_read" \in DOMAIN ev.metrics /\ ~ev.error => t.expect

ScriptRight(t, in, ev, done) ==
  /\ ev.error => in.fails \/ done
  /\ ~ev.error => ~in.fails
  /\ ev.metrics["cost_ms"] = "ms"
  /\ ~done => ParsedRight(t, in, ev, {"cost_ms"})

MetricbeatRight(t, in, ev, done) ==
  /\ ev.error => in.fails \/ in.silent \/ done
  /\ ~ev.error => ParsedRight(t, in, ev, {})
  /\ ev.error => ev.metrics = <<>>

SocketRight(in, ev) ==
  ev.metrics["total"] =
    (IF "tcp" \in in.broken THEN 0 ELSE in.tcp) + (IF "udp" \in in.broken THEN 0 ELSE in.udp)

BasereportRight(t, in, ev, done) ==
  /\ "cpu" \in DOMAIN ev.metrics => "cpu" \notin in.broken
  /\ "cpu" \in in.broken \cup DOMAIN ev.metrics \/ done
  /\ \A p \in {"mem", "load", "net"} :
       p \in DOMAIN ev.metrics <=> p \in t.parts \ in.broken
  /\ "disk" \in t.parts =>
       \A p \in ToSet(t.paths) \ in.broken :
         LET q == ev.metrics[DiskKey(p)]
         IN  q \in ToSet(t.paths) \ in.broken /\ DiskKey(q) = DiskKey(p)

\* What an event of t says of in; done: the context is cancelled.
EventRight(t, in, ev, done) ==
  CASE t.typ \in {"tcp", "udp", "http"} -> ProbeRight(t, in, ev, done)
    [] t.typ = "script" -> ScriptRight(t, in, ev, done)
    [] t.typ = "metricbeat" -> MetricbeatRight(t, in, ev, done)
    [] t.typ = "dmesg" ->
         /\ ev.metrics["total"] = Len(ev.items)
         /\ IF in.fails THEN ev.items = <<>> ELSE done \/ DmesgRight(in.log, ev.items)
    [] t.typ = "processbeat" ->
         /\ ev.metrics["total"] = Len(ev.items)
         /\ ProcessesRight(t, in, ev.items)
    [] t.typ = "socketsnapshot" -> SocketRight(in, ev)
    [] t.typ = "basereport" -> BasereportRight(t, in, ev, done)
    [] OTHER -> ev.error => t.typ = "ping"

\* The event of a task says what happened: a probe succeeds if and only if every stage
\* did, with an error otherwise; what is parsed, matched, sorted and cut off agrees
\* with a definition of its own; a part that failed leaves out that part only.
EventsRight == rpc = "send" => EventRight(Head(todo).t, input, event, Done)

\* A run ends, whether it is stopped or not, however silent the servers are; only a
\* script whose descendants keep its output open holds it up.
RunEnds == rpc = "snapshot" ~> (rpc = "done" \/ Lingering)
=============================================================================
