----------------------------- MODULE Collectors -----------------------------
(***************************************************************************)
(* What Run of a task puts into its event: the probes (tasks/tcp, udp and  *)
(* http), script, metricbeat, dmesg, processbeat, socketsnapshot,          *)
(* basereport, selfstats and gatherupbeat.  None of them keeps state from  *)
(* one Run to the next.                                                    *)
(*                                                                         *)
(* t is the configuration of the task, in what the outside world does, and *)
(* done whether the context is cancelled.  Metrics and labels are          *)
(* functions of their names; a time measured is "ms".  Readings without    *)
(* influence on anything else (the timings of an HTTP request, the fields  *)
(* of a process) are left out.                                             *)
(*                                                                         *)
(* A definition whose comment begins with "Mutant" is a wrong form of the  *)
(* one after it, against which the properties are tried.                   *)
(***************************************************************************)
EXTENDS Integers, Sequences, SequencesExt, FiniteSets

Nothing == [metrics |-> <<>>, labels |-> <<>>]

\* The entries of f, and those of g that f does not have.
Over(f, g) == [k \in DOMAIN f \cup DOMAIN g |-> IF k \in DOMAIN f THEN f[k] ELSE g[k]]
Put(f, k, v) == [x \in DOMAIN f \cup {k} |-> IF x = k THEN v ELSE f[x]]

Event(metrics) == [error |-> FALSE, metrics |-> metrics, labels |-> <<>>, items |-> <<>>]

(***************************************************************************)
(* The probes go through stages; the first that fails ends the probe.      *)
(***************************************************************************)

ProbeStages(t) ==
  CASE t.typ = "tcp" -> <<"dial", "close">>
    [] t.typ = "udp" -> <<"dial", "deadline", "write">> \o (IF t.expect THEN <<"read">> ELSE <<>>)
    [] t.typ = "http" -> <<"request", "do", "body", "status">>

\* The stages a cancelled context makes fail.  A udp reply is waited for until the
\* deadline of the socket, whatever the context.
Cancellable == {"dial", "do", "body"}

StageFails(t, in, done, s) ==
  \/ s \in in.broken
  \/ done /\ s \in Cancellable
  \/ s = "status" /\ in.code # t.code

\* The first stage that fails, or "" if the probe gets through.
FailsAt(t, in, done) ==
  LET stages == ProbeStages(t)
      failing == {i \in DOMAIN stages : StageFails(t, in, done, stages[i])}
  IN  IF failing = {} THEN "" ELSE stages[Min(failing)]

\* Metrics that exist once a stage has been reached.
Reached(t, in, at) ==
  CASE t.typ = "tcp" -> [connect_ms |-> "ms"]
    [] t.typ = "udp" ->
         LET base == [round_trip_ms |-> "ms"]
             wrote == IF at \in {"dial", "deadline"} THEN base ELSE Put(base, "bytes_written", "n")
         IN  IF at = "read" \/ (at = "" /\ t.expect) THEN Put(wrote, "bytes_read", "n") ELSE wrote
    [] t.typ = "http" ->
         LET base == [total_ms |-> "ms"]
         IN  IF at = "request" THEN base
             ELSE Put(base, "status_code", IF at = "do" THEN 0 ELSE in.code)

\* Run and probe of tcp, udp and http, and BuildEvent.
ProbeEvent(t, in, done) ==
  LET at == FailsAt(t, in, done)
  IN  [Event(Put(Put(Reached(t, in, at), "success", IF at = "" THEN 1 ELSE 0), "duration_ms", "ms"))
        EXCEPT !.error = at # ""]

(***************************************************************************)
(* script and metricbeat parse a text, of which metricbeat reads the first *)
(* ten megabytes.  A line is blank (or a comment, or without a value), has *)
(* a number, or has a value that is no number.  In the Prometheus format a *)
(* line may have a label, and "compound" stands for the lines of one       *)
(* metric of a histogram or summary; in the other one, "long" is a line    *)
(* beyond the 64 KiB of the scanner.                                       *)
(***************************************************************************)

IsSample(l) == l.kind \in {"number", "compound"}

\* Mutant: the last number of a histogram.
ValueAsPrinted(l) == l.val

\* extractValue knows gauges, counters and untyped metrics.
extractValue(l) == IF l.kind = "compound" THEN 0 ELSE l.val

ParsedLine(acc, l) ==
  CASE IsSample(l) -> [acc EXCEPT !.metrics = Put(@, l.key, extractValue(l))]
    [] l.kind = "text" -> [acc EXCEPT !.labels = Put(@, l.key, l.val)]
    [] OTHER -> acc

\* The scanner stops at a line that is too long, and nobody asks it why.
Scanned(text) ==
  LET long == {i \in DOMAIN text : text[i].kind = "long"}
  IN  IF long = {} THEN text ELSE SubSeq(text, 1, Min(long) - 1)

parseCustom(text) == FoldLeft(ParsedLine, Nothing, Scanned(text))

\* The families are visited in no particular order, and a label that several
\* families have is that of the last one: the result is one of a set.
FamilyLabel(text, k) ==
  LET at == {i \in DOMAIN text : IsSample(text[i]) /\ text[i].key = k /\ text[i].label # ""}
  IN  IF at = {} THEN {} ELSE {text[Max(at)].label}

\* A text with a line that is no sample is as good as none, and no error.
parsePrometheus(text) ==
  IF \E i \in DOMAIN text : text[i].kind = "text" THEN {Nothing}
  ELSE LET all == FoldLeft(ParsedLine, Nothing, text)
           labels == UNION {FamilyLabel(text, k) : k \in DOMAIN all.metrics}
       IN  IF labels = {} THEN {all}
           ELSE {[all EXCEPT !.labels = [l |-> v]] : v \in labels}

Parse(format, text) ==
  IF format = "prometheus" THEN parsePrometheus(text) ELSE {parseCustom(text)}

\* The labels are copied over the dimensions of the task, hostname included.
Dims(labels) == Over(labels, [hostname |-> "host"])

\* Run of script: the command fails or not, its output is parsed all the same; one
\* that is killed has printed a part of it.
ScriptEvents(t, in, done) ==
  LET printed == IF done THEN 0 .. Len(in.text) ELSE {Len(in.text)}
      parsed == UNION {Parse(t.format, SubSeq(in.text, 1, n)) : n \in printed}
  IN  {[error |-> in.fails \/ done,
        metrics |-> Put(p.metrics, "cost_ms", "ms"),
        labels |-> Dims(p.labels),
        items |-> <<>>] : p \in parsed}

\* Run of metricbeat: fetch fails, and there is nothing to parse, or not.
MetricbeatEvents(t, in, done) ==
  LET failed == in.fails \/ done \/ in.silent
  IN  {[error |-> failed,
        metrics |-> p.metrics,
        labels |-> Dims(p.labels),
        items |-> <<>>] : p \in IF failed THEN {Nothing} ELSE Parse(t.format, in.text)}

(***************************************************************************)
(* dmesg: a line of the kernel log is a text and the patterns it matches.  *)
(***************************************************************************)

\* The patterns that match the line and under which it is not reported yet.
Unseen(seen, l) == {p \in l.matches : <<p, l.text>> \notin seen}

DmesgLine(results, l) ==
  LET unseen == Unseen(ToSet(results), l)
  IN  IF unseen = {} THEN results
      ELSE Append(results, <<Min(unseen), l.text>>)

\* collect of dmesg; a command that fails gives an empty list.
DmesgEvent(in, done) ==
  LET found == IF in.fails \/ done THEN <<>> ELSE FoldLeft(DmesgLine, <<>>, in.log)
  IN  [Event([total |-> Len(found)]) EXCEPT !.items = found]

(***************************************************************************)
(* processbeat.                                                            *)
(***************************************************************************)

\* The processes that pass the filters; one that has ended has no name.
Selected(t, table) ==
  {p \in table : /\ ~p.gone
                 /\ t.names = {} \/ p.name \in t.names
                 /\ t.regex = "match" => p.match}

\* sort.Slice by CPU, the largest first; it is not stable.
Sorted(S) ==
  {s \in [1 .. Cardinality(S) -> S] :
     /\ \A i, j \in DOMAIN s : i # j => s[i] # s[j]
     /\ \A i, j \in DOMAIN s : i < j => s[i].cpu >= s[j].cpu}

Top(s, n) == IF n > 0 /\ Len(s) > n THEN SubSeq(s, 1, n) ELSE s

\* The list of processes cannot be read, or the expression does not compile.
ProcessbeatSilent(t, in) == in.fails \/ t.regex = "malformed"

ProcessbeatEvents(t, in) ==
  {[Event([total |-> Len(Top(s, t.topN))]) EXCEPT !.items = Top(s, t.topN)] :
     s \in Sorted(Selected(t, in.table))}

(***************************************************************************)
(* The other host metrics.                                                 *)
(***************************************************************************)

\* collect of socketsnapshot passes over a family that cannot be listed.
SocketEvent(in) ==
  LET conns == (IF "tcp" \in in.broken THEN <<>> ELSE [i \in 1 .. in.tcp |-> <<"tcp", i>>])
            \o (IF "udp" \in in.broken THEN <<>> ELSE [i \in 1 .. in.udp |-> <<"udp", i>>])
  IN  [Event([total |-> Len(conns)]) EXCEPT !.items = conns]

Paths == {"/", "/root", "/var/log"}

\* sanitizeMetricKey: separators at the ends are dropped, and nothing at all is "root".
DiskKey(path) ==
  CASE path = "/" -> "root" [] path = "/root" -> "root" [] OTHER -> "var_log"

\* collectDisk: the usage of each path that can be read, under its key.
collectDisk(t, in) ==
  LET paths == IF t.paths = <<>> THEN <<"/">> ELSE t.paths
      Reading(m, p) == IF p \in in.broken THEN m ELSE Put(m, DiskKey(p), p)
  IN  FoldLeft(Reading, <<>>, paths)

\* Run of basereport: the CPU is left out if the context was cancelled while it was
\* sampled; a part that is off or fails is left out.
BasereportEvent(t, in, done) ==
  LET parts == (t.parts \ in.broken) \cup (IF done \/ "cpu" \in in.broken THEN {} ELSE {"cpu"})
      usage == IF "disk" \in t.parts THEN collectDisk(t, in) ELSE <<>>
  IN  Event(Over(usage, [p \in parts \ {"disk"} |-> "n"]))

\* Run of selfstats and of gatherupbeat.
UptimeEvent == Event([uptime_sec |-> "n"])

\* Ping and Exceptions say what the events of ping and exceptionbeat report.
PingEvents == {[Event(<<>>) EXCEPT !.error = failed] : failed \in BOOLEAN}

\* The events that Run may send; none if it returns without one.
Events(t, in, done) ==
  CASE t.typ \in {"tcp", "udp", "http"} -> {ProbeEvent(t, in, done)}
    [] t.typ = "script" -> ScriptEvents(t, in, done)
    [] t.typ = "metricbeat" -> MetricbeatEvents(t, in, done)
    [] t.typ = "dmesg" -> {DmesgEvent(in, done)}
    [] t.typ = "processbeat" -> IF ProcessbeatSilent(t, in) THEN {} ELSE ProcessbeatEvents(t, in)
    [] t.typ = "socketsnapshot" -> {SocketEvent(in)}
    [] t.typ = "basereport" -> {BasereportEvent(t, in, done)}
    [] t.typ \in {"selfstats", "gather_up_beat"} -> {UptimeEvent}
    [] t.typ = "ping" -> PingEvents
    [] t.typ = "exceptionbeat" -> {Event(<<>>)}
=============================================================================
