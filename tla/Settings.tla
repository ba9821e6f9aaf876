------------------------------ MODULE Settings ------------------------------
(***************************************************************************)
(* How monitorbeat turns its configuration file into tasks and outputs:    *)
(* defaults (configs), the builders of the tasks (tasks/factory.go) and    *)
(* the outputs that main registers with the engine.                        *)
(*                                                                         *)
(* An entry of the file is a record with the fields of all types of tasks. *)
(* Zero, "" and NoIdent are what YAML leaves in a field that is not given. *)
(* An ident is the string "type:id", written as the pair of the two; an    *)
(* ident given in the file may be that of another entry.  Times are in     *)
(* seconds, sizes in the file in thousandths of a megabyte, as it may ask  *)
(* for a fraction, and small enough that their bytes fit in 63 bits.       *)
(* Periods, which only the daemon reads, and the other fields of ping,     *)
(* keyword and exceptionbeat, which Ping, Keyword and Exceptions have, are *)
(* left out.                                                               *)
(*                                                                         *)
(* A definition whose comment begins with "Mutant" is a wrong form of the  *)
(* one after it, against which the properties are tried.                   *)
(***************************************************************************)
EXTENDS Integers, Sequences, SequencesExt

NoIdent == <<"", 0>>

\* The order in which AllTaskConfigs walks the sections of the file.
Sections ==
  <<"basereport", "ping", "tcp", "udp", "http", "keyword", "script", "exceptionbeat",
    "processbeat", "socketsnapshot", "selfstats", "gather_up_beat", "dmesg", "metricbeat">>

\* The types as strings are ordered; none begins another.
Alphabet ==
  <<"basereport", "dmesg", "exceptionbeat", "gather_up_beat", "http", "keyword",
    "metricbeat", "ping", "processbeat", "script", "selfstats", "socketsnapshot",
    "tcp", "udp">>

Rank(typ) == CHOOSE i \in DOMAIN Alphabet : Alphabet[i] = typ

\* An id as it is written: the characters of "%d", of which "-" comes before the digits.
Digits[n \in Nat] == IF n < 10 THEN <<n>> ELSE Append(Digits[n \div 10], n % 10)
Written(id) == IF id < 0 THEN <<-1>> \o Digits[-id] ELSE Digits[id]

\* The order of strings: k is the first place where t differs from s.
Precedes(s, t) ==
  \E k \in DOMAIN t :
    /\ \A i \in 1 .. (k - 1) : i \in DOMAIN s /\ s[i] = t[i]
    /\ k \notin DOMAIN s \/ (s[k] # t[k] /\ s[k] < t[k])

\* The order of the tree map, whose keys are the idents: "tcp:10" comes before "tcp:2".
Before(i, j) ==
  \/ Rank(i[1]) < Rank(j[1])
  \/ i[1] = j[1] /\ Precedes(Written(i[2]), Written(j[2]))

IfUnset(v, unset, default) == IF v = unset THEN default ELSE v
IfNotPositive(n, default) == IF n <= 0 THEN default ELSE n

fillDefaults(e) ==
  LET id == IfUnset(e.id, 0, 1)
  IN  [e EXCEPT !.id = id, !.ident = IfUnset(@, NoIdent, <<e.typ, id>>)]

\* Mutant: the zero of an http.Client means that it never gives up.
TimeoutAsGiven(e) == e.timeout

\* The timeouts that Clean gives a default.
CleanTimeout(e) ==
  CASE e.typ = "metricbeat" -> IfNotPositive(e.timeout, 10)
    [] e.typ = "script" -> IfNotPositive(e.timeout, 30)
    [] OTHER -> e.timeout

\* The Clean methods of the tasks; none of them ever fails.
CleanTask(e) ==
  [fillDefaults(e) EXCEPT
    !.timeout = CleanTimeout(e),
    !.code = IF e.typ = "http" THEN IfUnset(@, 0, 200) ELSE @,
    !.topN = IF e.typ = "processbeat" THEN IfNotPositive(@, 20) ELSE @,
    !.format = IF e.typ \in {"script", "metricbeat"} THEN IfUnset(@, "", "prometheus") ELSE @]

Clean(entries) == [i \in DOMAIN entries |-> CleanTask(entries[i])]

\* The elements of s that are in S, in their order: a loop that appends them.
Among(s, S) == FoldLeft(LAMBDA acc, x : IF x \in S THEN Append(acc, x) ELSE acc, <<>>, s)

GetTaskConfigListByType(entries, typ) == Among(entries, {e \in ToSet(entries) : e.typ = typ})

AllTaskConfigs(entries) ==
  FlattenSeq([i \in DOMAIN Sections |-> GetTaskConfigListByType(entries, Sections[i])])

\* The builders of script, metricbeat and keyword insist on a command, on a URL and on a
\* file (target), that of keyword on a pattern that compiles as well.
Build(e) ==
  /\ e.typ \in {"script", "metricbeat", "keyword"} => e.target
  /\ e.typ = "keyword" => e.regex = "match"

\* The tasks main adds to the scheduler: what is refused is only logged, and keyword
\* tasks go to a scheduler of their own.
buildAllTasks(entries) ==
  LET all == AllTaskConfigs(Clean(entries))
  IN  Among(all, {e \in ToSet(all) : Build(e) /\ e.typ # "keyword"})

(***************************************************************************)
(* Outputs.                                                                *)
(***************************************************************************)

\* Mutant: the check for zero alone.
CleanSizesZero(c) == [c EXCEPT !.maxSize = IfUnset(@ \div 1000, 0, 50)]

\* The sizes of what is registered are in megabytes.
CleanSizes(c) ==
  [c EXCEPT !.timeout = IfNotPositive(@, 5), !.retryMax = IF @ < 0 THEN 0 ELSE @,
            !.maxSize = IfNotPositive(@ \div 1000, 50), !.maxBackups = IF @ < 0 THEN 0 ELSE @]

\* buildOutput: an unknown type, parameters that decodeHTTPOutputConfig cannot
\* decode, a fraction of a megabyte among them, and a missing URL are refused.
Refused(o) ==
  \/ o.typ \notin {"console", "file", "http"}
  \/ o.typ = "http" /\ (o.malformed \/ o.maxSize % 1000 # 0 \/ ~o.target)

\* The size given to a file output, cut down to whole megabytes: none, for a fraction of one.
FileSize(o) == [o EXCEPT !.maxSize = IF @ <= 0 THEN 100 ELSE @ \div 1000]

Registered(o) ==
  CASE o.typ = "http" -> CleanSizes(o)
    [] o.typ = "file" -> FileSize(o)
    [] OTHER -> o

\* Init fails for a file output without a path, or one that cannot be opened.
InitFails(o) == o.typ = "file" /\ (~o.target \/ o.malformed)

\* wireOutputs: what it registers with the engine, and whether main goes on.
wireOutputs(outs) ==
  LET built == Among(outs, {o \in ToSet(outs) : ~Refused(o)})
      bad == {i \in DOMAIN built : InitFails(built[i])}
      ok == IF bad = {} THEN built ELSE SubSeq(built, 1, Min(bad) - 1)
  IN  [registered |-> [i \in DOMAIN ok |-> Registered(ok[i])],
       err |-> bad # {}]
=============================================================================
