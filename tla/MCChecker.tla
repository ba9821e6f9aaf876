----------------------------- MODULE MCChecker -----------------------------
(* Instances of Checker for TLC. *)
EXTENDS Checker

Entry(typ, line) ==
  [typ |-> typ, line |-> line, id |-> 0, ident |-> NoIdent, timeout |-> 0, target |-> TRUE,
   expect |-> FALSE, code |-> 0, format |-> "", names |-> {}, regex |-> "", topN |-> 0,
   parts |-> {}, paths |-> <<>>]
Out(typ) ==
  [typ |-> typ, target |-> TRUE, malformed |-> FALSE, timeout |-> 0, retryMax |-> -1,
   maxSize |-> -1000, maxBackups |-> -1]

\* Defaults, ids that differ or not, or have two digits, an ident of another entry, entries
\* that cannot be built or are not for this scheduler; outputs that are unknown,
\* incomplete or cannot be opened, and sizes that are no whole megabytes.
SmallFiles == {
  [tasks |-> <<Entry("tcp", 1), [Entry("tcp", 2) EXCEPT !.id = 1], [Entry("udp", 3) EXCEPT !.expect = TRUE]>>,
   outputs |-> <<Out("console"), Out("kafka"), Out("http")>>],
  [tasks |-> <<[Entry("udp", 1) EXCEPT !.ident = <<"tcp", 1>>], Entry("tcp", 2), Entry("http", 3)>>,
   outputs |-> <<[Out("http") EXCEPT !.maxSize = 1500], [Out("file") EXCEPT !.maxSize = 500]>>],
  [tasks |-> <<[Entry("metricbeat", 1) EXCEPT !.id = 2], [Entry("script", 2) EXCEPT !.target = FALSE],
               [Entry("script", 3) EXCEPT !.format = "custom"]>>,
   outputs |-> <<>>],
  [tasks |-> <<[Entry("processbeat", 1) EXCEPT !.topN = 2, !.names = {"a", "b"}, !.regex = "match"],
               [Entry("processbeat", 2) EXCEPT !.id = 2, !.regex = "malformed"], Entry("dmesg", 3)>>,
   outputs |-> <<[Out("http") EXCEPT !.malformed = TRUE]>>],
  [tasks |-> <<Entry("gather_up_beat", 1), Entry("socketsnapshot", 2),
               [Entry("basereport", 3) EXCEPT !.parts = {"mem", "disk", "net"}, !.paths = <<"/", "/root">>]>>,
   outputs |-> <<[Out("http") EXCEPT !.timeout = 3, !.retryMax = 2], Out("console")>>],
  [tasks |-> <<[Entry("selfstats", 1) EXCEPT !.id = 2], [Entry("selfstats", 2) EXCEPT !.id = 10],
               Entry("ping", 3), [Entry("keyword", 4) EXCEPT !.regex = "match", !.ident = <<"ping", 1>>]>>,
   outputs |-> <<Out("console"), [Out("file") EXCEPT !.target = FALSE], Out("http")>>]}

Line(kind, key, val, label) == [kind |-> kind, key |-> key, val |-> val, label |-> label]

UpTo(S, n) == UNION {[1 .. k -> S] : k \in 0 .. n}

SmallTexts == [
  custom |-> UpTo({Line("number", "k", 1, ""), Line("text", "k", "x", ""),
                   Line("text", "hostname", "y", "")}, 2)
             \cup {<<Line("number", "k", 2, ""), Line("blank", "", 0, ""), Line("number", "k", 1, "")>>,
                   <<Line("number", "k", 1, ""), Line("long", "", 0, ""), Line("number", "k", 2, "")>>},
  prometheus |-> UpTo({Line("number", "k", 1, "a"), Line("compound", "h", 4, "c")}, 2)
                 \cup {<<Line("number", "k", 1, "a"), Line("number", "j", 2, "b")>>,
                       <<Line("number", "k", 1, "a"), Line("number", "k", 3, "")>>,
                       <<Line("number", "k", 1, "a"), Line("text", "k", "x", "")>>}]

\* A line that matches two patterns and one that matches one, repeated or not.
SmallLogs ==
  LET x == [text |-> "x", matches |-> {1, 2}]
      y == [text |-> "y", matches |-> {2}]
  IN  UpTo({x, y}, 1) \cup {<<x, x, x>>, <<x, y, x>>, <<x, y>>}

Proc(pid, name, cpu, match, gone) == [pid |-> pid, name |-> name, cpu |-> cpu, match |-> match, gone |-> gone]
AllProcs == {Proc(1, "a", 1, TRUE, FALSE), Proc(2, "b", 1, TRUE, FALSE), Proc(3, "a", 2, TRUE, FALSE),
             Proc(4, "a", 3, FALSE, FALSE), Proc(5, "c", 3, TRUE, FALSE), Proc(6, "b", 3, TRUE, TRUE)}
SmallTables == {AllProcs \ S : S \in {{p, q} : p, q \in {x \in AllProcs : x.cpu < 3}}} \cup {AllProcs, {}}
=============================================================================
