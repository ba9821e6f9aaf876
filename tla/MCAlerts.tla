------------------------------ MODULE MCAlerts ------------------------------
(* Instances of Alerts for TLC. *)
EXTENDS Alerts

CONSTANT f

\* Rules change between evaluations only; users acknowledge at any moment.
Serial ==
  [confs |-> [enabled : {TRUE}, expr : {"e1", "e2"}, duration : {0, 2}]
               \cup [enabled : {FALSE}, expr : {"e1"}, duration : {2}],
   silences |-> {0, 2}, overlap |-> FALSE, dbFails |-> FALSE,
   maxRestarts |-> 0, maxTime |-> 4]

\* Statements fail, requests overlap an evaluation, the process restarts.
Faulty ==
  [confs |-> [enabled : {TRUE}, expr : {"e1"}, duration : {1}],
   silences |-> {1}, overlap |-> TRUE, dbFails |-> TRUE,
   maxRestarts |-> 1, maxTime |-> 1]

SerialAndFaulty == {Serial, Faulty}
=============================================================================
