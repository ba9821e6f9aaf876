------------------------------ MODULE MCDaemon ------------------------------
(* Instances of Daemon for TLC. *)
EXTENDS Daemon

CONSTANTS a, b

Only(i, p) == [x \in Idents |-> IF x = i THEN p ELSE Absent]
Both(p, q) == [x \in Idents |-> IF x = a THEN p ELSE q]

\* Going from one to the other and back keeps a task with another period, adds
\* one and removes one.
TwoConfigs == {Only(a, 1), Both(2, 1)}

\* One task replaced by another.
SwapConfigs == {Only(a, 1), Only(b, 1)}

\* A single task, configured or not.
OneTask == {Only(a, 1), NoTasks}
=============================================================================
