---------------------------- MODULE MCExceptions ----------------------------
(* Instances of Exceptions for TLC. *)
EXTENDS Exceptions

CONSTANTS a, b, both, black, f

\* A partition that is all right, one that is read-only and a full one.
SomeDisks ==
  {[ro |-> FALSE, used |-> 90, free |-> 10], [ro |-> TRUE, used |-> 91, free |-> 10],
   [ro |-> FALSE, used |-> 10, free |-> 9]}

SomeChecks == {{"ro", "space"}, {"core"}, {"oom"}}
=============================================================================
