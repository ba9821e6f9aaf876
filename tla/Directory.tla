----------------------------- MODULE Directory -----------------------------
(***************************************************************************)
(* What the agent registry promises, without the handlers, the clean loop  *)
(* and the requests on their way: for every host the second it was last    *)
(* heard of, written down at most Slack seconds late, and kept for at      *)
(* least Ttl seconds.  Agents implements it.                               *)
(***************************************************************************)
EXTENDS Integers

CONSTANTS
  Hosts,
  Ttl,   \* seconds a host is kept for
  Slack  \* seconds between hearing of a host and writing it down

Unknown == -1

VARIABLES
  clock, \* in seconds
  entry  \* the second a host was last heard of, or Unknown

Init == clock = 0 /\ entry = [h \in Hosts |-> Unknown]

Pass == clock' = clock + 1 /\ UNCHANGED entry

\* A host was heard of at second t.
Hear(h, t) ==
  /\ t >= 0 /\ t <= clock /\ clock - t <= Slack
  /\ entry' = [entry EXCEPT ![h] = t]
  /\ UNCHANGED clock

\* All hosts not heard of since second c, which is Ttl ago, are forgotten.
Forget(c) ==
  /\ c <= clock - Ttl
  /\ entry' = [h \in Hosts |-> IF entry[h] < c THEN Unknown ELSE entry[h]]
  /\ UNCHANGED clock

Next ==
  \/ Pass
  \/ \E h \in Hosts, t \in 0 .. clock : Hear(h, t)
  \/ \E c \in 0 .. clock : Forget(c)

Spec == Init /\ [][Next]_<<clock, entry>>
=============================================================================
