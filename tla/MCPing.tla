------------------------------- MODULE MCPing -------------------------------
(* Instances of Ping for TLC. *)
EXTENDS Ping

CONSTANTS r1, r2, near, twin

\* One other process has the next number; the other's is the agent's plus 2^16.
MCPid == [b \in Others |-> IF b = near THEN Self + 1 ELSE Self + 65536]
=============================================================================
