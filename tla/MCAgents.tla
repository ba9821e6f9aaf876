------------------------------ MODULE MCAgents ------------------------------
(* Instances of Agents for TLC. *)
EXTENDS Agents

CONSTANTS p, q, h

\* A process and the one that follows it on the same host.
OneHost == [x \in Procs |-> h]
=============================================================================
