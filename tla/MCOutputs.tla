----------------------------- MODULE MCOutputs -----------------------------
(* Instances of Outputs for TLC. *)
EXTENDS Outputs

\* The file output before the HTTP output.
FileThenHttp == <<"file", "http">>
=============================================================================
