--------------------------- MODULE MCAgentControl ---------------------------
(***************************************************************************)
(* Instances of AgentControl for TLC.  People are not permuted: the run    *)
(* checks a liveness property.                                             *)
(***************************************************************************)
EXTENDS AgentControl

=============================================================================
