--------------------------- MODULE MCRunPipeline ---------------------------
(***************************************************************************)
(* Instances of RunPipeline for TLC.                                       *)
(***************************************************************************)
EXTENDS RunPipeline, TLC

CONSTANTS r1, r2, j1, w1, w2, c1

\* Runs of one job: a batch larger than a queue of one, a duplicate delivery, a
\* review of a finished run, a job whose runs end differently.
OneJob == [r \in Runs |-> j1]

\* Run identifiers, threads and handlers are interchangeable: all runs belong
\* to one job and no action compares identifiers.
Symmetric ==
  Permutations(Runs) \cup Permutations(Workers) \cup Permutations(Clients)
=============================================================================
