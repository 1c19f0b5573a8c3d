---------------------------- MODULE MCDispatcher ----------------------------
(***************************************************************************)
(* Instances of Dispatcher for TLC.                                        *)
(***************************************************************************)
EXTENDS Dispatcher, TLC

\* Ids, threads and callers are only compared for equality.
Symmetric ==
  Permutations(Ids) \cup Permutations(Threads) \cup Permutations(Callers)
=============================================================================
