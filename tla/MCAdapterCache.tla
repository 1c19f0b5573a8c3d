--------------------------- MODULE MCAdapterCache ---------------------------
(***************************************************************************)
(* An instance of AdapterCache for TLC: two threads on a cache of two      *)
(* adapters for three keys.  Under fairness threads are not permuted.      *)
(***************************************************************************)
EXTENDS AdapterCache
=============================================================================
