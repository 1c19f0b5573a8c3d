-------------------------- MODULE MCKnowledgeIndex --------------------------
(***************************************************************************)
(* Instances of KnowledgeIndex for TLC.                                    *)
(***************************************************************************)
EXTENDS KnowledgeIndex, TLC

\* Identifiers, contents and names of files are only compared for equality.
\* Callers are not interchangeable where only one of them may reindex.
Symmetric ==
  Permutations(Docs) \cup Permutations(Contents) \cup Permutations(Generations)
=============================================================================
