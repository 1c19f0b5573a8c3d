---------------------------- MODULE MCQueryAudit ----------------------------
\* An instance of QueryAudit for TLC: queries and exports of one job.
EXTENDS QueryAudit, TLC

Symmetric == Permutations(Queries) \cup Permutations(Exports)
=============================================================================
