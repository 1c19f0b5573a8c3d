---------------------------- MODULE MCComponents ----------------------------
(***************************************************************************)
(* Instances for TLC of the components that share no variable with each    *)
(* other: RunInputs (boxes, masks and replacements), ModelBundles (frozen  *)
(* models), BackupRestore, Identity, TokenBuckets and QueryAudit.          *)
(*                                                                         *)
(* A state of one never depends on a state of another, so each behaviour   *)
(* takes the steps of one of them, the one that is awake: interleaving     *)
(* them would multiply the states and reach no other value of the          *)
(* variables of any of them.                                               *)
(***************************************************************************)
EXTENDS RunInputs, ModelBundles, BackupRestore, Identity, TokenBuckets,
        QueryAudit, TLC

CONSTANTS
  t1, p1, k1, k2,
  MaxCalls,   \* bound on the queries and exports of a behaviour
  MaxEpisode  \* bound on the ticks and calls of consume together

VARIABLE awake

\* Backups and restorations: a file in the first of two directories.
First == <<1>>

\* Identity: two credentials of one principal, one of which expires.
Parents == (p1 :> t1) @@ (k1 :> p1) @@ (k2 :> p1)
Expiries == (k1 :> 1) @@ (k2 :> 3)
OneTenant == {t1}
OnePrincipal == {p1}
TwoCredentials == {k1, k2}

-----------------------------------------------------------------------------
(* Ids are only compared for equality, so those of a set are taken in one  *)
(* order.                                                                  *)

AnyOrder(ids) == CHOOSE s \in SetToSeqs(ids) : TRUE

TakenInOrder(taken, seq) ==
  \A j \in DOMAIN seq : seq[j] \in taken => \A i \in 1..j : seq[i] \in taken

RunOrder == AnyOrder(Runs)
KeyOrder == AnyOrder(Keys)
QueryOrder == AnyOrder(Queries)
ExportOrder == AnyOrder(Exports)

TakenRuns ==
  {r \in Runs : \/ run[r].state # "absent" \/ copy[r] # None
                \/ \E c \in Callers : my[c].child = r}

\* Boxes and masks meet in the rows of runs only: a behaviour has a mask or an
\* edit of the boxes.
BoxesAtWork == revision > 0 \/ \E c \in Callers : pc[c] \in {"looked", "replace", "create"}
MaskUploaded == staged # {} \/ \E m \in Masks : mask[m].state # "none"

InputsInOrder ==
  /\ TakenInOrder(TakenRuns', RunOrder)
  /\ ~(BoxesAtWork' /\ MaskUploaded')

\* One credential is used while the other one is issued beside it.
OneInUse == \A r \in Requests : request[r] # NoRequest => request[r].with = k1

TakenKeys ==
  {calling[t].key : t \in Busy} \cup {decisions[i].key : i \in DOMAIN decisions}

BucketsInOrder ==
  /\ TakenInOrder(TakenKeys', KeyOrder)
  /\ (monotonic + Len(decisions) + Cardinality(Busy))' <= MaxEpisode

Asked == {q \in Queries : asking[q] # "no"}
Exported == {e \in Exports : exporting[e] # "no"}

AuditInOrder ==
  /\ Cardinality(Asked') + Cardinality(Exported') <= MaxCalls
  /\ TakenInOrder(Asked', QueryOrder)
  /\ TakenInOrder(Exported', ExportOrder)

-----------------------------------------------------------------------------
ComponentsInit ==
  /\ Init /\ BundleInit /\ ArchiveInit /\ IdentityInit /\ BucketInit /\ AuditInit
  /\ awake \in {"inputs", "bundles", "archive", "identity", "buckets", "audit"}
  /\ awake # "bundles" => /\ declared = CHOOSE d \in Digests : TRUE
                          /\ source = [p \in Parts |-> declared]

Asleep(who, state) == awake = who \/ (awake # who /\ UNCHANGED state)

ComponentsNext ==
  /\ \/ awake = "inputs" /\ Next /\ InputsInOrder
     \/ awake = "bundles" /\ BundleNext
     \/ awake = "archive" /\ ArchiveNext
     \/ awake = "identity" /\ IdentityNext /\ OneInUse'
     \/ awake = "buckets" /\ BucketNext /\ BucketsInOrder
     \/ awake = "audit" /\ AuditNext /\ AuditInOrder
  /\ Asleep("inputs", vars) /\ Asleep("bundles", bundleVars)
  /\ Asleep("archive", archiveVars) /\ Asleep("identity", identityVars)
  /\ Asleep("buckets", bucketVars) /\ Asleep("audit", auditVars)
  /\ UNCHANGED awake

ComponentsSpec ==
  ComponentsInit /\ [][ComponentsNext]_<<vars, bundleVars, archiveVars, identityVars,
                                         bucketVars, auditVars, awake>>
=============================================================================
