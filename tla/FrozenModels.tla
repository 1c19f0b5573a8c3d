---------------------------- MODULE FrozenModels ----------------------------
(***************************************************************************)
(* What freezing a model promises to a run, with no mention of the         *)
(* registry, the snapshots or the cache of adapters.                       *)
(*                                                                         *)
(*  - The service offers one version at the end of a start-up at most.     *)
(*    Each of its parts is what the part's file held at some moment of     *)
(*    that start-up: the version that the files make up if nobody changed  *)
(*    them meanwhile, and perhaps a mixture of two if somebody did.        *)
(*  - A run is accepted with one version that was offered, the parts of    *)
(*    which belong together as far as they did when they were offered.     *)
(*  - If the run predicts, it predicts with that version, whatever has     *)
(*    become of the model since.                                           *)
(*                                                                         *)
(* ModelBundles is shown to implement this specification.                  *)
(***************************************************************************)
CONSTANTS
  Runs,      \* ids of runs
  Parts,     \* the parts of a model
  Contents,  \* what a part may be
  None       \* "no version"; a file that cannot be read

VARIABLES
  starting,  \* the service is being built
  seen,      \* what each file has held since that began
  offered,   \* versions that have been offered
  bundle,    \* the version each run was accepted with
  used       \* the version each run predicted with

files == <<starting, seen>>
promised == <<files, offered, bundle, used>>

Versions == [Parts -> Contents]

\* The files as they are when the service begins to start.
Found == {[p \in Parts |-> {x[p]}] : x \in [Parts -> Contents \cup {None}]}

Init ==
  /\ starting = TRUE
  /\ seen \in Found
  /\ offered = {}
  /\ bundle = [r \in Runs |-> None]
  /\ used = [r \in Runs |-> None]

StartUp ==
  /\ starting' = TRUE
  /\ seen' \in Found
  /\ UNCHANGED <<offered, bundle, used>>

\* Afterwards nobody looks at the files to offer a version.
Change(p) ==
  /\ starting
  /\ \E x \in Contents \cup {None} : seen' = [seen EXCEPT ![p] = @ \cup {x}]
  /\ UNCHANGED <<starting, offered, bundle, used>>

Offer ==
  /\ starting
  /\ starting' = FALSE
  /\ \/ UNCHANGED offered
     \/ \E v \in Versions :
          /\ \A p \in Parts : v[p] \in seen[p]
          /\ offered' = offered \cup {v}
  /\ UNCHANGED <<seen, bundle, used>>

Accept(r) ==
  /\ bundle[r] = None
  /\ \E v \in offered : bundle' = [bundle EXCEPT ![r] = v]
  /\ UNCHANGED <<files, offered, used>>

Predict(r) ==
  /\ bundle[r] # None
  /\ used[r] = None
  /\ used' = [used EXCEPT ![r] = bundle[r]]
  /\ UNCHANGED <<files, offered, bundle>>

Next ==
  \/ StartUp
  \/ \E p \in Parts : Change(p)
  \/ Offer
  \/ \E r \in Runs : Accept(r) \/ Predict(r)

Spec == Init /\ [][Next]_promised
=============================================================================
