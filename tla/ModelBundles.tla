---------------------------- MODULE ModelBundles ----------------------------
(***************************************************************************)
(* How a model is frozen when a run is created and opened when the run is  *)
(* executed.  Operators keep the model's files and the registry's          *)
(* declaration, and may change them at any time.  The service registers    *)
(* them one after the other when it starts, compares the files with that   *)
(* registration when a run is created, and copies what it read into a      *)
(* store that is addressed by content.  From then on the run refers to the *)
(* store alone.                                                            *)
(*                                                                         *)
(* A model has numbered parts: configuration, model card and adapter code, *)
(* which are read in this order to be frozen, and the weights, which come  *)
(* last and are copied while they are hashed.  A start-up reads the code   *)
(* first.  One model is modelled, and a digest stands for the content it   *)
(* is the digest of; the other fields of the declaration, which a manifest *)
(* repeats, are left out.  Predictions happen one at a time, so that a     *)
(* lease and the prediction under it are one step; what threads may do to  *)
(* the cache of adapters meanwhile is AdapterCache.                        *)
(***************************************************************************)
EXTENDS Naturals, FiniteSets

CONSTANTS
  RunIds,        \* ids of runs
  Creators,    \* requests that create runs
  Executors,   \* workers that execute them
  LastPart,    \* the number of parts
  Digests,     \* contents that a part may have
  Null,        \* "no value"; the content of a file that cannot be read
  MaxWarm,     \* bound of the cache of adapters
  MaxEdits,    \* bound on changes that operators make
  MaxTampers,  \* bound on snapshots that somebody damages
  MaxRestarts  \* bound on crashes and restarts

ASSUME BundleAssumptions ==
  /\ LastPart \in Nat \ {0}
  /\ Null \notin RunIds \cup Digests \cup [1..LastPart -> Digests]
  /\ MaxWarm \in Nat \ {0}
  /\ {MaxEdits, MaxTampers, MaxRestarts} \subseteq Nat

Parts == 1..LastPart
Weights == LastPart
Bundles == [Parts -> Digests]

VARIABLES
  (* what operators keep *)
  source,      \* the content of each part's file
  declared,    \* the digest of the weights in the registry file
  (* what the service remembers *)
  registered,  \* the digests it has registered
  ready,       \* whether the model is READY
  reads,       \* how many parts the start-up has read
  warm,        \* cached adapters: the key and what each was built from
  (* the store *)
  snapshot,    \* the file of each part and digest
  manifest,    \* the manifest of each bundle
  (* runs *)
  stage,       \* what has become of each run
  bundle,      \* the reference in its configuration
  used,        \* what the adapter that it predicted with was built from
  (* the processes *)
  at,          \* each creator's next step, and the part it works on
  bytes,       \* what it has read
  doing,       \* the run of each executor
  opened,      \* the verified bytes that each executor holds
  (* history, and what the bounds count *)
  seen,        \* what each file has held since the start-up began, while it lasts
  offered,     \* bundles that a process has been ready to freeze
  edits, tampers, restarts

operated == <<source, declared>>
memory == <<registered, ready, warm>>
store == <<snapshot, manifest>>
runs == <<stage, bundle, used>>
creation == <<at, bytes>>
execution == <<doing, opened>>
startUp == <<reads, seen, offered>>
counted == <<edits, tampers, restarts>>
bundleVars ==
  <<operated, memory, store, runs, creation, execution, startUp, counted>>

-----------------------------------------------------------------------------
Contents == Digests \cup {Null}
FileStates == {"absent", "whole", "damaged"}

Unread == [p \in Parts |-> Null]
Idle == [step |-> "idle", part |-> 1]

\* The service is being built: nothing is served before it has read all parts.
Starting == reads < LastPart

\* When a start-up reads a part: the adapter's code first, the weights last.
Turn(p) == IF p = Weights THEN LastPart ELSE IF p = LastPart - 1 THEN 1 ELSE p + 1

\* What is known of the model once the declaration has been read.
Declared(digest) == [Unread EXCEPT ![Weights] = digest]

\* A bundle can be read from the store.
Readable(b) ==
  /\ manifest[b] = "whole"
  /\ \A p \in Parts : snapshot[p][b[p]] = "whole"

BundleInit ==
  /\ source \in [Parts -> Digests]
  /\ declared \in Digests
  /\ registered = Declared(declared)
  /\ ready = FALSE
  /\ reads = 0
  /\ warm = {}
  /\ snapshot = [p \in Parts |-> [d \in Digests |-> "absent"]]
  /\ manifest = [b \in Bundles |-> "absent"]
  /\ stage = [r \in RunIds |-> "none"]
  /\ bundle = [r \in RunIds |-> Null]
  /\ used = [r \in RunIds |-> Null]
  /\ at = [c \in Creators |-> Idle]
  /\ bytes = [c \in Creators |-> Unread]
  /\ doing = [e \in Executors |-> Null]
  /\ opened = [e \in Executors |-> Unread]
  /\ seen = [p \in Parts |-> {source[p]}]
  /\ offered = {}
  /\ edits = 0
  /\ tampers = 0
  /\ restarts = 0

-----------------------------------------------------------------------------
(* refresh, when the service is built: _parse_entry.                       *)

\* Faulty variant: the file of the weights is taken for what is declared.
RegisterPart_Trusting(p) ==
  /\ Starting
  /\ Turn(p) = reads + 1
  /\ reads' = reads + 1
  /\ IF p = Weights
     THEN /\ registered' = registered
          /\ ready' = (registered \in Bundles)
          /\ offered' = IF ready' THEN offered \cup {registered} ELSE offered
     ELSE /\ registered' = [registered EXCEPT ![p] = source[p]]
          /\ UNCHANGED <<ready, offered>>
  /\ UNCHANGED <<operated, warm, store, runs, creation, execution, seen, counted>>

\* Each file is read once, at its turn, and nothing is compared with what the
\* files read before have become; the weights only with the digest declared.
RegisterPart(p) ==
  /\ Starting
  /\ Turn(p) = reads + 1
  /\ reads' = reads + 1
  /\ IF p = Weights
     THEN /\ registered' = registered
          /\ ready' = (registered \in Bundles /\ source[p] = registered[p])
          /\ offered' = IF ready' THEN offered \cup {registered} ELSE offered
     ELSE /\ registered' = [registered EXCEPT ![p] = source[p]]
          /\ UNCHANGED <<ready, offered>>
  /\ UNCHANGED <<operated, warm, store, runs, creation, execution, seen, counted>>

-----------------------------------------------------------------------------
(* validate_bundle, when a run is created.                                 *)

AtStep(c, step) == at[c].step = step

Advance(c, step, part) == at' = [at EXCEPT ![c] = [step |-> step, part |-> part]]

Refuse(c) ==
  /\ at' = [at EXCEPT ![c] = Idle]
  /\ bytes' = [bytes EXCEPT ![c] = Unread]

\* mark_unavailable: until the next start nobody can freeze the model.
MarkUnavailable == ready' = FALSE /\ UNCHANGED <<registered, warm>>

\* The file appears under its name with all of its content, unless it is there.
PublishedPart(p, d) ==
  snapshot' = [snapshot EXCEPT ![p][d] = IF @ = "absent" THEN "whole" ELSE @]

\* The registration is read under the lock; a READY one is complete.
Validate(c) ==
  /\ AtStep(c, "idle")
  /\ ready
  /\ Advance(c, "read", 1)
  /\ UNCHANGED <<operated, memory, store, runs, bytes, execution, startUp,
                 counted>>

\* The configuration, the card and the code are read once; a file that cannot
\* be read makes the model unavailable.
ReadPart(c) ==
  LET p == at[c].part
  IN  /\ AtStep(c, "read")
      /\ p # Weights
      /\ IF source[p] = Null
         THEN Refuse(c) /\ MarkUnavailable
         ELSE /\ bytes' = [bytes EXCEPT ![c][p] = source[p]]
              /\ Advance(c, "read", p + 1)
              /\ UNCHANGED memory
      /\ UNCHANGED <<operated, store, runs, execution, startUp, counted>>

\* Weights of another content than registered, or a snapshot that is damaged,
\* make the model unavailable, and so does an error of the file system.
CopyWeightsFails(c) ==
  /\ AtStep(c, "read")
  /\ at[c].part = Weights
  /\ Refuse(c)
  /\ MarkUnavailable
  /\ UNCHANGED <<operated, store, runs, execution, startUp, counted>>

\* publish: what has been copied has the expected digest and is linked at a
\* name that is free, or else is compared with what is there.
CopyWeights(c) ==
  /\ AtStep(c, "read")
  /\ at[c].part = Weights
  /\ source[Weights] = registered[Weights]
  /\ snapshot[Weights][registered[Weights]] # "damaged"
  /\ PublishedPart(Weights, registered[Weights])
  /\ bytes' = [bytes EXCEPT ![c][Weights] = registered[Weights]]
  /\ Advance(c, "compare", 1)
  /\ UNCHANGED <<operated, memory, manifest, runs, execution, startUp,
                 counted>>

\* Faulty variant: the weights have been compared when they were copied, and the
\* rest is taken as it was read.
Compare_WeightsOnly(c) ==
  /\ AtStep(c, "compare")
  /\ Advance(c, "publish", 1)
  /\ UNCHANGED <<operated, memory, store, runs, bytes, execution, startUp,
                 counted>>

\* All digests are compared with the registration.
Compare(c) ==
  /\ AtStep(c, "compare")
  /\ IF bytes[c] = registered
     THEN Advance(c, "publish", 1) /\ UNCHANGED <<bytes, memory>>
     ELSE Refuse(c) /\ MarkUnavailable
  /\ UNCHANGED <<operated, store, runs, execution, startUp, counted>>

\* Faulty variant: the file is written under its name, and may stay unfinished.
PublishPart_InPlace(c) ==
  LET p == at[c].part
      d == bytes[c][p]
  IN  /\ AtStep(c, "publish")
      /\ p # Weights
      /\ snapshot[p][d] # "damaged"
      /\ \/ /\ PublishedPart(p, d)
            /\ Advance(c, "publish", p + 1)
            /\ UNCHANGED bytes
         \/ /\ snapshot[p][d] = "absent"
            /\ snapshot' = [snapshot EXCEPT ![p][d] = "damaged"]
            /\ Refuse(c)
      /\ UNCHANGED <<operated, memory, manifest, runs, execution, startUp,
                     counted>>

\* publish_bytes: the bytes that have been compared are the bytes published.
PublishPart(c) ==
  LET p == at[c].part
      d == bytes[c][p]
  IN  /\ AtStep(c, "publish")
      /\ p # Weights
      /\ snapshot[p][d] # "damaged"
      /\ PublishedPart(p, d)
      /\ Advance(c, "publish", p + 1)
      /\ UNCHANGED <<operated, memory, manifest, runs, bytes, execution,
                     startUp, counted>>

\* publish_bundle_manifest, when all parts have been published.
PublishManifest(c) ==
  /\ AtStep(c, "publish")
  /\ at[c].part = Weights
  /\ manifest[bytes[c]] # "damaged"
  /\ manifest' = [manifest EXCEPT ![bytes[c]] = "whole"]
  /\ Advance(c, "open", 1)
  /\ UNCHANGED <<operated, memory, snapshot, runs, bytes, execution, startUp,
                 counted>>

\* A damaged snapshot or the file system ends the request; the model stays READY.
PublishFails(c) ==
  /\ AtStep(c, "publish")
  /\ Refuse(c)
  /\ UNCHANGED <<operated, memory, store, runs, execution, startUp, counted>>

\* open_bundle reads back what the reference names.
OpenFrozen(c) ==
  /\ AtStep(c, "open")
  /\ IF Readable(bytes[c])
     THEN Advance(c, "insert", 1) /\ UNCHANGED bytes
     ELSE Refuse(c)
  /\ UNCHANGED <<operated, memory, store, runs, execution, startUp, counted>>

\* The transaction that inserts the run with its configuration.
Create(c, r) ==
  /\ AtStep(c, "insert")
  /\ stage[r] = "none"
  /\ stage' = [stage EXCEPT ![r] = "queued"]
  /\ bundle' = [bundle EXCEPT ![r] = bytes[c]]
  /\ Refuse(c)
  /\ UNCHANGED <<operated, memory, store, used, execution, startUp, counted>>

\* create_review_run without a corrected mask: the parent's configuration, and
\* with it the reference, is used again.
Review(r, parent) ==
  /\ ~ Starting
  /\ stage[r] = "none"
  /\ stage[parent] \in {"done", "failed"}
  /\ stage' = [stage EXCEPT ![r] = "queued"]
  /\ bundle' = [bundle EXCEPT ![r] = bundle[parent]]
  /\ UNCHANGED <<operated, memory, store, used, creation, execution, startUp,
                 counted>>

-----------------------------------------------------------------------------
(* predict, when the run is executed.                                      *)

EndRun(e, outcome) ==
  /\ stage' = [stage EXCEPT ![doing[e]] = outcome]
  /\ doing' = [doing EXCEPT ![e] = Null]
  /\ opened' = [opened EXCEPT ![e] = Unread]

ClaimRun(e, r) ==
  /\ ~ Starting
  /\ doing[e] = Null
  /\ stage[r] = "queued"
  /\ stage' = [stage EXCEPT ![r] = "active"]
  /\ doing' = [doing EXCEPT ![e] = r]
  /\ UNCHANGED <<operated, memory, store, bundle, used, creation, opened,
                 startUp, counted>>

Opening(e) == doing[e] # Null /\ opened[e] = Unread
Holding(e) == doing[e] # Null /\ opened[e] # Unread

\* open_bundle: every file is hashed while it is read, and read once.
Open(e) ==
  /\ Opening(e)
  /\ Readable(bundle[doing[e]])
  /\ opened' = [opened EXCEPT ![e] = bundle[doing[e]]]
  /\ UNCHANGED <<operated, memory, store, runs, creation, doing, startUp,
                 counted>>

OpenFails(e) ==
  /\ Opening(e)
  /\ ~ Readable(bundle[doing[e]])
  /\ EndRun(e, "failed")
  /\ UNCHANGED <<operated, memory, store, bundle, used, creation, startUp,
                 counted>>

\* The cached adapter for a bundle; the key is made of the digests of its parts,
\* and the metadata of a bundle, which is left out, is not in it.
WarmFor(b) == {a \in warm : a.key = b}

\* The adapters that stay when another one is added: the oldest ones leave.
Kept(W) == {K \in SUBSET W : Cardinality(K) = MaxWarm - 1}

\* lease: a cached adapter, or one that is built from the bytes held.
PredictWith(e, a) ==
  /\ used' = [used EXCEPT ![doing[e]] = a.from]
  /\ EndRun(e, "done")
  /\ UNCHANGED <<operated, registered, ready, store, bundle, creation,
                 startUp, counted>>

PredictCached(e) ==
  /\ Holding(e)
  /\ \E a \in WarmFor(opened[e]) : PredictWith(e, a)
  /\ UNCHANGED warm

New(e) == [key |-> opened[e], from |-> opened[e]]

PredictLoaded(e) ==
  /\ Holding(e)
  /\ WarmFor(opened[e]) = {}
  /\ PredictWith(e, New(e))
  /\ IF Cardinality(warm) < MaxWarm
     THEN warm' = warm \cup {New(e)}
     ELSE \E K \in Kept(warm) : warm' = K \cup {New(e)}

\* Loading raises: the model becomes unavailable, whichever version it was.
LoadRaises(e) ==
  /\ Holding(e)
  /\ WarmFor(opened[e]) = {}
  /\ EndRun(e, "failed")
  /\ MarkUnavailable
  /\ UNCHANGED <<operated, store, bundle, used, creation, startUp, counted>>

\* Predicting raises: the adapter leaves the cache, and those that left for it do
\* not come back.
PredictRaises(e) ==
  /\ Holding(e)
  /\ IF WarmFor(opened[e]) = {} /\ Cardinality(warm) = MaxWarm
     THEN warm' \in Kept(warm)
     ELSE warm' = warm \ WarmFor(opened[e])
  /\ EndRun(e, "failed")
  /\ UNCHANGED <<operated, registered, ready, store, bundle, used, creation,
                 startUp, counted>>

-----------------------------------------------------------------------------
(* Operators, damage and restarts.                                         *)

\* A file is replaced, removed, or in the middle of being written.
Edit ==
  /\ edits < MaxEdits
  /\ edits' = edits + 1
  /\ \/ /\ \E p \in Parts, d \in Contents :
             /\ source' = [source EXCEPT ![p] = d]
             /\ seen' = IF Starting THEN [seen EXCEPT ![p] = @ \cup {d}] ELSE seen
        /\ UNCHANGED declared
     \/ declared' \in Contents /\ UNCHANGED <<source, seen>>
  /\ UNCHANGED <<memory, store, runs, creation, execution, reads, offered,
                 tampers, restarts>>

\* Somebody damages a published file.
Tamper ==
  /\ tampers < MaxTampers
  /\ tampers' = tampers + 1
  /\ \/ \E p \in Parts, d \in Digests :
          /\ snapshot[p][d] = "whole"
          /\ snapshot' = [snapshot EXCEPT ![p][d] = "damaged"]
          /\ UNCHANGED manifest
     \/ \E b \in Bundles :
          /\ manifest[b] = "whole"
          /\ manifest' = [manifest EXCEPT ![b] = "damaged"]
          /\ UNCHANGED snapshot
  /\ UNCHANGED <<operated, memory, runs, creation, execution, startUp, edits,
                 restarts>>

\* The process dies, and the next one reads the declaration.  Recovery fails the
\* runs that were being executed.
Restart ==
  /\ restarts < MaxRestarts
  /\ restarts' = restarts + 1
  /\ registered' = Declared(declared)
  /\ ready' = FALSE
  /\ reads' = 0
  /\ seen' = [p \in Parts |-> {source[p]}]
  /\ warm' = {}
  /\ stage' = [r \in RunIds |-> IF stage[r] = "active" THEN "failed"
                              ELSE stage[r]]
  /\ at' = [c \in Creators |-> Idle]
  /\ bytes' = [c \in Creators |-> Unread]
  /\ doing' = [e \in Executors |-> Null]
  /\ opened' = [e \in Executors |-> Unread]
  /\ UNCHANGED <<operated, store, bundle, used, offered, edits, tampers>>

-----------------------------------------------------------------------------
Freezing(c) ==
  \/ Validate(c)
  \/ ReadPart(c)
  \/ CopyWeightsFails(c)
  \/ CopyWeights(c)
  \/ Compare(c)
  \/ PublishPart(c)
  \/ PublishManifest(c)
  \/ PublishFails(c)
  \/ OpenFrozen(c)
  \/ \E r \in RunIds : Create(c, r)

Predicting(e) ==
  \/ \E r \in RunIds : ClaimRun(e, r)
  \/ Open(e)
  \/ OpenFails(e)
  \/ PredictCached(e)
  \/ PredictLoaded(e)
  \/ LoadRaises(e)
  \/ PredictRaises(e)

BundleNext ==
  \/ \E p \in Parts : RegisterPart(p)
  \/ \E c \in Creators : Freezing(c)
  \/ \E r, parent \in RunIds : Review(r, parent)
  \/ \E e \in Executors : Predicting(e)
  \/ Edit
  \/ Tamper
  \/ Restart

BundleSpec == BundleInit /\ [][BundleNext]_bundleVars
-----------------------------------------------------------------------------
(* Properties.                                                             *)

\* A run that has been accepted can be executed: its manifest and its parts are
\* in the store and whole, whatever failed while they were published, unless
\* somebody has damaged a file.  The store never offers half of a file.
FrozenIsWhole ==
  /\ \A r \in RunIds :
       stage[r] # "none" =>
         /\ manifest[bundle[r]] # "absent"
         /\ \A p \in Parts : snapshot[p][bundle[r][p]] # "absent"
  /\ tampers = 0 =>
       /\ \A b \in Bundles : manifest[b] # "damaged"
       /\ \A p \in Parts, d \in Digests : snapshot[p][d] # "damaged"

\* Freezing keeps its promise to runs: one version that was offered, made of what
\* the files held while one start-up read them, and a prediction with that version
\* only, through edits of the files, damage to the store, restarts, and a cache that
\* other versions share.
Promise == INSTANCE FrozenModels WITH
  Runs <- RunIds, Contents <- Digests, None <- Null,
  starting <- Starting, seen <- seen, offered <- offered, bundle <- bundle,
  used <- used
KeepsPromise == Promise!Spec
=============================================================================
