--------------------------- MODULE RunInputsProofs ---------------------------
(***************************************************************************)
(* Theorems about RunInputs, for every set of runs, masks and callers, any *)
(* number of revisions, requests, crashes and deletions that fail.         *)
(***************************************************************************)
EXTENDS RunInputs, FiniteSetTheorems, TLAPS

-----------------------------------------------------------------------------
(* The inductive invariant.                                                *)

\* Each revision so far has one author, later ones have none...
AuthorsInv ==
  \A v \in Revisions :
    IF v <= revision THEN \E c \in Callers : authors[v] = {c} ELSE authors[v] = {}

\* ...and nobody refers to a later one.
BehindInv ==
  /\ \A r \in Runs : run[r].boxes <= revision
  /\ \A c \in Callers : my[c].seen <= revision
  /\ \A c \in Callers : pc[c] = "replace" => my[c].seen < MaxRevision

\* An upload is its caller's own until its token is issued.
UploadInv ==
  \A c \in Callers : pc[c] \in {"register", "issue"} =>
    /\ my[c].parent # None
    /\ my[c].mask \in staged \ issued
    /\ pc[c] = "register" => mask[my[c].mask].state = "none"
    /\ pc[c] = "issue" => mask[my[c].mask].state = "active"
    /\ \A d \in Callers \ {c} : my[d].mask # my[c].mask

\* The directory of a review has no row yet, and holds the mask of the review.
ChildInv ==
  \A c \in Callers : my[c].child # None =>
    /\ pc[c] \in {"prepare", "review"} /\ my[c].mask # None
    /\ run[my[c].child].state = "absent" /\ copy[my[c].child] = my[c].mask
    /\ \A d \in Callers \ {c} : my[d].child # my[c].child

\* What a review knows of the run and of the token it is about.
ReviewInv ==
  \A c \in Callers :
    /\ pc[c] \in {"resolve", "recheck", "prepare", "review"} => my[c].parent # None
    /\ pc[c] \in {"resolve", "recheck", "prepare", "delete"} => my[c].mask \in issued
    /\ pc[c] = "review" => (my[c].mask = None \/ my[c].mask \in issued)
    /\ pc[c] \in {"recheck", "prepare", "review", "delete"} /\ my[c].mask # None =>
         mask[my[c].mask].parent = my[c].parent
    /\ pc[c] = "prepare" => my[c].child # None
    /\ pc[c] = "delete" => mask[my[c].mask].state = "consumed"

\* A token belongs to a registered mask; a run has consumed its own.
TokenInv ==
  /\ \A m \in issued : mask[m].state # "none"
  /\ \A m \in Masks : mask[m].state = "consumed" => m \in issued
  /\ \A r \in Present :
       run[r].mask # None => mask[run[r].mask].state = "consumed"

\* Workers execute active runs.
ExecutingInv == \A r \in executing : run[r].state = "active"

\* A replacement knows what it replaces.
ParentInv ==
  \A r \in Present : run[r].origin = "recovery" => run[r].parent # None

\* The run a recoverer has found is not executed any more, and only another
\* recoverer can have ended it.
FoundInv ==
  \A c \in Callers : pc[c] = "requeue" =>
    /\ my[c].parent # None /\ my[c].parent \notin executing
    /\ run[my[c].parent].state \in {"active", "failed"}

\* An uploaded file is its token's, or a request will delete it or hand it over, or
\* it is known to be lost...
StagedInv ==
  \A m \in staged :
    \/ mask[m].state = "active" /\ m \in issued
    \/ m \in lostUploads
    \/ \E c \in Callers : pc[c] \in {"register", "issue", "delete"} /\ my[c].mask = m

\* ...and so is a copy.
CopyInv ==
  \A r \in Runs : copy[r] # None =>
    r \in Present \cup lostCopies \/ \E c \in Callers : my[c].child = r

InputsInv ==
  /\ TypeOK
  /\ AuthorsInv /\ BehindInv
  /\ UploadInv /\ ChildInv /\ ReviewInv /\ TokenInv
  /\ ExecutingInv /\ ParentInv /\ FoundInv
  /\ StagedInv /\ CopyInv
  /\ TokenWorksOnce /\ RunKeepsItsMask /\ OneReplacement

-----------------------------------------------------------------------------
(* What the larger steps do.                                               *)

\* The types of the rows and of the local variables.
RunRow ==
  [state : {"absent", "queued", "active", "completed", "failed"},
   origin : {None, "request", "review", "recovery"},
   parent : Runs \cup {None}, boxes : 0..MaxRevision, mask : Masks \cup {None}]
Locals ==
  [seen : 0..MaxRevision, parent : Runs \cup {None}, mask : Masks \cup {None},
   child : Runs \cup {None}]

\* Assigning to a field keeps the type of a record.
LEMMA FieldTypes ==
  /\ Blank \in Locals
  /\ \A l \in Locals, v \in 0..MaxRevision : [l EXCEPT !.seen = v] \in Locals
  /\ \A l \in Locals, p \in Runs \cup {None} :
       [l EXCEPT !.parent = p] \in Locals /\ [l EXCEPT !.child = p] \in Locals
  /\ \A l \in Locals, m \in Masks \cup {None} : [l EXCEPT !.mask = m] \in Locals
  /\ \A row \in RunRow, to \in {"active", "completed", "failed"} :
       [row EXCEPT !.state = to] \in RunRow
BY RunInputsAssumptions DEF Blank, Locals, RunRow

LEMMA CloneFields ==
  ASSUME NEW row \in RunRow, NEW p
  PROVE  [row EXCEPT !.state = "queued", !.parent = p, !.origin = "recovery"] =
           [state |-> "queued", origin |-> "recovery", parent |-> p,
            boxes |-> row.boxes, mask |-> row.mask]
<1> DEFINE queued == [row EXCEPT !.state = "queued"]
           child == [queued EXCEPT !.parent = p]
<1>1. queued = [state |-> "queued", origin |-> row.origin, parent |-> row.parent,
                boxes |-> row.boxes, mask |-> row.mask]
  BY DEF RunRow
<1> HIDE DEF queued
<1>2. child = [state |-> "queued", origin |-> row.origin, parent |-> p,
               boxes |-> row.boxes, mask |-> row.mask]
  BY <1>1
<1> HIDE DEF child
<1>3. [child EXCEPT !.origin = "recovery"] =
        [state |-> "queued", origin |-> "recovery", parent |-> p,
         boxes |-> row.boxes, mask |-> row.mask]
  BY <1>2
<1> QED
  BY <1>3 DEF child, queued

LEMMA LocalTypes ==
  ASSUME TypeOK, NEW c \in Callers
  PROVE  /\ my \in [Callers -> Locals] /\ [my EXCEPT ![c] = Blank] \in [Callers -> Locals]
         /\ \A v \in 0..MaxRevision : [my EXCEPT ![c].seen = v] \in [Callers -> Locals]
         /\ \A p \in Runs \cup {None} :
              /\ [my EXCEPT ![c].parent = p] \in [Callers -> Locals]
              /\ [my EXCEPT ![c].child = p] \in [Callers -> Locals]
         /\ \A p \in Runs \cup {None}, m \in Masks \cup {None} :
              [my EXCEPT ![c].parent = p, ![c].mask = m] \in [Callers -> Locals]
<1>1. my \in [Callers -> Locals] /\ my[c] \in Locals
  BY DEF TypeOK, Locals
<1>2. ASSUME NEW v \in 0..MaxRevision
      PROVE  [my EXCEPT ![c].seen = v] \in [Callers -> Locals]
  BY <1>1, FieldTypes
<1>3. ASSUME NEW p \in Runs \cup {None}
      PROVE  /\ [my EXCEPT ![c].parent = p] \in [Callers -> Locals]
             /\ [my EXCEPT ![c].child = p] \in [Callers -> Locals]
  BY <1>1, FieldTypes
<1>4. ASSUME NEW p \in Runs \cup {None}, NEW m \in Masks \cup {None}
      PROVE  [my EXCEPT ![c].parent = p, ![c].mask = m] \in [Callers -> Locals]
  <2>1. [my[c] EXCEPT !.parent = p] \in Locals
    BY <1>1, FieldTypes
  <2>2. [[my[c] EXCEPT !.parent = p] EXCEPT !.mask = m] \in Locals
    BY <2>1, FieldTypes
  <2> QED
    BY <1>1, <2>2
<1> QED
  BY <1>1, <1>2, <1>3, <1>4, FieldTypes

\* What the types say of each row and of each caller.
LEMMA Types ==
  ASSUME TypeOK
  PROVE  /\ run \in [Runs -> RunRow] /\ my \in [Callers -> Locals]
         /\ \A r \in Runs : /\ run[r].parent \in Runs \cup {None}
                            /\ run[r].boxes \in 0..MaxRevision
                            /\ run[r].mask \in Masks \cup {None}
         /\ \A c \in Callers : /\ my[c].seen \in 0..MaxRevision
                               /\ my[c].parent \in Runs \cup {None}
                               /\ my[c].mask \in Masks \cup {None}
                               /\ my[c].child \in Runs \cup {None}
         /\ pc = [c \in Callers |-> pc[c]] /\ copy = [r \in Runs |-> copy[r]]
         /\ mask \in [Masks -> [state : {"none", "active", "consumed"},
                                parent : Runs \cup {None}]]
         /\ executing \subseteq Runs /\ staged \subseteq Masks
         /\ issued \subseteq Masks /\ revision \in 0..MaxRevision
         /\ mishaps \in 0..MaxMishaps
<1>1. run \in [Runs -> RunRow] /\ my \in [Callers -> Locals]
  BY DEF TypeOK, RunRow, Locals
<1>2. ASSUME NEW r \in Runs
      PROVE  /\ run[r].parent \in Runs \cup {None}
             /\ run[r].boxes \in 0..MaxRevision
             /\ run[r].mask \in Masks \cup {None}
  BY <1>1 DEF RunRow
<1>3. ASSUME NEW c \in Callers
      PROVE  /\ my[c].seen \in 0..MaxRevision
             /\ my[c].parent \in Runs \cup {None}
             /\ my[c].mask \in Masks \cup {None}
             /\ my[c].child \in Runs \cup {None}
  BY <1>1 DEF Locals
<1>4. /\ pc = [c \in Callers |-> pc[c]] /\ copy = [r \in Runs |-> copy[r]]
      /\ mask \in [Masks -> [state : {"none", "active", "consumed"},
                             parent : Runs \cup {None}]]
      /\ executing \subseteq Runs /\ staged \subseteq Masks /\ issued \subseteq Masks
      /\ revision \in 0..MaxRevision /\ mishaps \in 0..MaxMishaps
  BY DEF TypeOK
<1> QED
  BY <1>1, <1>2, <1>3, <1>4

\* A caller that returns forgets everything.
LEMMA ReturnEffect ==
  ASSUME TypeOK, NEW c \in Callers, Return(c)
  PROVE  /\ pc'[c] = "idle"
         /\ my'[c].seen = 0 /\ my'[c].parent = None
         /\ my'[c].mask = None /\ my'[c].child = None
         /\ \A d \in Callers \ {c} : pc'[d] = pc[d] /\ my'[d] = my[d]
BY Types DEF Return, Blank

\* Assigning to the fields of a caller's variables.
LEMMA AssignSeen ==
  ASSUME TypeOK, NEW c \in Callers, NEW v, my' = [my EXCEPT ![c].seen = v]
  PROVE  /\ my'[c].seen = v /\ my'[c].parent = my[c].parent
         /\ my'[c].mask = my[c].mask /\ my'[c].child = my[c].child
         /\ \A d \in Callers \ {c} : my'[d] = my[d]
<1>1. my[c] \in Locals
  BY Types
<1>2. my'[c] = [my[c] EXCEPT !.seen = v] /\ \A d \in Callers \ {c} : my'[d] = my[d]
  BY Types
<1> QED
  BY <1>1, <1>2 DEF Locals

LEMMA AssignSubject ==
  ASSUME TypeOK, NEW c \in Callers, NEW p, NEW m,
         my' = [my EXCEPT ![c].parent = p, ![c].mask = m]
  PROVE  /\ my'[c].seen = my[c].seen /\ my'[c].parent = p
         /\ my'[c].mask = m /\ my'[c].child = my[c].child
         /\ \A d \in Callers \ {c} : my'[d] = my[d]
<1> DEFINE l == [my[c] EXCEPT !.parent = p]
<1>1. l = [seen |-> my[c].seen, parent |-> p, mask |-> my[c].mask,
           child |-> my[c].child]
  BY Types DEF Locals
<1>2. my'[c] = [l EXCEPT !.mask = m] /\ \A d \in Callers \ {c} : my'[d] = my[d]
  BY Types
<1> HIDE DEF l
<1>3. [l EXCEPT !.mask = m] = [seen |-> my[c].seen, parent |-> p, mask |-> m,
                               child |-> my[c].child]
  BY <1>1
<1> QED
  BY <1>2, <1>3

\* What the steps that assign to them do.
LEMMA LookEffect ==
  ASSUME TypeOK, NEW c \in Callers, Look(c)
  PROVE  /\ my'[c].seen = revision /\ my'[c].parent = my[c].parent
         /\ my'[c].mask = my[c].mask /\ my'[c].child = my[c].child
         /\ \A d \in Callers \ {c} : my'[d] = my[d]
         /\ Goto(c, "idle", "looked")
         /\ UNCHANGED <<revision, authors, run, mask, staged, copy, lost, issued, executing,
                        mishaps>>
<1>1. my' = [my EXCEPT ![c].seen = revision]
  BY DEF Look
<1>2. Goto(c, "idle", "looked") /\ UNCHANGED <<rows, files, issued, executing, mishaps>>
  BY DEF Look
<1> QED
  BY <1>1, <1>2, AssignSeen DEF rows, files

LEMMA CheckCreateEffect ==
  ASSUME TypeOK, NEW c \in Callers, CheckCreate(c)
  PROVE  /\ my'[c].seen \in {0, my[c].seen} /\ my'[c].parent = my[c].parent
         /\ my'[c].mask = my[c].mask /\ my'[c].child = my[c].child
         /\ \A d \in Callers \ {c} : my'[d] = my[d]
         /\ Goto(c, "looked", "create")
         /\ UNCHANGED <<revision, authors, run, mask, staged, copy, lost, issued, executing,
                        mishaps>>
<1>1. Goto(c, "looked", "create") /\ UNCHANGED <<rows, files, issued,
                                                 executing, mishaps>>
  BY DEF CheckCreate
<1>2. /\ my'[c].seen \in {0, my[c].seen} /\ my'[c].parent = my[c].parent
      /\ my'[c].mask = my[c].mask /\ my'[c].child = my[c].child
      /\ \A d \in Callers \ {c} : my'[d] = my[d]
  <2>1. CASE my' = my
    BY <2>1
  <2>2. CASE my' = [my EXCEPT ![c].seen = 0]
    BY <2>2, AssignSeen
  <2> QED
    BY <2>1, <2>2 DEF CheckCreate
<1> QED
  BY <1>1, <1>2 DEF rows, files

LEMMA StageEffect ==
  ASSUME TypeOK, NEW c \in Callers, NEW m \in Masks, NEW p \in Runs, Stage(c, m, p)
  PROVE  /\ my'[c].seen = my[c].seen /\ my'[c].parent = p
         /\ my'[c].mask = m /\ my'[c].child = my[c].child
         /\ \A d \in Callers \ {c} : my'[d] = my[d]
         /\ Goto(c, "idle", "register")
         /\ mask[m].state = "none" /\ m \notin staged
         /\ \A d \in Callers : my[d].mask # m
         /\ staged' = staged \cup {m}
         /\ UNCHANGED <<revision, authors, run, mask, copy, lost, issued, executing,
                        mishaps>>
<1>1. my' = [my EXCEPT ![c].parent = p, ![c].mask = m]
  BY DEF Stage
<1>2. /\ Goto(c, "idle", "register")
      /\ mask[m].state = "none" /\ m \notin staged
      /\ \A d \in Callers : my[d].mask # m
      /\ staged' = staged \cup {m}
      /\ UNCHANGED <<rows, copy, lost, issued, executing, mishaps>>
  BY DEF Stage
<1>3. /\ my'[c].seen = my[c].seen /\ my'[c].parent = p
      /\ my'[c].mask = m /\ my'[c].child = my[c].child
      /\ \A d \in Callers \ {c} : my'[d] = my[d]
  BY <1>1, AssignSubject
<1> QED
  BY <1>2, <1>3 DEF rows

LEMMA BeginReviewEffect ==
  ASSUME TypeOK, NEW c \in Callers, NEW p \in Runs, NEW m \in Masks \cup {None},
         BeginReview(c, p, m)
  PROVE  /\ my'[c].seen = my[c].seen /\ my'[c].parent = p
         /\ my'[c].mask = m /\ my'[c].child = my[c].child
         /\ \A d \in Callers \ {c} : my'[d] = my[d]
         /\ Goto(c, "idle", IF m = None THEN "review" ELSE "resolve")
         /\ run[p].state \in {"completed", "failed"}
         /\ m \in issued \cup {None}
         /\ UNCHANGED <<revision, authors, run, mask, staged, copy, lost, issued, executing,
                        mishaps>>
<1>1. my' = [my EXCEPT ![c].parent = p, ![c].mask = m]
  BY DEF BeginReview
<1>2. /\ Goto(c, "idle", IF m = None THEN "review" ELSE "resolve")
      /\ run[p].state \in {"completed", "failed"}
      /\ m \in issued \cup {None}
      /\ UNCHANGED <<rows, files, issued, executing, mishaps>>
  BY DEF BeginReview, Finished
<1>3. /\ my'[c].seen = my[c].seen /\ my'[c].parent = p
      /\ my'[c].mask = m /\ my'[c].child = my[c].child
      /\ \A d \in Callers \ {c} : my'[d] = my[d]
  BY <1>1, AssignSubject
<1> QED
  BY <1>2, <1>3 DEF rows, files

\* A new row has an id that nobody uses, and the other rows stay.
LEMMA NewRunEffect ==
  ASSUME TypeOK, NEW r \in Runs, NEW origin \in {"request", "review"},
         NEW parent \in Runs \cup {None}, NEW boxes \in 0..MaxRevision,
         NEW m \in Masks \cup {None}, NewRun(r, origin, parent, boxes, m)
  PROVE  /\ run' \in [Runs -> RunRow]
         /\ run'[r].state = "queued" /\ run'[r].origin = origin
         /\ run'[r].parent = parent /\ run'[r].boxes = boxes /\ run'[r].mask = m
         /\ \A s \in Runs \ {r} : run'[s] = run[s]
<1> DEFINE row == [state |-> "queued", origin |-> origin, parent |-> parent,
                   boxes |-> boxes, mask |-> m]
<1>1. row \in RunRow
  BY DEF RunRow
<1>2. run' = [run EXCEPT ![r] = row]
  BY DEF NewRun
<1>3. run' \in [Runs -> RunRow] /\ run'[r] = row
      /\ \A s \in Runs \ {r} : run'[s] = run[s]
  BY <1>1, <1>2, Types
<1> QED
  BY <1>3

LEMMA CreateEffect ==
  ASSUME TypeOK, NEW c \in Callers, NEW r \in Runs, CommitCreate(c, r)
  PROVE  /\ run' \in [Runs -> RunRow]
         /\ pc[c] = "create"
         /\ pc'[c] = "idle" /\ my'[c].seen = 0 /\ my'[c].parent = None
         /\ my'[c].mask = None /\ my'[c].child = None
         /\ \A d \in Callers \ {c} : pc'[d] = pc[d] /\ my'[d] = my[d]
         /\ run[r].state = "absent" /\ copy[r] = None
         /\ \A d \in Callers : my[d].child # r
         /\ run'[r].state = "queued" /\ run'[r].origin = "request"
         /\ run'[r].parent = None /\ run'[r].boxes = my[c].seen
         /\ run'[r].mask = None
         /\ \A s \in Runs \ {r} : run'[s] = run[s]
         /\ UNCHANGED <<revision, authors, mask, files, issued, executing, mishaps>>
<1>1. my[c].seen \in 0..MaxRevision /\ NewRun(r, "request", None, my[c].seen, None)
  BY Types DEF CommitCreate
<1>2. /\ run' \in [Runs -> RunRow]
      /\ run'[r].state = "queued" /\ run'[r].origin = "request"
      /\ run'[r].parent = None /\ run'[r].boxes = my[c].seen /\ run'[r].mask = None
      /\ \A s \in Runs \ {r} : run'[s] = run[s]
  BY <1>1, NewRunEffect
<1> QED
  BY <1>2, ReturnEffect DEF CommitCreate, Fresh, Present

\* The child of a review has its parent's boxes and the mask of the review, if
\* there is one, which its directory holds already.
LEMMA ReviewEffect ==
  ASSUME TypeOK, ChildInv, ReviewInv, NEW c \in Callers, NEW r \in Runs,
         CommitReview(c, r)
  PROVE  LET m == my[c].mask
             p == my[c].parent
         IN  /\ run' \in [Runs -> RunRow]
             /\ pc[c] = "review" /\ p \in Runs
             /\ pc' = [pc EXCEPT ![c] = IF m = None THEN "idle" ELSE "delete"]
             /\ my'[c].child = None /\ my'[c].seen = my[c].seen
             /\ my'[c].parent = p /\ my'[c].mask = m
             /\ \A d \in Callers \ {c} : my'[d] = my[d]
             /\ run[r].state = "absent" /\ copy[r] = m
             /\ \A d \in Callers \ {c} : my[d].child # r
             /\ run'[r].state = "queued" /\ run'[r].origin = "review"
             /\ run'[r].parent = p /\ run'[r].boxes = run[p].boxes
             /\ run'[r].mask = m
             /\ \A s \in Runs \ {r} : run'[s] = run[s]
             /\ \/ m = None /\ my[c].child = None /\ UNCHANGED mask
                \/ /\ m \in issued /\ mask[m].state = "active"
                   /\ mask[m].parent = p /\ my[c].child = r
                   /\ mask'[m].state = "consumed" /\ mask'[m].parent = p
                   /\ \A n \in Masks \ {m} : mask'[n] = mask[n]
             /\ UNCHANGED <<revision, authors, files, issued, executing, mishaps>>
<1> DEFINE m == my[c].mask
           p == my[c].parent
<1>1. pc[c] = "review" /\ p \in Runs /\ NewRun(r, "review", p, run[p].boxes, m)
  BY Types DEF CommitReview, ReviewInv, Goto
<1>2. /\ run' \in [Runs -> RunRow]
      /\ run'[r].state = "queued" /\ run'[r].origin = "review"
      /\ run'[r].parent = p /\ run'[r].boxes = run[p].boxes /\ run'[r].mask = m
      /\ \A s \in Runs \ {r} : run'[s] = run[s]
  <2>1. run[p].boxes \in 0..MaxRevision /\ m \in Masks \cup {None}
    BY <1>1, Types
  <2> QED
    BY <1>1, <2>1, NewRunEffect
<1>a. /\ my'[c].child = None /\ my'[c].seen = my[c].seen
      /\ my'[c].parent = p /\ my'[c].mask = m
      /\ \A d \in Callers \ {c} : my'[d] = my[d]
  <2>1. my' = [my EXCEPT ![c] = [my[c] EXCEPT !.child = None]] /\ my[c] \in Locals
    BY Types DEF CommitReview
  <2>2. my'[c] = [my[c] EXCEPT !.child = None]
        /\ \A d \in Callers \ {c} : my'[d] = my[d]
    BY <2>1, Types
  <2> QED
    BY <2>1, <2>2 DEF Locals
<1>3. CASE m = None
  <2>1. my[c].child = None
    BY <1>3 DEF ChildInv
  <2>2. /\ run[r].state = "absent" /\ copy[r] = None
        /\ \A d \in Callers \ {c} : my[d].child # r
        /\ UNCHANGED mask
    BY <1>3 DEF CommitReview, Fresh, Present
  <2> QED
    BY <1>1, <1>2, <1>a, <1>3, <2>1, <2>2 DEF CommitReview, Goto
<1>4. CASE m # None
  <2>1. /\ m \in issued /\ mask[m].parent = p
    BY <1>1, <1>4 DEF ReviewInv
  <2>2. /\ my[c].child = r /\ mask[m].state = "active"
        /\ mask' = [mask EXCEPT ![m].state = "consumed"]
    BY <1>4 DEF CommitReview
  <2>4. /\ mask'[m].state = "consumed" /\ mask'[m].parent = p
        /\ \A n \in Masks \ {m} : mask'[n] = mask[n]
    BY <2>1, <2>2, Types
  <2>3. /\ run[r].state = "absent" /\ copy[r] = m
        /\ \A d \in Callers \ {c} : my[d].child # r
    BY <2>2, RunInputsAssumptions DEF ChildInv
  <2> QED
    BY <1>1, <1>2, <1>a, <1>4, <2>1, <2>2, <2>3, <2>4 DEF CommitReview, Goto
<1> QED
  BY <1>3, <1>4

\* Otherwise only the state of a row changes.
LEMMA StateEffect ==
  ASSUME TypeOK, NEW r \in Runs,
         NEW to \in {"active", "completed", "failed"},
         run' = [run EXCEPT ![r].state = to]
  PROVE  /\ run' \in [Runs -> RunRow]
         /\ run'[r].state = to /\ run'[r].origin = run[r].origin
         /\ run'[r].parent = run[r].parent /\ run'[r].boxes = run[r].boxes
         /\ run'[r].mask = run[r].mask
         /\ \A s \in Runs \ {r} : run'[s] = run[s]
<1>1. run \in [Runs -> RunRow] /\ run[r] \in RunRow
  BY Types
<1>2. [run[r] EXCEPT !.state = to] \in RunRow
  BY <1>1, FieldTypes
<1>3. /\ run' \in [Runs -> RunRow] /\ run'[r] = [run[r] EXCEPT !.state = to]
      /\ \A s \in Runs \ {r} : run'[s] = run[s]
  BY <1>1, <1>2
<1>4. LET row == [run[r] EXCEPT !.state = to]
      IN  /\ row.state = to /\ row.origin = run[r].origin
          /\ row.parent = run[r].parent /\ row.boxes = run[r].boxes
          /\ row.mask = run[r].mask
  BY <1>1 DEF RunRow
<1> QED
  BY <1>3, <1>4

LEMMA WorkerEffect ==
  ASSUME TypeOK, ExecutingInv, NEW r \in Runs, WorkerNext(r)
  PROVE  /\ run' \in [Runs -> RunRow]
         /\ \/ /\ run[r].state = "queued" /\ run'[r].state = "active"
               /\ executing' = executing \cup {r}
            \/ /\ r \in executing /\ run[r].state = "active"
               /\ run'[r].state \in {"completed", "failed"}
               /\ executing' = executing \ {r}
         /\ \A s \in Runs : /\ run'[s].origin = run[s].origin
                            /\ run'[s].parent = run[s].parent
                            /\ run'[s].boxes = run[s].boxes
                            /\ run'[s].mask = run[s].mask
         /\ \A s \in Runs \ {r} : run'[s] = run[s]
         /\ UNCHANGED <<revision, authors, mask, staged, copy, lost, issued,
                        pc, my, mishaps>>
<1>1. PICK to \in {"active", "completed", "failed"} :
        run' = [run EXCEPT ![r].state = to]
  BY DEF WorkerNext, Claim, Complete, Fail
<1>2. /\ run' \in [Runs -> RunRow]
      /\ run'[r].state = to /\ run'[r].origin = run[r].origin
      /\ run'[r].parent = run[r].parent /\ run'[r].boxes = run[r].boxes
      /\ run'[r].mask = run[r].mask
      /\ \A s \in Runs \ {r} : run'[s] = run[s]
  BY <1>1, StateEffect
<1>3. \/ /\ run[r].state = "queued" /\ run'[r].state = "active"
         /\ executing' = executing \cup {r}
      \/ /\ r \in executing /\ run[r].state = "active"
         /\ run'[r].state \in {"completed", "failed"}
         /\ executing' = executing \ {r}
  <2>1. CASE Claim(r)
    <3>1. run' = [run EXCEPT ![r].state = "active"] /\ run[r].state = "queued"
          /\ executing' = executing \cup {r}
      BY <2>1 DEF Claim
    <3> QED BY <3>1, StateEffect DEF ExecutingInv
  <2>2. CASE Complete(r)
    <3>1. run' = [run EXCEPT ![r].state = "completed"] /\ r \in executing
          /\ executing' = executing \ {r}
      BY <2>2 DEF Complete
    <3> QED BY <3>1, StateEffect DEF ExecutingInv
  <2>3. CASE Fail(r)
    <3>1. run' = [run EXCEPT ![r].state = "failed"] /\ r \in executing
          /\ executing' = executing \ {r}
      BY <2>3 DEF Fail
    <3> QED BY <3>1, StateEffect DEF ExecutingInv
  <2> QED
    BY <2>1, <2>2, <2>3 DEF WorkerNext
<1>4. UNCHANGED <<revision, authors, mask, staged, copy, lost, issued, pc, my, mishaps>>
  BY DEF WorkerNext, Claim, Complete, Fail, files, callers
<1> QED
  BY <1>2, <1>3, <1>4

\* A recoverer fails the interrupted run...
LEMMA BlockedEffect ==
  ASSUME TypeOK, FoundInv, NEW c \in Callers, RequeueBlocked(c)
  PROVE  LET p == my[c].parent
         IN  /\ run' \in [Runs -> RunRow]
             /\ p \in Runs \ executing /\ run[p].state = "active"
             /\ pc[c] = "requeue"
             /\ pc'[c] = "idle" /\ my'[c].seen = 0 /\ my'[c].parent = None
             /\ my'[c].mask = None /\ my'[c].child = None
             /\ \A d \in Callers \ {c} : pc'[d] = pc[d] /\ my'[d] = my[d]
             /\ run'[p].state = "failed"
             /\ \A s \in Runs : /\ run'[s].origin = run[s].origin
                                /\ run'[s].parent = run[s].parent
                                /\ run'[s].boxes = run[s].boxes
                                /\ run'[s].mask = run[s].mask
             /\ \A s \in Runs \ {p} : run'[s] = run[s]
             /\ UNCHANGED <<revision, authors, mask, staged, copy, lost, issued, executing,
                            mishaps>>
<1> DEFINE p == my[c].parent
<1>1. /\ pc[c] = "requeue" /\ run[p].state = "active" /\ Return(c)
      /\ run' = [run EXCEPT ![p].state = "failed"]
      /\ UNCHANGED <<revision, authors, mask, staged, copy, lost, issued,
                     executing, mishaps>>
  BY DEF RequeueBlocked, files
<1>2. p \in Runs \ executing
  BY <1>1, Types DEF FoundInv
<1> QED
  BY <1>1, <1>2, StateEffect, ReturnEffect

\* ...and adds another of the same boxes.
LEMMA RequeueEffect ==
  ASSUME TypeOK, FoundInv, NEW c \in Callers, NEW r \in Runs, Requeue(c, r)
  PROVE  LET p == my[c].parent
         IN  /\ run' \in [Runs -> RunRow]
             /\ p \in Runs \ executing /\ p # r
             /\ run[p].state = "active" /\ run[p].mask = None
             /\ run[r].state = "absent" /\ copy[r] = None
             /\ \A d \in Callers : my[d].child # r
             /\ pc[c] = "requeue"
             /\ pc'[c] = "idle" /\ my'[c].seen = 0 /\ my'[c].parent = None
             /\ my'[c].mask = None /\ my'[c].child = None
             /\ \A d \in Callers \ {c} : pc'[d] = pc[d] /\ my'[d] = my[d]
             /\ run'[p].state = "failed" /\ run'[p].origin = run[p].origin
             /\ run'[p].parent = run[p].parent /\ run'[p].boxes = run[p].boxes
             /\ run'[p].mask = None
             /\ run'[r].state = "queued" /\ run'[r].origin = "recovery"
             /\ run'[r].parent = p /\ run'[r].boxes = run[p].boxes
             /\ run'[r].mask = None
             /\ \A s \in Runs \ {p, r} : run'[s] = run[s]
             /\ UNCHANGED <<revision, authors, mask, staged, copy, lost, issued, executing,
                            mishaps>>
<1> DEFINE p == my[c].parent
           failed == [run[p] EXCEPT !.state = "failed"]
           clone == [run[p] EXCEPT !.state = "queued", !.parent = p,
                                   !.origin = "recovery"]
<1>1. /\ pc[c] = "requeue" /\ run[p].state = "active" /\ run[p].mask = None
      /\ r \in Fresh /\ Return(c)
      /\ run' = [run EXCEPT ![p].state = "failed", ![r] = clone]
      /\ UNCHANGED <<revision, authors, mask, staged, copy, lost, issued,
                     executing, mishaps>>
  BY DEF Requeue, files
<1>2. p \in Runs \ executing /\ p # r
  BY <1>1, Types DEF FoundInv, Fresh, Present
<1>3. run \in [Runs -> RunRow] /\ run[p] \in RunRow
  BY <1>2, Types
<1>4. failed \in RunRow
  BY <1>3, FieldTypes
<1>5. clone = [state |-> "queued", origin |-> "recovery", parent |-> p,
               boxes |-> run[p].boxes, mask |-> None]
  BY <1>1, <1>3, CloneFields
<1>6. clone \in RunRow
  BY <1>2, <1>3, <1>5 DEF RunRow
<1>7. run' = [run EXCEPT ![p] = failed, ![r] = clone]
  BY <1>1, <1>2, <1>3
<1>8. /\ failed.state = "failed" /\ failed.origin = run[p].origin
      /\ failed.parent = run[p].parent /\ failed.boxes = run[p].boxes
      /\ failed.mask = None
  BY <1>1, <1>3 DEF RunRow
<1>9. /\ clone.state = "queued" /\ clone.origin = "recovery" /\ clone.parent = p
      /\ clone.boxes = run[p].boxes /\ clone.mask = None
  BY <1>5
<1> HIDE DEF failed, clone
<1>10. /\ run' \in [Runs -> RunRow] /\ run'[p] = failed /\ run'[r] = clone
       /\ \A s \in Runs \ {p, r} : run'[s] = run[s]
  BY <1>2, <1>3, <1>4, <1>6, <1>7
<1>11. run[r].state = "absent" /\ copy[r] = None /\ \A d \in Callers : my[d].child # r
  BY <1>1 DEF Fresh, Present
<1> QED
  BY <1>1, <1>2, <1>8, <1>9, <1>10, <1>11, ReturnEffect

\* The steps that change rows.
LEMMA RowSteps ==
  ASSUME [Next]_vars
  PROVE  \/ UNCHANGED rows /\ executing' \in {executing, {}}
         \/ \E c \in Callers :
              \/ CommitReplace(c) \/ Register(c) \/ RequeueBlocked(c)
              \/ \E r \in Runs :
                   CommitCreate(c, r) \/ CommitReview(c, r) \/ Requeue(c, r)
         \/ \E r \in Runs : WorkerNext(r)
<1>1. ASSUME NEW c \in Callers,
             BoxesNext(c) \/ MaskNext(c) \/ ReviewNext(c) \/ RecoveryNext(c)
      PROVE  \/ UNCHANGED rows /\ UNCHANGED executing
             \/ CommitReplace(c) \/ Register(c) \/ RequeueBlocked(c)
             \/ \E r \in Runs :
                  CommitCreate(c, r) \/ CommitReview(c, r) \/ Requeue(c, r)
  <2>1. CASE BoxesNext(c)
    BY <2>1 DEF BoxesNext, Look, CheckReplace, CheckCreate, RequestFails
  <2>2. CASE MaskNext(c)
    BY <2>2 DEF MaskNext, Stage, Issue, StageFails, StageLeavesFile
  <2>3. CASE ReviewNext(c)
    BY <2>3 DEF ReviewNext, BeginReview, Resolve, CopyMask, Prepare, PrepareFails,
       ReviewRefused, ReviewFails, ReviewLeavesCopy, DeleteUpload, DeleteUploadFails
  <2>4. CASE RecoveryNext(c)
    BY <2>4 DEF RecoveryNext, FindStale, RequeueLost
  <2> QED
    BY <1>1, <2>1, <2>2, <2>3, <2>4
<1> QED
  BY <1>1 DEF Next, Crash, vars

-----------------------------------------------------------------------------
(* Type correctness.                                                       *)

\* The local variables keep their types.
LEMMA MyType ==
  ASSUME TypeOK, ExecutingInv, [Next]_vars
  PROVE  my' \in [Callers -> Locals]
<1> USE RunInputsAssumptions, LocalTypes DEF rows, Goto
<1>1. ASSUME NEW c \in Callers, Look(c) PROVE my' \in [Callers -> Locals]
  BY <1>1, Types DEF Look
<1>2. ASSUME NEW c \in Callers, CheckReplace(c)
      PROVE  my' \in [Callers -> Locals]
  BY <1>2 DEF CheckReplace
<1>3. ASSUME NEW c \in Callers, CommitReplace(c)
      PROVE  my' \in [Callers -> Locals]
  BY <1>3 DEF CommitReplace, Return
<1>4. ASSUME NEW c \in Callers, CheckCreate(c)
      PROVE  my' \in [Callers -> Locals]
  BY <1>4 DEF CheckCreate
<1>5. ASSUME NEW c \in Callers, NEW r \in Runs, CommitCreate(c, r)
      PROVE  my' \in [Callers -> Locals]
  BY <1>5 DEF CommitCreate, Return
<1>6. ASSUME NEW c \in Callers, RequestFails(c)
      PROVE  my' \in [Callers -> Locals]
  BY <1>6 DEF RequestFails, Return
<1>7. ASSUME NEW c \in Callers, NEW m \in Masks, NEW p \in Runs, Stage(c, m, p)
      PROVE  my' \in [Callers -> Locals]
  BY <1>7 DEF Stage
<1>8. ASSUME NEW c \in Callers, Register(c) PROVE my' \in [Callers -> Locals]
  BY <1>8 DEF Register
<1>9. ASSUME NEW c \in Callers, Issue(c) PROVE my' \in [Callers -> Locals]
  BY <1>9 DEF Issue, Return
<1>10. ASSUME NEW c \in Callers, StageFails(c)
      PROVE  my' \in [Callers -> Locals]
  BY <1>10 DEF StageFails, Return
<1>11. ASSUME NEW c \in Callers, NEW p \in Runs, NEW m \in Masks \cup {None},
              BeginReview(c, p, m)
      PROVE  my' \in [Callers -> Locals]
  BY <1>11 DEF BeginReview
<1>12. ASSUME NEW c \in Callers, Resolve(c) PROVE my' \in [Callers -> Locals]
  BY <1>12 DEF Resolve
<1>13. ASSUME NEW c \in Callers, NEW r \in Runs, CopyMask(c, r)
      PROVE  my' \in [Callers -> Locals]
  BY <1>13 DEF CopyMask
<1>14. ASSUME NEW c \in Callers, ReviewRefused(c)
      PROVE  my' \in [Callers -> Locals]
  BY <1>14 DEF ReviewRefused, Return
<1>15. ASSUME NEW c \in Callers, NEW r \in Runs, CommitReview(c, r)
      PROVE  my' \in [Callers -> Locals]
  BY <1>15 DEF CommitReview
<1>16. ASSUME NEW c \in Callers, ReviewFails(c)
      PROVE  my' \in [Callers -> Locals]
  BY <1>16 DEF ReviewFails, Return
<1>17. ASSUME NEW c \in Callers, DeleteUpload(c)
      PROVE  my' \in [Callers -> Locals]
  BY <1>17 DEF DeleteUpload, Return
<1>18. ASSUME NEW c \in Callers, DeleteUploadFails(c)
      PROVE  my' \in [Callers -> Locals]
  BY <1>18 DEF DeleteUploadFails, Return
<1>19. ASSUME NEW c \in Callers, NEW p \in Runs, FindStale(c, p)
      PROVE  my' \in [Callers -> Locals]
  BY <1>19 DEF FindStale
<1>20. ASSUME NEW c \in Callers, NEW r \in Runs, Requeue(c, r)
      PROVE  my' \in [Callers -> Locals]
  BY <1>20 DEF Requeue, Return
<1>21. ASSUME NEW c \in Callers, RequeueBlocked(c)
      PROVE  my' \in [Callers -> Locals]
  BY <1>21 DEF RequeueBlocked, Return
<1>22. ASSUME NEW c \in Callers, RequeueLost(c)
      PROVE  my' \in [Callers -> Locals]
  BY <1>22 DEF RequeueLost, Return
<1>23. ASSUME NEW r \in Runs, WorkerNext(r) PROVE my' \in [Callers -> Locals]
  <2>1. my' = my
    BY <1>23, WorkerEffect
  <2> QED
    BY <2>1, Types
<1>24. ASSUME Crash PROVE my' \in [Callers -> Locals]
  BY <1>24, FieldTypes DEF Crash
<1>25. CASE UNCHANGED vars
  BY <1>25, Types DEF vars, callers
<1>26. ASSUME NEW c \in Callers, StageLeavesFile(c)
      PROVE  my' \in [Callers -> Locals]
  BY <1>26 DEF StageLeavesFile, Return
<1>27. ASSUME NEW c \in Callers, Prepare(c) PROVE my' \in [Callers -> Locals]
  BY <1>27 DEF Prepare
<1>28. ASSUME NEW c \in Callers, PrepareFails(c)
      PROVE  my' \in [Callers -> Locals]
  BY <1>28 DEF PrepareFails, Return
<1>29. ASSUME NEW c \in Callers, ReviewLeavesCopy(c)
      PROVE  my' \in [Callers -> Locals]
  BY <1>29 DEF ReviewLeavesCopy, Return
<1> QED
  BY <1>1, <1>2, <1>3, <1>4, <1>5, <1>6, <1>7, <1>8, <1>9, <1>10, <1>11,
     <1>12, <1>13, <1>14, <1>15, <1>16, <1>17, <1>18, <1>19, <1>20, <1>21,
     <1>22, <1>23, <1>24, <1>25, <1>26, <1>27, <1>28, <1>29
     DEF Next, BoxesNext, MaskNext, ReviewNext, RecoveryNext

\* The rows of the runs keep their types.
LEMMA RunType ==
  ASSUME TypeOK, ChildInv, ReviewInv, ExecutingInv, FoundInv, [Next]_vars
  PROVE  run' \in [Runs -> RunRow]
<1> USE Types DEF rows
<1>1. ASSUME NEW c \in Callers, CommitReplace(c)
      PROVE  run' \in [Runs -> RunRow]
  BY <1>1 DEF CommitReplace
<1>2. ASSUME NEW c \in Callers, NEW r \in Runs, CommitCreate(c, r)
      PROVE  run' \in [Runs -> RunRow]
  BY <1>2, CreateEffect
<1>3. ASSUME NEW c \in Callers, Register(c) PROVE run' \in [Runs -> RunRow]
  BY <1>3 DEF Register
<1>4. ASSUME NEW c \in Callers, NEW r \in Runs, CommitReview(c, r)
      PROVE  run' \in [Runs -> RunRow]
  BY <1>4, ReviewEffect
<1>5. ASSUME NEW c \in Callers, NEW r \in Runs, Requeue(c, r)
      PROVE  run' \in [Runs -> RunRow]
  BY <1>5, RequeueEffect
<1>6. ASSUME NEW c \in Callers, RequeueBlocked(c)
      PROVE  run' \in [Runs -> RunRow]
  BY <1>6, BlockedEffect
<1>7. ASSUME NEW r \in Runs, WorkerNext(r) PROVE run' \in [Runs -> RunRow]
  BY <1>7, WorkerEffect
<1>8. CASE UNCHANGED rows
  BY <1>8
<1> QED
  BY <1>1, <1>2, <1>3, <1>4, <1>5, <1>6, <1>7, <1>8, RowSteps

\* Every step keeps every type.
LEMMA StepTypeOK ==
  ASSUME TypeOK, BehindInv, UploadInv, ChildInv, ReviewInv, ExecutingInv, FoundInv,
         [Next]_vars
  PROVE  TypeOK'
<1> DEFINE Others ==
      /\ revision \in 0..MaxRevision
      /\ authors \in [Revisions -> SUBSET Callers]
      /\ mask \in [Masks -> [state : {"none", "active", "consumed"},
                             parent : Runs \cup {None}]]
      /\ staged \in SUBSET Masks
      /\ copy \in [Runs -> Masks \cup {None}]
      /\ lostUploads \in SUBSET Masks
      /\ lostCopies \in SUBSET Runs
      /\ issued \in SUBSET Masks
      /\ executing \in SUBSET Runs
      /\ pc \in [Callers -> {"idle", "looked", "replace", "create", "register",
                             "issue", "resolve", "recheck", "prepare", "review",
                             "delete", "requeue"}]
      /\ mishaps \in 0..MaxMishaps
<1> SUFFICES Others'
  BY MyType, RunType DEF TypeOK, RunRow, Locals
<1>a. Others
  BY DEF TypeOK
<1> USE <1>a, RunInputsAssumptions, Types
    DEF UploadInv, ChildInv, ReviewInv, rows, files, lost, Goto, Return
<1>1. ASSUME NEW c \in Callers, Look(c) PROVE Others'
  BY <1>1 DEF Look
<1>2. ASSUME NEW c \in Callers, CheckReplace(c) PROVE Others'
  BY <1>2 DEF CheckReplace
<1>3. ASSUME NEW c \in Callers, CommitReplace(c) PROVE Others'
  BY <1>3 DEF CommitReplace, BehindInv, Revisions
<1>4. ASSUME NEW c \in Callers, CheckCreate(c) PROVE Others'
  BY <1>4 DEF CheckCreate
<1>5. ASSUME NEW c \in Callers, NEW r \in Runs, CommitCreate(c, r)
      PROVE  Others'
  BY <1>5 DEF CommitCreate
<1>6. ASSUME NEW c \in Callers, RequestFails(c) PROVE Others'
  BY <1>6 DEF RequestFails
<1>7. ASSUME NEW c \in Callers, NEW m \in Masks, NEW p \in Runs, Stage(c, m, p)
      PROVE  Others'
  BY <1>7 DEF Stage
<1>8. ASSUME NEW c \in Callers, Register(c) PROVE Others'
  BY <1>8 DEF Register
<1>9. ASSUME NEW c \in Callers, Issue(c) PROVE Others'
  BY <1>9 DEF Issue
<1>10. ASSUME NEW c \in Callers, StageFails(c) PROVE Others'
  BY <1>10 DEF StageFails
<1>11. ASSUME NEW c \in Callers, NEW p \in Runs, NEW m \in Masks \cup {None},
              BeginReview(c, p, m)
      PROVE  Others'
  BY <1>11 DEF BeginReview
<1>12. ASSUME NEW c \in Callers, Resolve(c) PROVE Others'
  BY <1>12 DEF Resolve
<1>13. ASSUME NEW c \in Callers, NEW r \in Runs, CopyMask(c, r) PROVE Others'
  BY <1>13 DEF CopyMask
<1>14. ASSUME NEW c \in Callers, ReviewRefused(c) PROVE Others'
  BY <1>14 DEF ReviewRefused
<1>15. ASSUME NEW c \in Callers, NEW r \in Runs, CommitReview(c, r)
      PROVE  Others'
  BY <1>15 DEF CommitReview
<1>16. ASSUME NEW c \in Callers, ReviewFails(c) PROVE Others'
  BY <1>16 DEF ReviewFails
<1>17. ASSUME NEW c \in Callers, DeleteUpload(c) PROVE Others'
  BY <1>17 DEF DeleteUpload
<1>18. ASSUME NEW c \in Callers, DeleteUploadFails(c) PROVE Others'
  BY <1>18 DEF DeleteUploadFails
<1>19. ASSUME NEW c \in Callers, NEW p \in Runs, FindStale(c, p) PROVE Others'
  BY <1>19 DEF FindStale
<1>20. ASSUME NEW c \in Callers, NEW r \in Runs, Requeue(c, r) PROVE Others'
  BY <1>20 DEF Requeue
<1>21. ASSUME NEW c \in Callers, RequeueBlocked(c) PROVE Others'
  BY <1>21 DEF RequeueBlocked
<1>22. ASSUME NEW c \in Callers, RequeueLost(c) PROVE Others'
  BY <1>22 DEF RequeueLost
<1>23. ASSUME NEW r \in Runs, WorkerNext(r) PROVE Others'
  BY <1>23, WorkerEffect
<1>24. ASSUME Crash PROVE Others'
  <2>1. HeldUploads \subseteq Masks /\ HeldCopies \subseteq Runs
    BY DEF HeldUploads, HeldCopies
  <2> QED
    BY <1>24, <2>1 DEF Crash
<1>25. CASE UNCHANGED vars
  BY <1>25 DEF vars, callers
<1>26. ASSUME NEW c \in Callers, StageLeavesFile(c) PROVE Others'
  BY <1>26 DEF StageLeavesFile
<1>27. ASSUME NEW c \in Callers, Prepare(c) PROVE Others'
  BY <1>27 DEF Prepare
<1>28. ASSUME NEW c \in Callers, PrepareFails(c) PROVE Others'
  BY <1>28 DEF PrepareFails
<1>29. ASSUME NEW c \in Callers, ReviewLeavesCopy(c) PROVE Others'
  BY <1>29 DEF ReviewLeavesCopy
<1> QED
  BY <1>1, <1>2, <1>3, <1>4, <1>5, <1>6, <1>7, <1>8, <1>9, <1>10, <1>11,
     <1>12, <1>13, <1>14, <1>15, <1>16, <1>17, <1>18, <1>19, <1>20, <1>21,
     <1>22, <1>23, <1>24, <1>25, <1>26, <1>27, <1>28, <1>29
     DEF Next, BoxesNext, MaskNext, ReviewNext, RecoveryNext

\* A revision is claimed once.
LEMMA AuthorsStep ==
  ASSUME TypeOK, AuthorsInv, BehindInv, ChildInv, ReviewInv, ExecutingInv,
         FoundInv, [Next]_vars
  PROVE  AuthorsInv'
<1> USE RunInputsAssumptions, Types DEF AuthorsInv, rows
<1>1. ASSUME NEW c \in Callers, CommitReplace(c) PROVE AuthorsInv'
  <2>1. /\ revision' = revision + 1 /\ revision + 1 \in Revisions
        /\ authors' = [authors EXCEPT ![revision + 1] = @ \cup {c}]
        /\ authors \in [Revisions -> SUBSET Callers]
    BY <1>1 DEF CommitReplace, BehindInv, Revisions, TypeOK
  <2>2. authors[revision + 1] = {}
    BY <2>1 DEF Revisions
  <2>3. authors'[revision + 1] = {c}
        /\ \A v \in Revisions \ {revision + 1} : authors'[v] = authors[v]
    BY <2>1, <2>2
  <2>4. \A v \in Revisions \ {revision + 1} : v <= revision + 1 <=> v <= revision
    BY DEF Revisions
  <2> QED
    BY SMTT(20), <2>1, <2>3, <2>4
<1>2. ASSUME NEW c \in Callers, NEW r \in Runs, CommitCreate(c, r)
      PROVE  AuthorsInv'
  BY SMTT(20), <1>2, CreateEffect
<1>3. ASSUME NEW c \in Callers, Register(c) PROVE AuthorsInv'
  BY <1>3 DEF Register
<1>4. ASSUME NEW c \in Callers, NEW r \in Runs, CommitReview(c, r)
      PROVE  AuthorsInv'
  BY SMTT(20), <1>4, ReviewEffect
<1>5. ASSUME NEW c \in Callers, NEW r \in Runs, Requeue(c, r)
      PROVE  AuthorsInv'
  BY <1>5 DEF Requeue
<1>6. ASSUME NEW c \in Callers, RequeueBlocked(c) PROVE AuthorsInv'
  BY <1>6 DEF RequeueBlocked
<1>7. ASSUME NEW r \in Runs, WorkerNext(r) PROVE AuthorsInv'
  BY <1>7, WorkerEffect
<1>8. CASE UNCHANGED rows
  BY <1>8
<1> QED
  BY <1>1, <1>2, <1>3, <1>4, <1>5, <1>6, <1>7, <1>8, RowSteps

\* Nobody is ahead of the revision.
LEMMA BehindStep ==
  ASSUME TypeOK, BehindInv, ChildInv, ReviewInv, ExecutingInv, FoundInv,
         [Next]_vars
  PROVE  BehindInv'
<1> USE RunInputsAssumptions, Types DEF BehindInv, Goto, Blank, rows
<1>1. ASSUME NEW c \in Callers, Look(c) PROVE BehindInv'
  BY <1>1, LookEffect
<1>2. ASSUME NEW c \in Callers, CheckReplace(c) PROVE BehindInv'
  BY <1>2 DEF CheckReplace
<1>3. ASSUME NEW c \in Callers, CommitReplace(c) PROVE BehindInv'
  BY <1>3, ReturnEffect DEF CommitReplace
<1>4. ASSUME NEW c \in Callers, CheckCreate(c) PROVE BehindInv'
  BY <1>4, CheckCreateEffect
<1>5. ASSUME NEW c \in Callers, NEW r \in Runs, CommitCreate(c, r)
      PROVE  BehindInv'
  BY <1>5, CreateEffect
<1>6. ASSUME NEW c \in Callers, RequestFails(c) PROVE BehindInv'
  BY <1>6, ReturnEffect DEF RequestFails
<1>7. ASSUME NEW c \in Callers, NEW m \in Masks, NEW p \in Runs, Stage(c, m, p)
      PROVE  BehindInv'
  <2>1. \A d \in Callers : my'[d].seen = my[d].seen
    BY <1>7, StageEffect
  <2>2. \A d \in Callers : pc'[d] = "replace" => pc[d] = "replace"
    BY <1>7, StageEffect
  <2>3. UNCHANGED <<revision, run>>
    BY <1>7, StageEffect
  <2> QED
    BY <2>1, <2>2, <2>3
<1>8. ASSUME NEW c \in Callers, Register(c) PROVE BehindInv'
  BY <1>8 DEF Register
<1>9. ASSUME NEW c \in Callers, Issue(c) PROVE BehindInv'
  BY <1>9, ReturnEffect DEF Issue
<1>10. ASSUME NEW c \in Callers, StageFails(c) PROVE BehindInv'
  BY <1>10, ReturnEffect DEF StageFails
<1>11. ASSUME NEW c \in Callers, NEW p \in Runs, NEW m \in Masks \cup {None},
              BeginReview(c, p, m)
      PROVE  BehindInv'
  BY <1>11, BeginReviewEffect
<1>12. ASSUME NEW c \in Callers, Resolve(c) PROVE BehindInv'
  BY <1>12 DEF Resolve
<1>13. ASSUME NEW c \in Callers, NEW r \in Runs, CopyMask(c, r)
      PROVE  BehindInv'
  BY <1>13 DEF CopyMask
<1>14. ASSUME NEW c \in Callers, ReviewRefused(c) PROVE BehindInv'
  BY <1>14, ReturnEffect DEF ReviewRefused
<1>15. ASSUME NEW c \in Callers, NEW r \in Runs, CommitReview(c, r)
      PROVE  BehindInv'
  BY SMTT(20), <1>15, ReviewEffect
<1>16. ASSUME NEW c \in Callers, ReviewFails(c) PROVE BehindInv'
  BY <1>16, ReturnEffect DEF ReviewFails
<1>17. ASSUME NEW c \in Callers, DeleteUpload(c) PROVE BehindInv'
  BY <1>17, ReturnEffect DEF DeleteUpload
<1>18. ASSUME NEW c \in Callers, DeleteUploadFails(c) PROVE BehindInv'
  BY <1>18, ReturnEffect DEF DeleteUploadFails
<1>19. ASSUME NEW c \in Callers, NEW p \in Runs, FindStale(c, p)
      PROVE  BehindInv'
  BY <1>19 DEF FindStale
<1>20. ASSUME NEW c \in Callers, NEW r \in Runs, Requeue(c, r)
      PROVE  BehindInv'
  <2>1. run[my[c].parent].boxes <= revision
    BY <1>20, RequeueEffect
  <2>2. \A s \in Runs : run'[s].boxes \in {run[s].boxes, run[my[c].parent].boxes}
    BY <1>20, RequeueEffect
  <2>3. \A d \in Callers : my'[d].seen \in {0, my[d].seen}
    BY <1>20, RequeueEffect
  <2>4. \A d \in Callers : pc'[d] = "replace" => pc[d] = "replace" /\ my'[d] = my[d]
    BY <1>20, RequeueEffect
  <2>5. UNCHANGED revision /\ revision \in Nat
    BY <1>20, RequeueEffect DEF TypeOK
  <2>6. \A s \in Runs : run'[s].boxes <= revision
    BY <2>1, <2>2
  <2> QED
    BY <2>3, <2>4, <2>5, <2>6
<1>21. ASSUME NEW c \in Callers, RequeueBlocked(c) PROVE BehindInv'
  BY <1>21, BlockedEffect
<1>22. ASSUME NEW c \in Callers, RequeueLost(c) PROVE BehindInv'
  BY <1>22, ReturnEffect DEF RequeueLost
<1>23. ASSUME NEW r \in Runs, WorkerNext(r) PROVE BehindInv'
  BY <1>23, WorkerEffect
<1>24. ASSUME Crash PROVE BehindInv'
  BY <1>24 DEF Crash
<1>25. CASE UNCHANGED vars
  BY <1>25 DEF vars, callers
<1>26. ASSUME NEW c \in Callers, StageLeavesFile(c) PROVE BehindInv'
  BY <1>26, ReturnEffect DEF StageLeavesFile
<1>27. ASSUME NEW c \in Callers, Prepare(c) PROVE BehindInv'
  BY <1>27 DEF Prepare
<1>28. ASSUME NEW c \in Callers, PrepareFails(c) PROVE BehindInv'
  BY <1>28, ReturnEffect DEF PrepareFails
<1>29. ASSUME NEW c \in Callers, ReviewLeavesCopy(c) PROVE BehindInv'
  BY <1>29, ReturnEffect DEF ReviewLeavesCopy
<1> QED
  BY <1>1, <1>2, <1>3, <1>4, <1>5, <1>6, <1>7, <1>8, <1>9, <1>10, <1>11,
     <1>12, <1>13, <1>14, <1>15, <1>16, <1>17, <1>18, <1>19, <1>20, <1>21,
     <1>22, <1>23, <1>24, <1>25, <1>26, <1>27, <1>28, <1>29
     DEF Next, BoxesNext, MaskNext, ReviewNext, RecoveryNext

\* What callers upload stays theirs.
LEMMA UploadStep ==
  ASSUME TypeOK, UploadInv, TokenInv, ChildInv, ReviewInv, ExecutingInv,
         FoundInv, [Next]_vars
  PROVE  UploadInv'
<1> USE RunInputsAssumptions, Types DEF UploadInv, Goto, Blank, rows, files
<1>1. ASSUME NEW c \in Callers, Look(c) PROVE UploadInv'
  BY <1>1, LookEffect
<1>2. ASSUME NEW c \in Callers, CheckReplace(c) PROVE UploadInv'
  BY <1>2 DEF CheckReplace
<1>3. ASSUME NEW c \in Callers, CommitReplace(c) PROVE UploadInv'
  BY <1>3, ReturnEffect DEF CommitReplace
<1>4. ASSUME NEW c \in Callers, CheckCreate(c) PROVE UploadInv'
  BY <1>4, CheckCreateEffect
<1>5. ASSUME NEW c \in Callers, NEW r \in Runs, CommitCreate(c, r)
      PROVE  UploadInv'
  BY <1>5, CreateEffect
<1>6. ASSUME NEW c \in Callers, RequestFails(c) PROVE UploadInv'
  BY <1>6, ReturnEffect DEF RequestFails
<1>7. ASSUME NEW c \in Callers, NEW m \in Masks, NEW p \in Runs, Stage(c, m, p)
      PROVE  UploadInv'
  BY SMTT(20), <1>7, StageEffect DEF TokenInv
<1>8. ASSUME NEW c \in Callers, Register(c) PROVE UploadInv'
  BY <1>8 DEF Register
<1>9. ASSUME NEW c \in Callers, Issue(c) PROVE UploadInv'
  BY <1>9, ReturnEffect DEF Issue
<1>10. ASSUME NEW c \in Callers, StageFails(c) PROVE UploadInv'
  BY <1>10, ReturnEffect DEF StageFails
<1>11. ASSUME NEW c \in Callers, NEW p \in Runs, NEW m \in Masks \cup {None},
              BeginReview(c, p, m)
      PROVE  UploadInv'
  BY SMTT(20), <1>11, BeginReviewEffect
<1>12. ASSUME NEW c \in Callers, Resolve(c) PROVE UploadInv'
  BY <1>12 DEF Resolve
<1>13. ASSUME NEW c \in Callers, NEW r \in Runs, CopyMask(c, r)
      PROVE  UploadInv'
  BY <1>13 DEF CopyMask
<1>14. ASSUME NEW c \in Callers, ReviewRefused(c) PROVE UploadInv'
  BY <1>14, ReturnEffect DEF ReviewRefused
<1>15. ASSUME NEW c \in Callers, NEW r \in Runs, CommitReview(c, r)
      PROVE  UploadInv'
  BY <1>15, ReviewEffect
<1>16. ASSUME NEW c \in Callers, ReviewFails(c) PROVE UploadInv'
  BY <1>16, ReturnEffect DEF ReviewFails
<1>17. ASSUME NEW c \in Callers, DeleteUpload(c) PROVE UploadInv'
  BY <1>17, ReturnEffect DEF DeleteUpload
<1>18. ASSUME NEW c \in Callers, DeleteUploadFails(c) PROVE UploadInv'
  BY <1>18, ReturnEffect DEF DeleteUploadFails
<1>19. ASSUME NEW c \in Callers, NEW p \in Runs, FindStale(c, p)
      PROVE  UploadInv'
  BY <1>19 DEF FindStale
<1>20. ASSUME NEW c \in Callers, NEW r \in Runs, Requeue(c, r)
      PROVE  UploadInv'
  BY <1>20, RequeueEffect
<1>21. ASSUME NEW c \in Callers, RequeueBlocked(c) PROVE UploadInv'
  BY SMTT(20), <1>21, BlockedEffect
<1>22. ASSUME NEW c \in Callers, RequeueLost(c) PROVE UploadInv'
  BY <1>22, ReturnEffect DEF RequeueLost
<1>23. ASSUME NEW r \in Runs, WorkerNext(r) PROVE UploadInv'
  BY <1>23, WorkerEffect
<1>24. ASSUME Crash PROVE UploadInv'
  BY <1>24 DEF Crash
<1>25. CASE UNCHANGED vars
  BY <1>25 DEF vars, callers
<1>26. ASSUME NEW c \in Callers, StageLeavesFile(c) PROVE UploadInv'
  BY <1>26, ReturnEffect DEF StageLeavesFile
<1>27. ASSUME NEW c \in Callers, Prepare(c) PROVE UploadInv'
  BY <1>27 DEF Prepare
<1>28. ASSUME NEW c \in Callers, PrepareFails(c) PROVE UploadInv'
  BY <1>28, ReturnEffect DEF PrepareFails
<1>29. ASSUME NEW c \in Callers, ReviewLeavesCopy(c) PROVE UploadInv'
  BY <1>29, ReturnEffect DEF ReviewLeavesCopy
<1> QED
  BY <1>1, <1>2, <1>3, <1>4, <1>5, <1>6, <1>7, <1>8, <1>9, <1>10, <1>11,
     <1>12, <1>13, <1>14, <1>15, <1>16, <1>17, <1>18, <1>19, <1>20, <1>21,
     <1>22, <1>23, <1>24, <1>25, <1>26, <1>27, <1>28, <1>29
     DEF Next, BoxesNext, MaskNext, ReviewNext, RecoveryNext

\* What callers copy stays theirs.
LEMMA ChildStep ==
  ASSUME TypeOK, ChildInv, TokenInv, ReviewInv, ExecutingInv, FoundInv,
         [Next]_vars
  PROVE  ChildInv'
<1> USE RunInputsAssumptions, Types DEF ChildInv, Goto, Blank, rows, files
<1>1. ASSUME NEW c \in Callers, Look(c) PROVE ChildInv'
  BY <1>1, LookEffect
<1>2. ASSUME NEW c \in Callers, CheckReplace(c) PROVE ChildInv'
  BY <1>2 DEF CheckReplace
<1>3. ASSUME NEW c \in Callers, CommitReplace(c) PROVE ChildInv'
  BY <1>3, ReturnEffect DEF CommitReplace
<1>4. ASSUME NEW c \in Callers, CheckCreate(c) PROVE ChildInv'
  BY <1>4, CheckCreateEffect
<1>5. ASSUME NEW c \in Callers, NEW r \in Runs, CommitCreate(c, r)
      PROVE  ChildInv'
  BY <1>5, CreateEffect
<1>6. ASSUME NEW c \in Callers, RequestFails(c) PROVE ChildInv'
  BY <1>6, ReturnEffect DEF RequestFails
<1>7. ASSUME NEW c \in Callers, NEW m \in Masks, NEW p \in Runs, Stage(c, m, p)
      PROVE  ChildInv'
  BY <1>7, StageEffect
<1>8. ASSUME NEW c \in Callers, Register(c) PROVE ChildInv'
  BY <1>8 DEF Register
<1>9. ASSUME NEW c \in Callers, Issue(c) PROVE ChildInv'
  BY <1>9, ReturnEffect DEF Issue
<1>10. ASSUME NEW c \in Callers, StageFails(c) PROVE ChildInv'
  BY <1>10, ReturnEffect DEF StageFails
<1>11. ASSUME NEW c \in Callers, NEW p \in Runs, NEW m \in Masks \cup {None},
              BeginReview(c, p, m)
      PROVE  ChildInv'
  <2>1. \A d \in Callers : my'[d].child = my[d].child
    BY <1>11, BeginReviewEffect
  <2>2. \A d \in Callers : my[d].child # None => pc'[d] = pc[d] /\ my'[d] = my[d]
    BY <1>11, BeginReviewEffect
  <2>3. UNCHANGED <<run, copy>>
    BY <1>11, BeginReviewEffect
  <2> QED
    BY <2>1, <2>2, <2>3
<1>12. ASSUME NEW c \in Callers, Resolve(c) PROVE ChildInv'
  BY <1>12 DEF Resolve
<1>13. ASSUME NEW c \in Callers, NEW r \in Runs, CopyMask(c, r)
      PROVE  ChildInv'
  BY <1>13 DEF CopyMask, Fresh, Present, ReviewInv
<1>14. ASSUME NEW c \in Callers, ReviewRefused(c) PROVE ChildInv'
  BY <1>14, ReturnEffect DEF ReviewRefused
<1>15. ASSUME NEW c \in Callers, NEW r \in Runs, CommitReview(c, r)
      PROVE  ChildInv'
  <2>1. /\ my'[c].child = None
        /\ \A d \in Callers \ {c} : pc'[d] = pc[d] /\ my'[d] = my[d]
    BY <1>15, ReviewEffect
  <2>2. /\ \A d \in Callers \ {c} : my[d].child # r
        /\ \A s \in Runs \ {r} : run'[s] = run[s]
    BY <1>15, ReviewEffect
  <2>3. UNCHANGED copy
    BY <1>15, ReviewEffect
  <2> QED
    BY <2>1, <2>2, <2>3
<1>16. ASSUME NEW c \in Callers, ReviewFails(c) PROVE ChildInv'
  <2>1. /\ my'[c].child = None
        /\ \A d \in Callers \ {c} : pc'[d] = pc[d] /\ my'[d] = my[d]
    BY <1>16, ReturnEffect DEF ReviewFails
  <2>2. \A d \in Callers \ {c} : my[d].child # None =>
          copy'[my[d].child] = copy[my[d].child]
    BY <1>16 DEF ReviewFails
  <2>3. UNCHANGED run
    BY <1>16 DEF ReviewFails
  <2> QED
    BY <2>1, <2>2, <2>3
<1>17. ASSUME NEW c \in Callers, DeleteUpload(c) PROVE ChildInv'
  BY <1>17, ReturnEffect DEF DeleteUpload
<1>18. ASSUME NEW c \in Callers, DeleteUploadFails(c) PROVE ChildInv'
  BY <1>18, ReturnEffect DEF DeleteUploadFails
<1>19. ASSUME NEW c \in Callers, NEW p \in Runs, FindStale(c, p)
      PROVE  ChildInv'
  BY <1>19 DEF FindStale
<1>20. ASSUME NEW c \in Callers, NEW r \in Runs, Requeue(c, r) PROVE ChildInv'
  <2>1. \A d \in Callers : my'[d].child # None =>
          d # c /\ pc'[d] = pc[d] /\ my'[d] = my[d] /\ my[d].child # r
    BY <1>20, RequeueEffect
  <2>2. \A s \in Runs \ {r} : run[s].state = "absent" => run'[s] = run[s]
    BY <1>20, RequeueEffect
  <2>3. UNCHANGED copy
    BY <1>20, RequeueEffect
  <2> QED
    BY <2>1, <2>2, <2>3
<1>21. ASSUME NEW c \in Callers, RequeueBlocked(c) PROVE ChildInv'
  <2>1. \A d \in Callers : my'[d].child # None =>
          d # c /\ pc'[d] = pc[d] /\ my'[d] = my[d]
    BY <1>21, BlockedEffect
  <2>2. \A s \in Runs : run[s].state = "absent" => run'[s] = run[s]
    BY <1>21, BlockedEffect
  <2>3. UNCHANGED copy
    BY <1>21, BlockedEffect
  <2> QED
    BY <2>1, <2>2, <2>3
<1>22. ASSUME NEW c \in Callers, RequeueLost(c) PROVE ChildInv'
  BY <1>22, ReturnEffect DEF RequeueLost
<1>23. ASSUME NEW r \in Runs, WorkerNext(r) PROVE ChildInv'
  BY <1>23, WorkerEffect
<1>24. ASSUME Crash PROVE ChildInv'
  BY <1>24 DEF Crash
<1>25. CASE UNCHANGED vars
  BY <1>25 DEF vars, callers
<1>26. ASSUME NEW c \in Callers, StageLeavesFile(c) PROVE ChildInv'
  BY <1>26, ReturnEffect DEF StageLeavesFile
<1>27. ASSUME NEW c \in Callers, Prepare(c) PROVE ChildInv'
  BY <1>27 DEF Prepare
<1>28. ASSUME NEW c \in Callers, PrepareFails(c) PROVE ChildInv'
  BY <1>28, ReturnEffect DEF PrepareFails
<1>29. ASSUME NEW c \in Callers, ReviewLeavesCopy(c) PROVE ChildInv'
  BY <1>29, ReturnEffect DEF ReviewLeavesCopy
<1> QED
  BY <1>1, <1>2, <1>3, <1>4, <1>5, <1>6, <1>7, <1>8, <1>9, <1>10, <1>11,
     <1>12, <1>13, <1>14, <1>15, <1>16, <1>17, <1>18, <1>19, <1>20, <1>21,
     <1>22, <1>23, <1>24, <1>25, <1>26, <1>27, <1>28, <1>29
     DEF Next, BoxesNext, MaskNext, ReviewNext, RecoveryNext

\* What a request has read stays true.
LEMMA ReviewStep ==
  ASSUME TypeOK, ReviewInv, UploadInv, ChildInv, ExecutingInv, FoundInv,
         [Next]_vars
  PROVE  ReviewInv'
<1> USE RunInputsAssumptions, Types DEF ReviewInv, Goto, Blank, rows, files
<1>1. ASSUME NEW c \in Callers, Look(c) PROVE ReviewInv'
  BY <1>1, LookEffect
<1>2. ASSUME NEW c \in Callers, CheckReplace(c) PROVE ReviewInv'
  BY <1>2 DEF CheckReplace
<1>3. ASSUME NEW c \in Callers, CommitReplace(c) PROVE ReviewInv'
  BY <1>3, ReturnEffect DEF CommitReplace
<1>4. ASSUME NEW c \in Callers, CheckCreate(c) PROVE ReviewInv'
  BY <1>4, CheckCreateEffect
<1>5. ASSUME NEW c \in Callers, NEW r \in Runs, CommitCreate(c, r)
      PROVE  ReviewInv'
  BY <1>5, CreateEffect
<1>6. ASSUME NEW c \in Callers, RequestFails(c) PROVE ReviewInv'
  BY <1>6, ReturnEffect DEF RequestFails
<1>7. ASSUME NEW c \in Callers, NEW m \in Masks, NEW p \in Runs, Stage(c, m, p)
      PROVE  ReviewInv'
  BY <1>7, StageEffect
<1>8. ASSUME NEW c \in Callers, Register(c) PROVE ReviewInv'
  BY <1>8 DEF Register, UploadInv
<1>9. ASSUME NEW c \in Callers, Issue(c) PROVE ReviewInv'
  BY <1>9, ReturnEffect DEF Issue
<1>10. ASSUME NEW c \in Callers, StageFails(c) PROVE ReviewInv'
  BY <1>10, ReturnEffect DEF StageFails
<1>11. ASSUME NEW c \in Callers, NEW p \in Runs, NEW m \in Masks \cup {None},
              BeginReview(c, p, m)
      PROVE  ReviewInv'
  BY <1>11, BeginReviewEffect
<1>12. ASSUME NEW c \in Callers, Resolve(c) PROVE ReviewInv'
  BY <1>12 DEF Resolve
<1>13. ASSUME NEW c \in Callers, NEW r \in Runs, CopyMask(c, r)
      PROVE  ReviewInv'
  BY <1>13 DEF CopyMask
<1>14. ASSUME NEW c \in Callers, ReviewRefused(c) PROVE ReviewInv'
  BY <1>14, ReturnEffect DEF ReviewRefused
<1>15. ASSUME NEW c \in Callers, NEW r \in Runs, CommitReview(c, r)
      PROVE  ReviewInv'
  <2>1. CASE my[c].mask = None
    BY <1>15, <2>1, ReviewEffect
  <2>2. CASE my[c].mask # None
    BY <1>15, <2>2, ReviewEffect
  <2> QED
    BY <2>1, <2>2
<1>16. ASSUME NEW c \in Callers, ReviewFails(c) PROVE ReviewInv'
  BY <1>16, ReturnEffect DEF ReviewFails
<1>17. ASSUME NEW c \in Callers, DeleteUpload(c) PROVE ReviewInv'
  BY <1>17, ReturnEffect DEF DeleteUpload
<1>18. ASSUME NEW c \in Callers, DeleteUploadFails(c) PROVE ReviewInv'
  BY <1>18, ReturnEffect DEF DeleteUploadFails
<1>19. ASSUME NEW c \in Callers, NEW p \in Runs, FindStale(c, p)
      PROVE  ReviewInv'
  BY <1>19 DEF FindStale
<1>20. ASSUME NEW c \in Callers, NEW r \in Runs, Requeue(c, r)
      PROVE  ReviewInv'
  BY <1>20, RequeueEffect
<1>21. ASSUME NEW c \in Callers, RequeueBlocked(c) PROVE ReviewInv'
  BY <1>21, BlockedEffect
<1>22. ASSUME NEW c \in Callers, RequeueLost(c) PROVE ReviewInv'
  BY <1>22, ReturnEffect DEF RequeueLost
<1>23. ASSUME NEW r \in Runs, WorkerNext(r) PROVE ReviewInv'
  BY <1>23, WorkerEffect
<1>24. ASSUME Crash PROVE ReviewInv'
  BY <1>24 DEF Crash
<1>25. CASE UNCHANGED vars
  BY <1>25 DEF vars, callers
<1>26. ASSUME NEW c \in Callers, StageLeavesFile(c) PROVE ReviewInv'
  BY <1>26, ReturnEffect DEF StageLeavesFile
<1>27. ASSUME NEW c \in Callers, Prepare(c) PROVE ReviewInv'
  BY <1>27 DEF Prepare
<1>28. ASSUME NEW c \in Callers, PrepareFails(c) PROVE ReviewInv'
  BY <1>28, ReturnEffect DEF PrepareFails
<1>29. ASSUME NEW c \in Callers, ReviewLeavesCopy(c) PROVE ReviewInv'
  BY <1>29, ReturnEffect DEF ReviewLeavesCopy
<1> QED
  BY <1>1, <1>2, <1>3, <1>4, <1>5, <1>6, <1>7, <1>8, <1>9, <1>10, <1>11,
     <1>12, <1>13, <1>14, <1>15, <1>16, <1>17, <1>18, <1>19, <1>20, <1>21,
     <1>22, <1>23, <1>24, <1>25, <1>26, <1>27, <1>28, <1>29
     DEF Next, BoxesNext, MaskNext, ReviewNext, RecoveryNext

\* Tokens and rows agree.
LEMMA TokenStep ==
  ASSUME TypeOK, TokenInv, UploadInv, ChildInv, ReviewInv, ExecutingInv,
         FoundInv, [Next]_vars
  PROVE  TokenInv'
<1> USE RunInputsAssumptions, Types DEF TokenInv, Present, rows, files
<1>1. ASSUME NEW c \in Callers, Look(c) PROVE TokenInv'
  BY <1>1, LookEffect
<1>2. ASSUME NEW c \in Callers, CheckReplace(c) PROVE TokenInv'
  BY <1>2 DEF CheckReplace
<1>3. ASSUME NEW c \in Callers, CommitReplace(c) PROVE TokenInv'
  BY <1>3 DEF CommitReplace
<1>4. ASSUME NEW c \in Callers, CheckCreate(c) PROVE TokenInv'
  BY <1>4, CheckCreateEffect
<1>5. ASSUME NEW c \in Callers, NEW r \in Runs, CommitCreate(c, r)
      PROVE  TokenInv'
  BY <1>5, CreateEffect
<1>6. ASSUME NEW c \in Callers, RequestFails(c) PROVE TokenInv'
  BY <1>6, ReturnEffect DEF RequestFails
<1>7. ASSUME NEW c \in Callers, NEW m \in Masks, NEW p \in Runs, Stage(c, m, p)
      PROVE  TokenInv'
  BY <1>7, StageEffect
<1>8. ASSUME NEW c \in Callers, Register(c) PROVE TokenInv'
  BY <1>8 DEF Register, UploadInv, Goto
<1>9. ASSUME NEW c \in Callers, Issue(c) PROVE TokenInv'
  BY <1>9 DEF Issue, UploadInv
<1>10. ASSUME NEW c \in Callers, StageFails(c) PROVE TokenInv'
  BY <1>10, ReturnEffect DEF StageFails
<1>11. ASSUME NEW c \in Callers, NEW p \in Runs, NEW m \in Masks \cup {None},
              BeginReview(c, p, m)
      PROVE  TokenInv'
  BY <1>11, BeginReviewEffect
<1>12. ASSUME NEW c \in Callers, Resolve(c) PROVE TokenInv'
  BY <1>12 DEF Resolve
<1>13. ASSUME NEW c \in Callers, NEW r \in Runs, CopyMask(c, r)
      PROVE  TokenInv'
  BY <1>13 DEF CopyMask
<1>14. ASSUME NEW c \in Callers, ReviewRefused(c) PROVE TokenInv'
  BY <1>14, ReturnEffect DEF ReviewRefused
<1>15. ASSUME NEW c \in Callers, NEW r \in Runs, CommitReview(c, r)
      PROVE  TokenInv'
  <2>1. CASE my[c].mask = None
    BY <1>15, <2>1, ReviewEffect
  <2>2. CASE my[c].mask # None
    <3> DEFINE m == my[c].mask
    <3>1. /\ m \in issued /\ mask'[m].state = "consumed" /\ run'[r].mask = m
          /\ \A n \in Masks \ {m} : mask'[n] = mask[n]
          /\ \A s \in Runs \ {r} : run'[s] = run[s]
          /\ UNCHANGED issued
      BY <1>15, <2>2, ReviewEffect
    <3> HIDE DEF m
    <3>2. \A n \in issued : mask'[n].state # "none"
      BY <3>1
    <3>3. \A n \in Masks : mask'[n].state = "consumed" => n \in issued
      BY <3>1
    <3>4. ASSUME NEW s \in Present', run'[s].mask # None
          PROVE  mask'[run'[s].mask].state = "consumed"
      BY <3>1, <3>4
    <3> QED
      BY <3>1, <3>2, <3>3, <3>4
  <2> QED
    BY <2>1, <2>2
<1>16. ASSUME NEW c \in Callers, ReviewFails(c) PROVE TokenInv'
  BY <1>16, ReturnEffect DEF ReviewFails
<1>17. ASSUME NEW c \in Callers, DeleteUpload(c) PROVE TokenInv'
  BY <1>17, ReturnEffect DEF DeleteUpload
<1>18. ASSUME NEW c \in Callers, DeleteUploadFails(c) PROVE TokenInv'
  BY <1>18, ReturnEffect DEF DeleteUploadFails
<1>19. ASSUME NEW c \in Callers, NEW p \in Runs, FindStale(c, p)
      PROVE  TokenInv'
  BY <1>19 DEF FindStale
<1>20. ASSUME NEW c \in Callers, NEW r \in Runs, Requeue(c, r) PROVE TokenInv'
  <2>1. \A s \in Present' : run'[s].mask # None => s \in Present /\ run'[s].mask = run[s].mask
    BY <1>20, RequeueEffect
  <2>2. UNCHANGED <<mask, issued>>
    BY <1>20 DEF Requeue
  <2> QED
    BY <2>1, <2>2
<1>21. ASSUME NEW c \in Callers, RequeueBlocked(c) PROVE TokenInv'
  BY <1>21, BlockedEffect
<1>22. ASSUME NEW c \in Callers, RequeueLost(c) PROVE TokenInv'
  BY <1>22, ReturnEffect DEF RequeueLost
<1>23. ASSUME NEW r \in Runs, WorkerNext(r) PROVE TokenInv'
  BY <1>23, WorkerEffect
<1>24. ASSUME Crash PROVE TokenInv'
  BY <1>24 DEF Crash
<1>25. CASE UNCHANGED vars
  BY <1>25 DEF vars, callers
<1>26. ASSUME NEW c \in Callers, StageLeavesFile(c) PROVE TokenInv'
  BY <1>26, ReturnEffect DEF StageLeavesFile
<1>27. ASSUME NEW c \in Callers, Prepare(c) PROVE TokenInv'
  BY <1>27 DEF Prepare
<1>28. ASSUME NEW c \in Callers, PrepareFails(c) PROVE TokenInv'
  BY <1>28, ReturnEffect DEF PrepareFails
<1>29. ASSUME NEW c \in Callers, ReviewLeavesCopy(c) PROVE TokenInv'
  BY <1>29, ReturnEffect DEF ReviewLeavesCopy
<1> QED
  BY <1>1, <1>2, <1>3, <1>4, <1>5, <1>6, <1>7, <1>8, <1>9, <1>10, <1>11,
     <1>12, <1>13, <1>14, <1>15, <1>16, <1>17, <1>18, <1>19, <1>20, <1>21,
     <1>22, <1>23, <1>24, <1>25, <1>26, <1>27, <1>28, <1>29
     DEF Next, BoxesNext, MaskNext, ReviewNext, RecoveryNext

\* Workers execute active runs.
LEMMA ExecutingStep ==
  ASSUME TypeOK, ExecutingInv, ChildInv, ReviewInv, FoundInv, [Next]_vars
  PROVE  ExecutingInv'
<1> USE RunInputsAssumptions, Types DEF ExecutingInv, rows
<1>1. ASSUME NEW c \in Callers, CommitReplace(c) PROVE ExecutingInv'
  BY <1>1 DEF CommitReplace
<1>2. ASSUME NEW c \in Callers, NEW r \in Runs, CommitCreate(c, r)
      PROVE  ExecutingInv'
  BY <1>2, CreateEffect
<1>3. ASSUME NEW c \in Callers, Register(c) PROVE ExecutingInv'
  BY <1>3 DEF Register
<1>4. ASSUME NEW c \in Callers, NEW r \in Runs, CommitReview(c, r)
      PROVE  ExecutingInv'
  BY <1>4, ReviewEffect
<1>5. ASSUME NEW c \in Callers, NEW r \in Runs, Requeue(c, r)
      PROVE  ExecutingInv'
  BY <1>5, RequeueEffect
<1>6. ASSUME NEW c \in Callers, RequeueBlocked(c) PROVE ExecutingInv'
  BY <1>6, BlockedEffect
<1>7. ASSUME NEW r \in Runs, WorkerNext(r) PROVE ExecutingInv'
  BY <1>7, WorkerEffect
<1>8. CASE UNCHANGED rows /\ executing' \in {executing, {}}
  BY <1>8
<1> QED
  BY <1>1, <1>2, <1>3, <1>4, <1>5, <1>6, <1>7, <1>8, RowSteps

\* Nobody executes a run that a recoverer has found.
LEMMA FoundStep ==
  ASSUME TypeOK, FoundInv, ChildInv, ReviewInv, ExecutingInv, [Next]_vars
  PROVE  FoundInv'
<1> USE RunInputsAssumptions, Types DEF FoundInv, Goto, Blank, rows, Stale
<1>1. ASSUME NEW c \in Callers, Look(c) PROVE FoundInv'
  BY <1>1, LookEffect
<1>2. ASSUME NEW c \in Callers, CheckReplace(c) PROVE FoundInv'
  BY <1>2 DEF CheckReplace
<1>3. ASSUME NEW c \in Callers, CommitReplace(c) PROVE FoundInv'
  BY <1>3, ReturnEffect DEF CommitReplace
<1>4. ASSUME NEW c \in Callers, CheckCreate(c) PROVE FoundInv'
  BY <1>4, CheckCreateEffect
<1>5. ASSUME NEW c \in Callers, NEW r \in Runs, CommitCreate(c, r)
      PROVE  FoundInv'
  BY <1>5, CreateEffect
<1>6. ASSUME NEW c \in Callers, RequestFails(c) PROVE FoundInv'
  BY <1>6, ReturnEffect DEF RequestFails
<1>7. ASSUME NEW c \in Callers, NEW m \in Masks, NEW p \in Runs, Stage(c, m, p)
      PROVE  FoundInv'
  BY <1>7, StageEffect
<1>8. ASSUME NEW c \in Callers, Register(c) PROVE FoundInv'
  BY <1>8 DEF Register
<1>9. ASSUME NEW c \in Callers, Issue(c) PROVE FoundInv'
  BY <1>9, ReturnEffect DEF Issue
<1>10. ASSUME NEW c \in Callers, StageFails(c) PROVE FoundInv'
  BY <1>10, ReturnEffect DEF StageFails
<1>11. ASSUME NEW c \in Callers, NEW p \in Runs, NEW m \in Masks \cup {None},
              BeginReview(c, p, m)
      PROVE  FoundInv'
  BY <1>11, BeginReviewEffect
<1>12. ASSUME NEW c \in Callers, Resolve(c) PROVE FoundInv'
  BY <1>12 DEF Resolve
<1>13. ASSUME NEW c \in Callers, NEW r \in Runs, CopyMask(c, r)
      PROVE  FoundInv'
  BY <1>13 DEF CopyMask
<1>14. ASSUME NEW c \in Callers, ReviewRefused(c) PROVE FoundInv'
  BY <1>14, ReturnEffect DEF ReviewRefused
<1>15. ASSUME NEW c \in Callers, NEW r \in Runs, CommitReview(c, r)
      PROVE  FoundInv'
  BY <1>15, ReviewEffect
<1>16. ASSUME NEW c \in Callers, ReviewFails(c) PROVE FoundInv'
  BY <1>16, ReturnEffect DEF ReviewFails
<1>17. ASSUME NEW c \in Callers, DeleteUpload(c) PROVE FoundInv'
  BY <1>17, ReturnEffect DEF DeleteUpload
<1>18. ASSUME NEW c \in Callers, DeleteUploadFails(c) PROVE FoundInv'
  BY <1>18, ReturnEffect DEF DeleteUploadFails
<1>19. ASSUME NEW c \in Callers, NEW p \in Runs, FindStale(c, p)
      PROVE  FoundInv'
  BY <1>19 DEF FindStale
<1>20. ASSUME NEW c \in Callers, NEW r \in Runs, Requeue(c, r) PROVE FoundInv'
  <2> DEFINE p == my[c].parent
  <2>1. /\ pc'[c] = "idle" /\ UNCHANGED executing
        /\ \A d \in Callers \ {c} : pc'[d] = pc[d] /\ my'[d] = my[d]
        /\ run'[p].state = "failed" /\ \A s \in Runs \ {p, r} : run'[s] = run[s]
        /\ run[r].state = "absent"
    BY <1>20, RequeueEffect
  <2>2. ASSUME NEW d \in Callers, pc'[d] = "requeue"
        PROVE  /\ my'[d].parent # None /\ my'[d].parent \notin executing'
               /\ run'[my'[d].parent].state \in {"active", "failed"}
    <3>1. d # c /\ pc[d] = "requeue" /\ my'[d] = my[d]
      BY <2>1, <2>2
    <3>2. /\ my[d].parent # None /\ my[d].parent \notin executing
          /\ run[my[d].parent].state \in {"active", "failed"}
      BY <3>1
    <3>3. my[d].parent \in Runs /\ my[d].parent # r
      BY <2>1, <3>2
    <3>4. QED
      BY <2>1, <3>1, <3>2, <3>3
  <2>3. QED
    BY <2>2
<1>21. ASSUME NEW c \in Callers, RequeueBlocked(c) PROVE FoundInv'
  <2>1. \A d \in Callers : pc'[d] = "requeue" =>
          pc[d] = "requeue" /\ my'[d] = my[d]
    BY <1>21, BlockedEffect
  <2>2. \A s \in Runs : run'[s].state \in {run[s].state, "failed"}
    BY <1>21, BlockedEffect
  <2>3. UNCHANGED executing
    BY <1>21, BlockedEffect
  <2> QED
    BY <2>1, <2>2, <2>3
<1>22. ASSUME NEW c \in Callers, RequeueLost(c) PROVE FoundInv'
  BY <1>22, ReturnEffect DEF RequeueLost
<1>23. ASSUME NEW r \in Runs, WorkerNext(r) PROVE FoundInv'
  BY <1>23, WorkerEffect
<1>24. ASSUME Crash PROVE FoundInv'
  BY <1>24 DEF Crash
<1>25. CASE UNCHANGED vars
  BY <1>25 DEF vars, callers
<1>26. ASSUME NEW c \in Callers, StageLeavesFile(c) PROVE FoundInv'
  BY <1>26, ReturnEffect DEF StageLeavesFile
<1>27. ASSUME NEW c \in Callers, Prepare(c) PROVE FoundInv'
  BY <1>27 DEF Prepare
<1>28. ASSUME NEW c \in Callers, PrepareFails(c) PROVE FoundInv'
  BY <1>28, ReturnEffect DEF PrepareFails
<1>29. ASSUME NEW c \in Callers, ReviewLeavesCopy(c) PROVE FoundInv'
  BY <1>29, ReturnEffect DEF ReviewLeavesCopy
<1> QED
  BY <1>1, <1>2, <1>3, <1>4, <1>5, <1>6, <1>7, <1>8, <1>9, <1>10, <1>11,
     <1>12, <1>13, <1>14, <1>15, <1>16, <1>17, <1>18, <1>19, <1>20, <1>21,
     <1>22, <1>23, <1>24, <1>25, <1>26, <1>27, <1>28, <1>29
     DEF Next, BoxesNext, MaskNext, ReviewNext, RecoveryNext

\* A step that leaves the files, the tokens and their holders alone.
LEMMA StagedStays ==
  ASSUME StagedInv, UNCHANGED <<mask, staged, lostUploads, issued>>,
         \A d \in Callers : pc[d] \in {"register", "issue", "delete"} =>
           pc'[d] = pc[d] /\ my'[d] = my[d]
  PROVE  StagedInv'
BY DEF StagedInv

\* Uploaded files have an owner, or are lost.
LEMMA StagedStep ==
  ASSUME TypeOK, StagedInv, UploadInv, ChildInv, ReviewInv, ExecutingInv,
         FoundInv, [Next]_vars
  PROVE  StagedInv'
<1> USE RunInputsAssumptions, Types DEF StagedInv, UploadInv, Goto, Blank, rows, files, lost
<1>1. ASSUME NEW c \in Callers, Look(c) PROVE StagedInv'
  BY <1>1, LookEffect
<1>2. ASSUME NEW c \in Callers, CheckReplace(c) PROVE StagedInv'
  BY <1>2 DEF CheckReplace
<1>3. ASSUME NEW c \in Callers, CommitReplace(c) PROVE StagedInv'
  BY <1>3, ReturnEffect DEF CommitReplace
<1>4. ASSUME NEW c \in Callers, CheckCreate(c) PROVE StagedInv'
  BY SMTT(20), <1>4, CheckCreateEffect
<1>5. ASSUME NEW c \in Callers, NEW r \in Runs, CommitCreate(c, r)
      PROVE  StagedInv'
  BY <1>5, CreateEffect
<1>6. ASSUME NEW c \in Callers, RequestFails(c) PROVE StagedInv'
  BY <1>6, ReturnEffect DEF RequestFails
<1>7. ASSUME NEW c \in Callers, NEW m \in Masks, NEW p \in Runs, Stage(c, m, p)
      PROVE  StagedInv'
  BY SMTT(20), <1>7, StageEffect
<1>8. ASSUME NEW c \in Callers, Register(c) PROVE StagedInv'
  BY <1>8 DEF Register
<1>9. ASSUME NEW c \in Callers, Issue(c) PROVE StagedInv'
  BY <1>9, ReturnEffect DEF Issue
<1>10. ASSUME NEW c \in Callers, StageFails(c) PROVE StagedInv'
  <2>1. \A d \in Callers : pc'[d] \in {"register", "issue", "delete"} <=>
          d # c /\ pc[d] \in {"register", "issue", "delete"}
    BY <1>10, ReturnEffect DEF StageFails
  <2>2. \A d \in Callers \ {c} : my'[d] = my[d]
    BY <1>10, ReturnEffect DEF StageFails
  <2>3. /\ staged' = staged \ {my[c].mask}
        /\ UNCHANGED <<mask, lost, issued>>
    BY <1>10 DEF StageFails
  <2> QED
    BY <2>1, <2>2, <2>3
<1>11. ASSUME NEW c \in Callers, NEW p \in Runs, NEW m \in Masks \cup {None},
              BeginReview(c, p, m)
      PROVE  StagedInv'
  BY <1>11, BeginReviewEffect
<1>12. ASSUME NEW c \in Callers, Resolve(c) PROVE StagedInv'
  BY <1>12 DEF Resolve
<1>13. ASSUME NEW c \in Callers, NEW r \in Runs, CopyMask(c, r)
      PROVE  StagedInv'
  BY <1>13 DEF CopyMask
<1>14. ASSUME NEW c \in Callers, ReviewRefused(c) PROVE StagedInv'
  BY <1>14, ReturnEffect DEF ReviewRefused
<1>15. ASSUME NEW c \in Callers, NEW r \in Runs, CommitReview(c, r)
      PROVE  StagedInv'
  BY <1>15, ReviewEffect
<1>16. ASSUME NEW c \in Callers, ReviewFails(c) PROVE StagedInv'
  BY <1>16, ReturnEffect DEF ReviewFails
<1>17. ASSUME NEW c \in Callers, DeleteUpload(c) PROVE StagedInv'
  BY <1>17, ReturnEffect DEF DeleteUpload
<1>18. ASSUME NEW c \in Callers, DeleteUploadFails(c) PROVE StagedInv'
  BY <1>18, ReturnEffect DEF DeleteUploadFails
<1>19. ASSUME NEW c \in Callers, NEW p \in Runs, FindStale(c, p)
      PROVE  StagedInv'
  BY <1>19 DEF FindStale
<1>20. ASSUME NEW c \in Callers, NEW r \in Runs, Requeue(c, r)
      PROVE  StagedInv'
  <2>1. \A d \in Callers : pc[d] \in {"register", "issue", "delete"} =>
          pc'[d] = pc[d] /\ my'[d] = my[d]
    BY <1>20, RequeueEffect
  <2> QED
    BY <1>20, <2>1, StagedStays DEF Requeue
<1>21. ASSUME NEW c \in Callers, RequeueBlocked(c) PROVE StagedInv'
  <2>1. \A d \in Callers : pc[d] \in {"register", "issue", "delete"} =>
          pc'[d] = pc[d] /\ my'[d] = my[d]
    BY <1>21, BlockedEffect
  <2> QED
    BY <1>21, <2>1, StagedStays DEF RequeueBlocked
<1>22. ASSUME NEW c \in Callers, RequeueLost(c) PROVE StagedInv'
  BY SMTT(20), <1>22, ReturnEffect DEF RequeueLost
<1>23. ASSUME NEW r \in Runs, WorkerNext(r) PROVE StagedInv'
  BY <1>23, WorkerEffect
<1>24. ASSUME Crash PROVE StagedInv'
  BY <1>24 DEF Crash, HeldUploads, HeldCopies
<1>25. CASE UNCHANGED vars
  BY <1>25 DEF vars, callers
<1>26. ASSUME NEW c \in Callers, StageLeavesFile(c) PROVE StagedInv'
  BY <1>26, ReturnEffect DEF StageLeavesFile
<1>27. ASSUME NEW c \in Callers, Prepare(c) PROVE StagedInv'
  BY <1>27 DEF Prepare
<1>28. ASSUME NEW c \in Callers, PrepareFails(c) PROVE StagedInv'
  BY <1>28, ReturnEffect DEF PrepareFails
<1>29. ASSUME NEW c \in Callers, ReviewLeavesCopy(c) PROVE StagedInv'
  BY <1>29, ReturnEffect DEF ReviewLeavesCopy
<1> QED
  BY <1>1, <1>2, <1>3, <1>4, <1>5, <1>6, <1>7, <1>8, <1>9, <1>10, <1>11,
     <1>12, <1>13, <1>14, <1>15, <1>16, <1>17, <1>18, <1>19, <1>20, <1>21,
     <1>22, <1>23, <1>24, <1>25, <1>26, <1>27, <1>28, <1>29
     DEF Next, BoxesNext, MaskNext, ReviewNext, RecoveryNext

\* Copies have an owner, or are lost.
LEMMA CopyStep ==
  ASSUME TypeOK, CopyInv, ChildInv, ReviewInv, ExecutingInv, FoundInv,
         [Next]_vars
  PROVE  CopyInv'
<1> USE RunInputsAssumptions, Types DEF CopyInv, ChildInv, Present, Goto, Blank, rows, files, lost
<1>1. ASSUME NEW c \in Callers, Look(c) PROVE CopyInv'
  BY <1>1, LookEffect
<1>2. ASSUME NEW c \in Callers, CheckReplace(c) PROVE CopyInv'
  BY <1>2 DEF CheckReplace
<1>3. ASSUME NEW c \in Callers, CommitReplace(c) PROVE CopyInv'
  BY <1>3, ReturnEffect DEF CommitReplace
<1>4. ASSUME NEW c \in Callers, CheckCreate(c) PROVE CopyInv'
  BY <1>4, CheckCreateEffect
<1>5. ASSUME NEW c \in Callers, NEW r \in Runs, CommitCreate(c, r)
      PROVE  CopyInv'
  BY SMTT(20), <1>5, CreateEffect
<1>6. ASSUME NEW c \in Callers, RequestFails(c) PROVE CopyInv'
  BY <1>6, ReturnEffect DEF RequestFails
<1>7. ASSUME NEW c \in Callers, NEW m \in Masks, NEW p \in Runs, Stage(c, m, p)
      PROVE  CopyInv'
  BY SMTT(20), <1>7, StageEffect
<1>8. ASSUME NEW c \in Callers, Register(c) PROVE CopyInv'
  BY <1>8 DEF Register
<1>9. ASSUME NEW c \in Callers, Issue(c) PROVE CopyInv'
  BY <1>9, ReturnEffect DEF Issue
<1>10. ASSUME NEW c \in Callers, StageFails(c) PROVE CopyInv'
  BY <1>10, ReturnEffect DEF StageFails
<1>11. ASSUME NEW c \in Callers, NEW p \in Runs, NEW m \in Masks \cup {None},
              BeginReview(c, p, m)
      PROVE  CopyInv'
  BY <1>11, BeginReviewEffect
<1>12. ASSUME NEW c \in Callers, Resolve(c) PROVE CopyInv'
  BY <1>12 DEF Resolve
<1>13. ASSUME NEW c \in Callers, NEW r \in Runs, CopyMask(c, r) PROVE CopyInv'
  BY <1>13 DEF CopyMask, Fresh
<1>14. ASSUME NEW c \in Callers, ReviewRefused(c) PROVE CopyInv'
  BY <1>14, ReturnEffect DEF ReviewRefused
<1>15. ASSUME NEW c \in Callers, NEW r \in Runs, CommitReview(c, r)
      PROVE  CopyInv'
  <2>1. CASE my[c].mask = None
    <3>1. /\ my[c].child = None
          /\ \A d \in Callers \ {c} : my'[d] = my[d]
      BY <1>15, <2>1, ReviewEffect
    <3>2. \A s \in Present : s \in Present'
      BY <1>15, ReviewEffect
    <3>3. UNCHANGED <<copy, lost>>
      BY <1>15, ReviewEffect
    <3> QED
      BY <3>1, <3>2, <3>3
  <2>2. CASE my[c].mask # None
    BY SMTT(20), <1>15, <2>2, ReviewEffect
  <2> QED
    BY <2>1, <2>2
<1>16. ASSUME NEW c \in Callers, ReviewFails(c) PROVE CopyInv'
  BY <1>16, ReturnEffect DEF ReviewFails
<1>17. ASSUME NEW c \in Callers, DeleteUpload(c) PROVE CopyInv'
  BY <1>17, ReturnEffect DEF DeleteUpload
<1>18. ASSUME NEW c \in Callers, DeleteUploadFails(c) PROVE CopyInv'
  BY <1>18, ReturnEffect DEF DeleteUploadFails
<1>19. ASSUME NEW c \in Callers, NEW p \in Runs, FindStale(c, p)
      PROVE  CopyInv'
  BY <1>19 DEF FindStale
<1>20. ASSUME NEW c \in Callers, NEW r \in Runs, Requeue(c, r) PROVE CopyInv'
  <2>1. \A d \in Callers : my[d].child # None => my'[d] = my[d]
    BY <1>20, RequeueEffect
  <2>2. \A s \in Present : s \in Present'
    BY <1>20, RequeueEffect
  <2>3. UNCHANGED <<copy, lost>>
    BY <1>20, RequeueEffect
  <2> QED
    BY <2>1, <2>2, <2>3
<1>21. ASSUME NEW c \in Callers, RequeueBlocked(c) PROVE CopyInv'
  <2>1. \A d \in Callers : my[d].child # None => my'[d] = my[d]
    BY <1>21, BlockedEffect
  <2>2. \A s \in Present : s \in Present'
    BY <1>21, BlockedEffect
  <2>3. UNCHANGED <<copy, lost>>
    BY <1>21, BlockedEffect
  <2> QED
    BY <2>1, <2>2, <2>3
<1>22. ASSUME NEW c \in Callers, RequeueLost(c) PROVE CopyInv'
  BY <1>22, ReturnEffect DEF RequeueLost
<1>23. ASSUME NEW r \in Runs, WorkerNext(r) PROVE CopyInv'
  BY <1>23, WorkerEffect
<1>24. ASSUME Crash PROVE CopyInv'
  BY <1>24 DEF Crash, HeldUploads, HeldCopies
<1>25. CASE UNCHANGED vars
  BY <1>25 DEF vars, callers
<1>26. ASSUME NEW c \in Callers, StageLeavesFile(c) PROVE CopyInv'
  BY <1>26, ReturnEffect DEF StageLeavesFile
<1>27. ASSUME NEW c \in Callers, Prepare(c) PROVE CopyInv'
  BY <1>27 DEF Prepare
<1>28. ASSUME NEW c \in Callers, PrepareFails(c) PROVE CopyInv'
  BY <1>28, ReturnEffect DEF PrepareFails
<1>29. ASSUME NEW c \in Callers, ReviewLeavesCopy(c) PROVE CopyInv'
  BY <1>29, ReturnEffect DEF ReviewLeavesCopy
<1> QED
  BY <1>1, <1>2, <1>3, <1>4, <1>5, <1>6, <1>7, <1>8, <1>9, <1>10, <1>11,
     <1>12, <1>13, <1>14, <1>15, <1>16, <1>17, <1>18, <1>19, <1>20, <1>21,
     <1>22, <1>23, <1>24, <1>25, <1>26, <1>27, <1>28, <1>29
     DEF Next, BoxesNext, MaskNext, ReviewNext, RecoveryNext

\* A mask has one use.
LEMMA UsedOnceStep ==
  ASSUME TypeOK, MaskUsedOnce, UploadInv, TokenInv, ChildInv, ReviewInv,
         ExecutingInv, FoundInv, [Next]_vars
  PROVE  MaskUsedOnce'
<1> USE RunInputsAssumptions, Types DEF MaskUsedOnce, Present, rows
<1>1. ASSUME NEW c \in Callers, CommitReplace(c) PROVE MaskUsedOnce'
  BY <1>1 DEF CommitReplace
<1>2. ASSUME NEW c \in Callers, NEW r \in Runs, CommitCreate(c, r)
      PROVE  MaskUsedOnce'
  BY <1>2, CreateEffect
<1>3. ASSUME NEW c \in Callers, Register(c) PROVE MaskUsedOnce'
  BY <1>3 DEF Register, UploadInv, TokenInv, Goto
<1>4. ASSUME NEW c \in Callers, NEW r \in Runs, CommitReview(c, r)
      PROVE  MaskUsedOnce'
  BY <1>4, ReviewEffect DEF TokenInv
<1>5. ASSUME NEW c \in Callers, NEW r \in Runs, Requeue(c, r)
      PROVE  MaskUsedOnce'
  BY <1>5, RequeueEffect
<1>6. ASSUME NEW c \in Callers, RequeueBlocked(c) PROVE MaskUsedOnce'
  BY <1>6, BlockedEffect
<1>7. ASSUME NEW r \in Runs, WorkerNext(r) PROVE MaskUsedOnce'
  BY <1>7, WorkerEffect
<1>8. CASE UNCHANGED rows
  BY <1>8
<1> QED
  BY <1>1, <1>2, <1>3, <1>4, <1>5, <1>6, <1>7, <1>8, RowSteps

\* The file of an unused token is there.
LEMMA UsableStep ==
  ASSUME TypeOK, IssuedIsUsable, UploadInv, ChildInv, ReviewInv, ExecutingInv,
         FoundInv, [Next]_vars
  PROVE  IssuedIsUsable'
<1> USE RunInputsAssumptions, Types DEF IssuedIsUsable, Goto, rows, files
<1>1. ASSUME NEW c \in Callers, Look(c) PROVE IssuedIsUsable'
  BY <1>1, LookEffect
<1>2. ASSUME NEW c \in Callers, CheckReplace(c) PROVE IssuedIsUsable'
  BY <1>2 DEF CheckReplace
<1>3. ASSUME NEW c \in Callers, CommitReplace(c) PROVE IssuedIsUsable'
  BY <1>3, ReturnEffect DEF CommitReplace
<1>4. ASSUME NEW c \in Callers, CheckCreate(c) PROVE IssuedIsUsable'
  BY <1>4, CheckCreateEffect
<1>5. ASSUME NEW c \in Callers, NEW r \in Runs, CommitCreate(c, r)
      PROVE  IssuedIsUsable'
  BY <1>5, CreateEffect
<1>6. ASSUME NEW c \in Callers, RequestFails(c) PROVE IssuedIsUsable'
  BY <1>6, ReturnEffect DEF RequestFails
<1>7. ASSUME NEW c \in Callers, NEW m \in Masks, NEW p \in Runs, Stage(c, m, p)
      PROVE  IssuedIsUsable'
  BY <1>7, StageEffect
<1>8. ASSUME NEW c \in Callers, Register(c) PROVE IssuedIsUsable'
  BY <1>8 DEF Register, UploadInv
<1>9. ASSUME NEW c \in Callers, Issue(c) PROVE IssuedIsUsable'
  BY <1>9 DEF Issue, UploadInv
<1>10. ASSUME NEW c \in Callers, StageFails(c) PROVE IssuedIsUsable'
  BY <1>10 DEF StageFails, UploadInv
<1>11. ASSUME NEW c \in Callers, NEW p \in Runs, NEW m \in Masks \cup {None},
              BeginReview(c, p, m)
      PROVE  IssuedIsUsable'
  BY <1>11, BeginReviewEffect
<1>12. ASSUME NEW c \in Callers, Resolve(c) PROVE IssuedIsUsable'
  BY <1>12 DEF Resolve
<1>13. ASSUME NEW c \in Callers, NEW r \in Runs, CopyMask(c, r)
      PROVE  IssuedIsUsable'
  BY <1>13 DEF CopyMask
<1>14. ASSUME NEW c \in Callers, ReviewRefused(c) PROVE IssuedIsUsable'
  BY <1>14, ReturnEffect DEF ReviewRefused
<1>15. ASSUME NEW c \in Callers, NEW r \in Runs, CommitReview(c, r)
      PROVE  IssuedIsUsable'
  <2>1. CASE my[c].mask = None
    BY <1>15, <2>1, ReviewEffect
  <2>2. CASE my[c].mask # None
    <3>1. \A m \in Masks : mask'[m].state = "active" => mask'[m] = mask[m]
      BY <1>15, <2>2, ReviewEffect
    <3>2. UNCHANGED <<staged, issued>>
      BY <1>15, ReviewEffect
    <3> QED
      BY <3>1, <3>2
  <2> QED
    BY <2>1, <2>2
<1>16. ASSUME NEW c \in Callers, ReviewFails(c) PROVE IssuedIsUsable'
  BY <1>16, ReturnEffect DEF ReviewFails
<1>17. ASSUME NEW c \in Callers, DeleteUpload(c) PROVE IssuedIsUsable'
  BY <1>17 DEF DeleteUpload, ReviewInv
<1>18. ASSUME NEW c \in Callers, DeleteUploadFails(c) PROVE IssuedIsUsable'
  BY <1>18, ReturnEffect DEF DeleteUploadFails
<1>19. ASSUME NEW c \in Callers, NEW p \in Runs, FindStale(c, p)
      PROVE  IssuedIsUsable'
  BY <1>19 DEF FindStale
<1>20. ASSUME NEW c \in Callers, NEW r \in Runs, Requeue(c, r)
      PROVE  IssuedIsUsable'
  BY <1>20, RequeueEffect
<1>21. ASSUME NEW c \in Callers, RequeueBlocked(c) PROVE IssuedIsUsable'
  BY <1>21, BlockedEffect
<1>22. ASSUME NEW c \in Callers, RequeueLost(c) PROVE IssuedIsUsable'
  BY <1>22, ReturnEffect DEF RequeueLost
<1>23. ASSUME NEW r \in Runs, WorkerNext(r) PROVE IssuedIsUsable'
  BY <1>23, WorkerEffect
<1>24. ASSUME Crash PROVE IssuedIsUsable'
  BY <1>24 DEF Crash
<1>25. CASE UNCHANGED vars
  BY <1>25 DEF vars, callers
<1>26. ASSUME NEW c \in Callers, StageLeavesFile(c) PROVE IssuedIsUsable'
  BY <1>26, ReturnEffect DEF StageLeavesFile
<1>27. ASSUME NEW c \in Callers, Prepare(c) PROVE IssuedIsUsable'
  BY <1>27 DEF Prepare
<1>28. ASSUME NEW c \in Callers, PrepareFails(c) PROVE IssuedIsUsable'
  BY <1>28, ReturnEffect DEF PrepareFails
<1>29. ASSUME NEW c \in Callers, ReviewLeavesCopy(c) PROVE IssuedIsUsable'
  BY <1>29, ReturnEffect DEF ReviewLeavesCopy
<1> QED
  BY <1>1, <1>2, <1>3, <1>4, <1>5, <1>6, <1>7, <1>8, <1>9, <1>10, <1>11,
     <1>12, <1>13, <1>14, <1>15, <1>16, <1>17, <1>18, <1>19, <1>20, <1>21,
     <1>22, <1>23, <1>24, <1>25, <1>26, <1>27, <1>28, <1>29
     DEF Next, BoxesNext, MaskNext, ReviewNext, RecoveryNext

\* A run has its mask.
LEMMA KeepsMaskStep ==
  ASSUME TypeOK, RunKeepsItsMask, ChildInv, ReviewInv, ExecutingInv, FoundInv,
         [Next]_vars
  PROVE  RunKeepsItsMask'
<1> USE RunInputsAssumptions, Types DEF RunKeepsItsMask, Present, rows, files
<1>1. ASSUME NEW c \in Callers, Look(c) PROVE RunKeepsItsMask'
  BY <1>1, LookEffect
<1>2. ASSUME NEW c \in Callers, CheckReplace(c) PROVE RunKeepsItsMask'
  BY <1>2 DEF CheckReplace
<1>3. ASSUME NEW c \in Callers, CommitReplace(c) PROVE RunKeepsItsMask'
  BY <1>3, ReturnEffect DEF CommitReplace
<1>4. ASSUME NEW c \in Callers, CheckCreate(c) PROVE RunKeepsItsMask'
  BY <1>4, CheckCreateEffect
<1>5. ASSUME NEW c \in Callers, NEW r \in Runs, CommitCreate(c, r)
      PROVE  RunKeepsItsMask'
  BY <1>5, CreateEffect
<1>6. ASSUME NEW c \in Callers, RequestFails(c) PROVE RunKeepsItsMask'
  BY <1>6, ReturnEffect DEF RequestFails
<1>7. ASSUME NEW c \in Callers, NEW m \in Masks, NEW p \in Runs, Stage(c, m, p)
      PROVE  RunKeepsItsMask'
  BY <1>7, StageEffect
<1>8. ASSUME NEW c \in Callers, Register(c) PROVE RunKeepsItsMask'
  BY <1>8 DEF Register
<1>9. ASSUME NEW c \in Callers, Issue(c) PROVE RunKeepsItsMask'
  BY <1>9, ReturnEffect DEF Issue
<1>10. ASSUME NEW c \in Callers, StageFails(c) PROVE RunKeepsItsMask'
  BY <1>10, ReturnEffect DEF StageFails
<1>11. ASSUME NEW c \in Callers, NEW p \in Runs, NEW m \in Masks \cup {None},
              BeginReview(c, p, m)
      PROVE  RunKeepsItsMask'
  BY <1>11, BeginReviewEffect
<1>12. ASSUME NEW c \in Callers, Resolve(c) PROVE RunKeepsItsMask'
  BY <1>12 DEF Resolve
<1>13. ASSUME NEW c \in Callers, NEW r \in Runs, CopyMask(c, r)
      PROVE  RunKeepsItsMask'
  BY <1>13 DEF CopyMask, Fresh
<1>14. ASSUME NEW c \in Callers, ReviewRefused(c) PROVE RunKeepsItsMask'
  BY <1>14, ReturnEffect DEF ReviewRefused
<1>15. ASSUME NEW c \in Callers, NEW r \in Runs, CommitReview(c, r)
      PROVE  RunKeepsItsMask'
  BY <1>15, ReviewEffect
<1>16. ASSUME NEW c \in Callers, ReviewFails(c) PROVE RunKeepsItsMask'
  BY <1>16 DEF ReviewFails, ChildInv
<1>17. ASSUME NEW c \in Callers, DeleteUpload(c) PROVE RunKeepsItsMask'
  BY <1>17, ReturnEffect DEF DeleteUpload
<1>18. ASSUME NEW c \in Callers, DeleteUploadFails(c) PROVE RunKeepsItsMask'
  BY <1>18, ReturnEffect DEF DeleteUploadFails
<1>19. ASSUME NEW c \in Callers, NEW p \in Runs, FindStale(c, p)
      PROVE  RunKeepsItsMask'
  BY <1>19 DEF FindStale
<1>20. ASSUME NEW c \in Callers, NEW r \in Runs, Requeue(c, r)
      PROVE  RunKeepsItsMask'
  BY <1>20, RequeueEffect
<1>21. ASSUME NEW c \in Callers, RequeueBlocked(c) PROVE RunKeepsItsMask'
  BY <1>21, BlockedEffect
<1>22. ASSUME NEW c \in Callers, RequeueLost(c) PROVE RunKeepsItsMask'
  BY <1>22, ReturnEffect DEF RequeueLost
<1>23. ASSUME NEW r \in Runs, WorkerNext(r) PROVE RunKeepsItsMask'
  BY <1>23, WorkerEffect
<1>24. ASSUME Crash PROVE RunKeepsItsMask'
  BY <1>24 DEF Crash
<1>25. CASE UNCHANGED vars
  BY <1>25 DEF vars, callers
<1>26. ASSUME NEW c \in Callers, StageLeavesFile(c) PROVE RunKeepsItsMask'
  BY <1>26, ReturnEffect DEF StageLeavesFile
<1>27. ASSUME NEW c \in Callers, Prepare(c) PROVE RunKeepsItsMask'
  BY <1>27 DEF Prepare
<1>28. ASSUME NEW c \in Callers, PrepareFails(c) PROVE RunKeepsItsMask'
  BY <1>28, ReturnEffect DEF PrepareFails
<1>29. ASSUME NEW c \in Callers, ReviewLeavesCopy(c) PROVE RunKeepsItsMask'
  BY <1>29, ReturnEffect DEF ReviewLeavesCopy
<1> QED
  BY <1>1, <1>2, <1>3, <1>4, <1>5, <1>6, <1>7, <1>8, <1>9, <1>10, <1>11,
     <1>12, <1>13, <1>14, <1>15, <1>16, <1>17, <1>18, <1>19, <1>20, <1>21,
     <1>22, <1>23, <1>24, <1>25, <1>26, <1>27, <1>28, <1>29
     DEF Next, BoxesNext, MaskNext, ReviewNext, RecoveryNext

\* A replacement knows what it replaces.
LEMMA ParentStep ==
  ASSUME TypeOK, ParentInv, ChildInv, ReviewInv, ExecutingInv, FoundInv,
         [Next]_vars
  PROVE  ParentInv'
<1> USE RunInputsAssumptions, Types DEF ParentInv, Present, rows
<1>1. ASSUME NEW c \in Callers, CommitReplace(c) PROVE ParentInv'
  BY <1>1 DEF CommitReplace
<1>2. ASSUME NEW c \in Callers, NEW r \in Runs, CommitCreate(c, r)
      PROVE  ParentInv'
  BY <1>2, CreateEffect
<1>3. ASSUME NEW c \in Callers, Register(c) PROVE ParentInv'
  BY <1>3 DEF Register
<1>4. ASSUME NEW c \in Callers, NEW r \in Runs, CommitReview(c, r)
      PROVE  ParentInv'
  BY <1>4, ReviewEffect
<1>5. ASSUME NEW c \in Callers, NEW r \in Runs, Requeue(c, r)
      PROVE  ParentInv'
  BY <1>5, RequeueEffect
<1>6. ASSUME NEW c \in Callers, RequeueBlocked(c) PROVE ParentInv'
  BY <1>6, BlockedEffect
<1>7. ASSUME NEW r \in Runs, WorkerNext(r) PROVE ParentInv'
  BY <1>7, WorkerEffect
<1>8. CASE UNCHANGED rows
  BY <1>8
<1> QED
  BY <1>1, <1>2, <1>3, <1>4, <1>5, <1>6, <1>7, <1>8, RowSteps

\* One replacement.
LEMMA ReplacementStep ==
  ASSUME TypeOK, OneReplacement, ParentInv, ChildInv, ReviewInv, ExecutingInv, FoundInv,
         [Next]_vars
  PROVE  OneReplacement'
<1> USE RunInputsAssumptions, Types DEF OneReplacement, ParentInv, Present, rows
<1>1. ASSUME NEW c \in Callers, CommitReplace(c) PROVE OneReplacement'
  BY <1>1 DEF CommitReplace
<1>2. ASSUME NEW c \in Callers, NEW r \in Runs, CommitCreate(c, r)
      PROVE  OneReplacement'
  BY <1>2, CreateEffect
<1>3. ASSUME NEW c \in Callers, Register(c) PROVE OneReplacement'
  BY <1>3 DEF Register
<1>4. ASSUME NEW c \in Callers, NEW r \in Runs, CommitReview(c, r)
      PROVE  OneReplacement'
  <2>1. run[r].state = "absent" /\ run'[r].origin = "review" /\ UNCHANGED executing
        /\ \A s \in Runs \ {r} : run'[s] = run[s]
    BY <1>4, ReviewEffect
  <2>2. \A s \in Present' : run'[s].origin = "recovery" =>
          s \in Present /\ run'[s] = run[s]
    BY <2>1
  <2> QED
    BY <2>1, <2>2
<1>5. ASSUME NEW c \in Callers, NEW r \in Runs, Requeue(c, r)
      PROVE  OneReplacement'
  <2> DEFINE p == my[c].parent
  <2>1. /\ run[p].state = "active" /\ run'[p].state = "failed"
        /\ run[r].state = "absent" /\ run'[r].origin = "recovery" /\ run'[r].parent = p
        /\ run'[p].origin = run[p].origin /\ run'[p].parent = run[p].parent
        /\ \A s \in Runs \ {p, r} : run'[s] = run[s]
        /\ p \in Runs \ executing /\ UNCHANGED executing
    BY <1>5, RequeueEffect
  <2> HIDE DEF p
  <2>2. \A s \in Present' \ {r} : /\ s \in Present /\ run'[s].origin = run[s].origin
                                  /\ run'[s].parent = run[s].parent
    BY <2>1
  <2>3. \A s \in Present : run[s].origin = "recovery" => run[s].parent # p
    BY <2>1
  <2>4. \A s \in Runs : run[s].state = "failed" => run'[s].state = "failed"
    BY <2>1
  <2> QED
    BY SMTT(20), <2>1, <2>2, <2>3, <2>4
<1>6. ASSUME NEW c \in Callers, RequeueBlocked(c) PROVE OneReplacement'
  BY SMTT(20), <1>6, BlockedEffect
<1>7. ASSUME NEW r \in Runs, WorkerNext(r) PROVE OneReplacement'
  BY <1>7, WorkerEffect DEF ExecutingInv
<1>8. CASE UNCHANGED rows /\ executing' \in {executing, {}}
  BY <1>8
<1> QED
  BY <1>1, <1>2, <1>3, <1>4, <1>5, <1>6, <1>7, <1>8, RowSteps
-----------------------------------------------------------------------------
(* The theorems.                                                           *)

LEMMA InitInputsInv == Init => InputsInv
<1> SUFFICES ASSUME Init
             PROVE  InputsInv
  OBVIOUS
<1> USE RunInputsAssumptions DEF Init, NoRun, Blank, Present, Revisions
<1>1. TypeOK
  BY DEF TypeOK
<1>2. AuthorsInv /\ BehindInv
  BY DEF AuthorsInv, BehindInv
<1>3. UploadInv /\ ChildInv /\ ReviewInv /\ TokenInv
  BY DEF UploadInv, ChildInv, ReviewInv, TokenInv
<1>4. ExecutingInv /\ ParentInv /\ FoundInv
  BY DEF ExecutingInv, ParentInv, FoundInv
<1>5. StagedInv /\ CopyInv
  BY DEF StagedInv, CopyInv
<1>6. TokenWorksOnce /\ RunKeepsItsMask /\ OneReplacement
  BY DEF TokenWorksOnce, MaskUsedOnce, IssuedIsUsable, RunKeepsItsMask,
     OneReplacement
<1> QED
  BY <1>1, <1>2, <1>3, <1>4, <1>5, <1>6 DEF InputsInv

LEMMA StepInputsInv == InputsInv /\ [Next]_vars => InputsInv'
<1> SUFFICES ASSUME InputsInv, [Next]_vars
             PROVE  InputsInv'
  OBVIOUS
<1> USE DEF InputsInv
<1>1. TypeOK'
  BY StepTypeOK
<1>2. AuthorsInv' /\ BehindInv'
  BY AuthorsStep, BehindStep
<1>3. UploadInv' /\ ChildInv' /\ ReviewInv' /\ TokenInv'
  BY UploadStep, ChildStep, ReviewStep, TokenStep
<1>4. ExecutingInv' /\ ParentInv' /\ FoundInv'
  BY ExecutingStep, ParentStep, FoundStep
<1>5. StagedInv' /\ CopyInv'
  BY StagedStep, CopyStep
<1>6. TokenWorksOnce'
  BY UsedOnceStep, UsableStep DEF TokenWorksOnce
<1>7. RunKeepsItsMask' /\ OneReplacement'
  BY KeepsMaskStep, ReplacementStep
<1> QED
  BY <1>1, <1>2, <1>3, <1>4, <1>5, <1>6, <1>7

\* The inductive invariant holds.
THEOREM InputsCorrect == Spec => []InputsInv
BY InitInputsInv, StepInputsInv, PTL DEF Spec

\* The boxes that a run refers to are one person's edit of what that person saw.
THEOREM BoxesTheorem == Spec => []BoxesAreOneEdit
<1>1. InputsInv => BoxesAreOneEdit
  <2> SUFFICES ASSUME InputsInv, NEW r \in Present, run[r].boxes > 0
               PROVE  Cardinality(authors[run[r].boxes]) = 1
    BY DEF BoxesAreOneEdit
  <2>1. run[r].boxes \in Revisions /\ run[r].boxes <= revision
    BY Types DEF InputsInv, BehindInv, Present, Revisions
  <2>2. PICK c \in Callers : authors[run[r].boxes] = {c}
    BY <2>1 DEF InputsInv, AuthorsInv
  <2> QED
    BY <2>2, FS_Singleton
<1> QED
  BY <1>1, InputsCorrect, PTL

\* A token works exactly once, whatever becomes of the requests that try it.
THEOREM TokenTheorem == Spec => []TokenWorksOnce
<1>1. InputsInv => TokenWorksOnce
  BY DEF InputsInv
<1> QED
  BY <1>1, InputsCorrect, PTL

\* A run that is to be executed has its mask, and every file has an owner: a token,
\* a run, or an active request.  What has none was in the hands of a request when the
\* process ended, could not be deleted, or is the copy of a review that failed before
\* its transaction was tried.
THEOREM FilesTheorem == Spec => []MasksFollowRows
<1>1. InputsInv => MasksFollowRows
  <2> SUFFICES ASSUME InputsInv
               PROVE  NothingLeftOver
    BY DEF InputsInv, MasksFollowRows
  <2>1. ASSUME NEW m \in staged
        PROVE  \/ mask[m].state = "active" /\ m \in issued
               \/ m \in HeldUploads \cup lostUploads
    BY DEF InputsInv, StagedInv, HeldUploads
  <2>2. ASSUME NEW r \in Runs, copy[r] # None
        PROVE  r \in Present \cup HeldCopies \cup lostCopies
    <3>1. CASE r \in Present \cup lostCopies
      BY <3>1
    <3>2. ASSUME NEW c \in Callers, my[c].child = r
          PROVE  r \in HeldCopies
      BY <3>2, RunInputsAssumptions DEF InputsInv, ChildInv, HeldCopies
    <3> QED
      BY <2>2, <3>1, <3>2 DEF InputsInv, CopyInv
  <2> QED
    BY <2>1, <2>2 DEF NothingLeftOver
<1> QED
  BY <1>1, InputsCorrect, PTL

\* An interrupted run has one replacement, and nobody executes the two of them.
THEOREM ReplacementTheorem == Spec => []OneReplacement
<1>1. InputsInv => OneReplacement
  BY DEF InputsInv
<1> QED
  BY <1>1, InputsCorrect, PTL
=============================================================================
