----------------------------- MODULE RunInputs -----------------------------
(***************************************************************************)
(* What a run is made of: a revision of the image's boxes, and, for a      *)
(* review, a corrected mask.  People replace boxes, start runs, upload     *)
(* masks and review finished runs while workers execute runs and, after a  *)
(* restart, recoverers put replacements of interrupted runs in the queue.  *)
(*                                                                         *)
(* Rows change in transactions; files do not.  A mask is a file first, a   *)
(* row next, and a token last; a review copies the file, then commits, and *)
(* then deletes the original.  One image is modelled, and the id of a run  *)
(* or of a mask is never used again, whatever became of it.                *)
(***************************************************************************)
EXTENDS Naturals, FiniteSets

CONSTANTS
  Runs,         \* ids of runs
  Masks,        \* uploaded masks
  Callers,      \* requests and recoverers that may be active together
  None,         \* "no value"
  MaxRevision,  \* bound on the revisions of the boxes
  MaxRequests,  \* bound on the runs that are not replacements or reviews
  MaxMishaps    \* bound on crashes and on files that cannot be deleted

ASSUME RunInputsAssumptions ==
  /\ None \notin Runs \cup Masks \cup Callers
  /\ MaxRevision \in Nat
  /\ MaxRequests \in Nat
  /\ MaxMishaps \in Nat

VARIABLES
  (* rows *)
  revision,   \* images.box_revision
  authors,    \* whose box rows each revision has
  run,        \* segmentation_runs
  mask,       \* file_artifacts of corrected masks
  (* files *)
  staged,     \* masks whose uploaded file is there
  copy,       \* the mask in each run's directory
  lostUploads,  \* history: uploaded files that nobody will delete...
  lostCopies,   \* ...and runs in whose directory a copy is forgotten
  (* what has left the service *)
  issued,     \* masks whose token somebody holds
  (* the processes *)
  executing,  \* runs that a worker executes
  pc, my,     \* each caller's next step and local variables
  mishaps     \* crashes and failed deletions so far

rows == <<revision, authors, run, mask>>
lost == <<lostUploads, lostCopies>>
files == <<staged, copy, lost>>
callers == <<pc, my>>
vars == <<rows, files, issued, executing, callers, mishaps>>

-----------------------------------------------------------------------------
Revisions == 1..MaxRevision

\* A run without a row.
NoRun ==
  [state |-> "absent", origin |-> None, parent |-> None, boxes |-> 0,
   mask |-> None]

Blank == [seen |-> 0, parent |-> None, mask |-> None, child |-> None]

Present == {r \in Runs : run[r].state # "absent"}
Finished == {r \in Runs : run[r].state \in {"completed", "failed"}}
\* The rows a restarted process finds active with nobody to execute them.
Stale == {r \in Runs : run[r].state = "active"} \ executing

\* A new id is nobody's, and names no directory.
Fresh ==
  {r \in Runs \ Present : copy[r] = None /\ \A c \in Callers : my[c].child # r}

NewRun(r, origin, parent, boxes, m) ==
  run' = [run EXCEPT ![r] = [state |-> "queued", origin |-> origin,
                             parent |-> parent, boxes |-> boxes, mask |-> m]]

Goto(c, from, to) ==
  /\ pc[c] = from
  /\ pc' = [pc EXCEPT ![c] = to]

Return(c) ==
  /\ pc' = [pc EXCEPT ![c] = "idle"]
  /\ my' = [my EXCEPT ![c] = Blank]

Init ==
  /\ revision = 0
  /\ authors = [v \in Revisions |-> {}]
  /\ run = [r \in Runs |-> NoRun]
  /\ mask = [m \in Masks |-> [state |-> "none", parent |-> None]]
  /\ staged = {}
  /\ copy = [r \in Runs |-> None]
  /\ lostUploads = {}
  /\ lostCopies = {}
  /\ issued = {}
  /\ executing = {}
  /\ pc = [c \in Callers |-> "idle"]
  /\ my = [c \in Callers |-> Blank]
  /\ mishaps = 0

-----------------------------------------------------------------------------
(* Boxes, and runs that use them.                                          *)

\* A person opens the image: the revision seen is part of every later request.
Look(c) ==
  /\ Goto(c, "idle", "looked")
  /\ my' = [my EXCEPT ![c].seen = revision]
  /\ UNCHANGED <<rows, files, issued, executing, mishaps>>

\* replace compares the revision it reads, before the write lock is taken.
CheckReplace(c) ==
  /\ Goto(c, "looked", "replace")
  /\ my[c].seen = revision
  /\ revision < MaxRevision
  /\ UNCHANGED <<rows, files, issued, executing, my, mishaps>>

\* Faulty variant: the comparison above is thought to be enough.
CommitReplace_Unconditional(c) ==
  /\ pc[c] = "replace"
  /\ revision' = my[c].seen + 1
  /\ authors' = [authors EXCEPT ![my[c].seen + 1] = @ \cup {c}]
  /\ Return(c)
  /\ UNCHANGED <<run, mask, files, issued, executing, mishaps>>

\* The revision is claimed by a conditional update, then the rows are inserted.
CommitReplace(c) ==
  /\ pc[c] = "replace"
  /\ revision = my[c].seen
  /\ revision' = my[c].seen + 1
  /\ authors' = [authors EXCEPT ![my[c].seen + 1] = @ \cup {c}]
  /\ Return(c)
  /\ UNCHANGED <<run, mask, files, issued, executing, mishaps>>

\* create_runs compares the revision as well, if the boxes are to be used: a
\* run of the full image has no revision...
CheckCreate(c) ==
  /\ Goto(c, "looked", "create")
  /\ \/ my[c].seen = revision /\ revision > 0 /\ UNCHANGED my
     \/ my' = [my EXCEPT ![c].seen = 0]
  /\ UNCHANGED <<rows, files, issued, executing, mishaps>>

\* ...and inserts the runs with it, whatever it is by then.
CommitCreate(c, r) ==
  /\ pc[c] = "create"
  /\ Cardinality({s \in Runs : run[s].origin = "request"}) < MaxRequests
  /\ r \in Fresh
  /\ NewRun(r, "request", None, my[c].seen, None)
  /\ Return(c)
  /\ UNCHANGED <<revision, authors, mask, files, issued, executing, mishaps>>

\* Another revision than the one seen is a conflict; any request may raise.
RequestFails(c) ==
  /\ pc[c] \in {"looked", "replace", "create"}
  /\ Return(c)
  /\ UNCHANGED <<rows, files, issued, executing, mishaps>>

-----------------------------------------------------------------------------
(* stage_corrected_mask.                                                   *)

\* The upload is stored under a name of its own.
Stage(c, m, p) ==
  /\ Goto(c, "idle", "register")
  /\ p \in Present
  /\ mask[m].state = "none" /\ m \notin staged
  /\ \A d \in Callers : my[d].mask # m
  /\ staged' = staged \cup {m}
  /\ my' = [my EXCEPT ![c].parent = p, ![c].mask = m]
  /\ UNCHANGED <<rows, copy, lost, issued, executing, mishaps>>

\* The decoded file is registered for the run it corrects.
Register(c) ==
  /\ Goto(c, "register", "issue")
  /\ mask' = [mask EXCEPT ![my[c].mask] =
                [state |-> "active", parent |-> my[c].parent]]
  /\ UNCHANGED <<revision, authors, run, files, issued, executing, my, mishaps>>

\* The signed token is the answer.
Issue(c) ==
  /\ pc[c] = "issue"
  /\ issued' = issued \cup {my[c].mask}
  /\ Return(c)
  /\ UNCHANGED <<rows, files, executing, mishaps>>

\* An exception removes the file.  A row that is committed already stays, and
\* nobody holds a token for it.
StageFails(c) ==
  /\ pc[c] \in {"register", "issue"}
  /\ staged' = staged \ {my[c].mask}
  /\ Return(c)
  /\ UNCHANGED <<rows, copy, lost, issued, executing, mishaps>>

\* The file that an exception should remove cannot be deleted.
StageLeavesFile(c) ==
  /\ pc[c] \in {"register", "issue"}
  /\ mishaps < MaxMishaps
  /\ mishaps' = mishaps + 1
  /\ lostUploads' = lostUploads \cup {my[c].mask}
  /\ Return(c)
  /\ UNCHANGED <<rows, staged, copy, lostCopies, issued, executing>>

-----------------------------------------------------------------------------
(* create_review_run.                                                      *)

\* The parent has finished.  Without a mask the model runs again.
BeginReview(c, p, m) ==
  /\ Goto(c, "idle", IF m = None THEN "review" ELSE "resolve")
  /\ p \in Finished
  /\ m \in issued \cup {None}
  /\ my' = [my EXCEPT ![c].parent = p, ![c].mask = m]
  /\ UNCHANGED <<rows, files, issued, executing, mishaps>>

\* resolve_corrected_mask: an active row for this very run, and its file.
Resolve(c) ==
  /\ Goto(c, "resolve", "recheck")
  /\ mask[my[c].mask] = [state |-> "active", parent |-> my[c].parent]
  /\ my[c].mask \in staged
  /\ UNCHANGED <<rows, files, issued, executing, my, mishaps>>

\* The row is still active after the file has been read: the decoded mask is
\* written to the directory of the new run, which has no row yet.
CopyMask(c, r) ==
  /\ Goto(c, "recheck", "prepare")
  /\ mask[my[c].mask].state = "active"
  /\ r \in Fresh
  /\ copy' = [copy EXCEPT ![r] = my[c].mask]
  /\ my' = [my EXCEPT ![c].child = r]
  /\ UNCHANGED <<rows, staged, lost, issued, executing, mishaps>>

\* The copy is hashed and the child's configuration is built and validated.
Prepare(c) ==
  /\ Goto(c, "prepare", "review")
  /\ UNCHANGED <<rows, files, issued, executing, my, mishaps>>

\* An exception in between reaches no handler that would remove the copy.
PrepareFails(c) ==
  /\ pc[c] = "prepare"
  /\ lostCopies' = lostCopies \cup {my[c].child}
  /\ Return(c)
  /\ UNCHANGED <<rows, staged, copy, lostUploads, issued, executing, mishaps>>

ReviewRefused(c) ==
  /\ pc[c] \in {"resolve", "recheck"}
  /\ Return(c)
  /\ UNCHANGED <<rows, files, issued, executing, mishaps>>

\* Faulty variant: the token is consumed whatever its state.
CommitReview_Unconditional(c, r) ==
  /\ Goto(c, "review", IF my[c].mask = None THEN "idle" ELSE "delete")
  /\ IF my[c].mask = None
     THEN r \in Fresh /\ UNCHANGED mask
     ELSE /\ r = my[c].child
          /\ mask' = [mask EXCEPT ![my[c].mask].state = "consumed"]
  /\ NewRun(r, "review", my[c].parent, run[my[c].parent].boxes, my[c].mask)
  /\ my' = [my EXCEPT ![c].child = None]
  /\ UNCHANGED <<revision, authors, files, issued, executing, mishaps>>

\* One transaction consumes the token, if it is active, and inserts the child,
\* which has its parent's boxes.
CommitReview(c, r) ==
  /\ Goto(c, "review", IF my[c].mask = None THEN "idle" ELSE "delete")
  /\ IF my[c].mask = None
     THEN r \in Fresh /\ UNCHANGED mask
     ELSE /\ r = my[c].child
          /\ mask[my[c].mask].state = "active"
          /\ mask' = [mask EXCEPT ![my[c].mask].state = "consumed"]
  /\ NewRun(r, "review", my[c].parent, run[my[c].parent].boxes, my[c].mask)
  /\ my' = [my EXCEPT ![c].child = None]
  /\ UNCHANGED <<revision, authors, files, issued, executing, mishaps>>

\* Faulty variant: the handler forgets the copy.
ReviewFails_KeepsCopy(c) ==
  /\ pc[c] = "review"
  /\ Return(c)
  /\ UNCHANGED <<rows, files, issued, executing, mishaps>>

\* The token is gone, or the transaction raises: the copy is removed...
ReviewFails(c) ==
  /\ pc[c] = "review"
  /\ copy' = [r \in Runs |-> IF r = my[c].child THEN None ELSE copy[r]]
  /\ Return(c)
  /\ UNCHANGED <<rows, staged, lost, issued, executing, mishaps>>

\* ...unless the file cannot be deleted.
ReviewLeavesCopy(c) ==
  /\ pc[c] = "review"
  /\ my[c].child # None
  /\ mishaps < MaxMishaps
  /\ mishaps' = mishaps + 1
  /\ lostCopies' = lostCopies \cup {my[c].child}
  /\ Return(c)
  /\ UNCHANGED <<rows, staged, copy, lostUploads, issued, executing>>

\* _delete_consumed_corrected_mask.
DeleteUpload(c) ==
  /\ pc[c] = "delete"
  /\ staged' = staged \ {my[c].mask}
  /\ Return(c)
  /\ UNCHANGED <<rows, copy, lost, issued, executing, mishaps>>

\* A file that cannot be deleted is logged.
DeleteUploadFails(c) ==
  /\ pc[c] = "delete"
  /\ mishaps < MaxMishaps
  /\ mishaps' = mishaps + 1
  /\ lostUploads' = lostUploads \cup {my[c].mask}
  /\ Return(c)
  /\ UNCHANGED <<rows, staged, copy, lostCopies, issued, executing>>

-----------------------------------------------------------------------------
(* Execution, restart and recovery.                                        *)

Claim(r) ==
  /\ run[r].state = "queued"
  /\ run' = [run EXCEPT ![r].state = "active"]
  /\ executing' = executing \cup {r}
  /\ UNCHANGED <<revision, authors, mask, files, issued, callers, mishaps>>

\* A run with a corrected mask needs the copy its configuration has the hash of.
Complete(r) ==
  /\ r \in executing
  /\ copy[r] = run[r].mask
  /\ run' = [run EXCEPT ![r].state = "completed"]
  /\ executing' = executing \ {r}
  /\ UNCHANGED <<revision, authors, mask, files, issued, callers, mishaps>>

Fail(r) ==
  /\ r \in executing
  /\ run' = [run EXCEPT ![r].state = "failed"]
  /\ executing' = executing \ {r}
  /\ UNCHANGED <<revision, authors, mask, files, issued, callers, mishaps>>

\* A recoverer has read the row of an interrupted run.
FindStale(c, p) ==
  /\ Goto(c, "idle", "requeue")
  /\ p \in Stale
  /\ my' = [my EXCEPT ![c].parent = p]
  /\ UNCHANGED <<rows, files, issued, executing, mishaps>>

\* Faulty variant: the row is compared before the transaction, not by it.
Requeue_Unconditional(c, r) ==
  LET p == my[c].parent IN
  /\ pc[c] = "requeue"
  /\ run[p].mask = None
  /\ r \in Fresh
  /\ run' = [run EXCEPT ![p].state = "failed",
                        ![r] = [@ EXCEPT !.state = "queued", !.parent = p,
                                         !.origin = "recovery",
                                         !.boxes = run[p].boxes]]
  /\ Return(c)
  /\ UNCHANGED <<revision, authors, mask, files, issued, executing, mishaps>>

\* Faulty variant: a run with a corrected mask is cloned like any other.
Requeue_ClonesMask(c, r) ==
  LET p == my[c].parent IN
  /\ pc[c] = "requeue"
  /\ run[p].state = "active"
  /\ r \in Fresh
  /\ run' = [run EXCEPT ![p].state = "failed",
                        ![r] = [run[p] EXCEPT !.state = "queued", !.parent = p,
                                              !.origin = "recovery"]]
  /\ Return(c)
  /\ UNCHANGED <<revision, authors, mask, files, issued, executing, mishaps>>

\* requeue: a conditional update claims the interrupted run, and the same
\* transaction inserts its replacement, with the same configuration.
Requeue(c, r) ==
  LET p == my[c].parent IN
  /\ pc[c] = "requeue"
  /\ run[p].state = "active"
  /\ run[p].mask = None
  /\ r \in Fresh
  /\ run' = [run EXCEPT ![p].state = "failed",
                        ![r] = [run[p] EXCEPT !.state = "queued", !.parent = p,
                                              !.origin = "recovery"]]
  /\ Return(c)
  /\ UNCHANGED <<revision, authors, mask, files, issued, executing, mishaps>>

\* The corrected mask is in the interrupted run's directory, so that run cannot
\* be cloned: it only fails.
RequeueBlocked(c) ==
  LET p == my[c].parent IN
  /\ pc[c] = "requeue"
  /\ run[p].state = "active"
  /\ run[p].mask # None
  /\ run' = [run EXCEPT ![p].state = "failed"]
  /\ Return(c)
  /\ UNCHANGED <<revision, authors, mask, files, issued, executing, mishaps>>

\* Another recoverer was first, or the transaction raises.
RequeueLost(c) ==
  /\ pc[c] = "requeue"
  /\ Return(c)
  /\ UNCHANGED <<rows, files, issued, executing, mishaps>>

\* The files that an active request will hand over or delete.
HeldUploads ==
  {my[c].mask : c \in {d \in Callers : pc[d] \in {"register", "issue", "delete"}}}
HeldCopies ==
  {my[c].child : c \in {d \in Callers : pc[d] \in {"prepare", "review"}}} \ {None}

\* The process ends: rows, files and the tokens people hold are what is left.
Crash ==
  /\ mishaps < MaxMishaps
  /\ mishaps' = mishaps + 1
  /\ lostUploads' = lostUploads \cup HeldUploads
  /\ lostCopies' = lostCopies \cup HeldCopies
  /\ executing' = {}
  /\ pc' = [c \in Callers |-> "idle"]
  /\ my' = [c \in Callers |-> Blank]
  /\ UNCHANGED <<rows, staged, copy, issued>>

-----------------------------------------------------------------------------
BoxesNext(c) ==
  \/ Look(c)
  \/ CheckReplace(c)
  \/ CommitReplace(c)
  \/ CheckCreate(c)
  \/ \E r \in Runs : CommitCreate(c, r)
  \/ RequestFails(c)

MaskNext(c) ==
  \/ \E m \in Masks, p \in Runs : Stage(c, m, p)
  \/ Register(c)
  \/ Issue(c)
  \/ StageFails(c)
  \/ StageLeavesFile(c)

ReviewNext(c) ==
  \/ \E p \in Runs, m \in Masks \cup {None} : BeginReview(c, p, m)
  \/ Resolve(c)
  \/ \E r \in Runs : CopyMask(c, r)
  \/ Prepare(c)
  \/ PrepareFails(c)
  \/ ReviewRefused(c)
  \/ \E r \in Runs : CommitReview(c, r)
  \/ ReviewFails(c)
  \/ ReviewLeavesCopy(c)
  \/ DeleteUpload(c)
  \/ DeleteUploadFails(c)

RecoveryNext(c) ==
  \/ \E p \in Runs : FindStale(c, p)
  \/ \E r \in Runs : Requeue(c, r)
  \/ RequeueBlocked(c)
  \/ RequeueLost(c)

WorkerNext(r) ==
  \/ Claim(r)
  \/ Complete(r)
  \/ Fail(r)

Next ==
  \/ \E c \in Callers : BoxesNext(c)
  \/ \E c \in Callers : MaskNext(c)
  \/ \E c \in Callers : ReviewNext(c)
  \/ \E c \in Callers : RecoveryNext(c)
  \/ \E r \in Runs : WorkerNext(r)
  \/ Crash

Spec == Init /\ [][Next]_vars
-----------------------------------------------------------------------------
(* Properties.                                                             *)

\* Type correctness of the whole state.
TypeOK ==
  /\ revision \in 0..MaxRevision
  /\ authors \in [Revisions -> SUBSET Callers]
  /\ run \in [Runs ->
       [state : {"absent", "queued", "active", "completed", "failed"},
        origin : {None, "request", "review", "recovery"},
        parent : Runs \cup {None}, boxes : 0..MaxRevision,
        mask : Masks \cup {None}]]
  /\ mask \in [Masks -> [state : {"none", "active", "consumed"},
                         parent : Runs \cup {None}]]
  /\ staged \in SUBSET Masks
  /\ copy \in [Runs -> Masks \cup {None}]
  /\ lostUploads \in SUBSET Masks
  /\ lostCopies \in SUBSET Runs
  /\ issued \in SUBSET Masks
  /\ executing \in SUBSET Runs
  /\ pc \in [Callers -> {"idle", "looked", "replace", "create", "register",
                         "issue", "resolve", "recheck", "prepare", "review",
                         "delete", "requeue"}]
  /\ my \in [Callers -> [seen : 0..MaxRevision, parent : Runs \cup {None},
                         mask : Masks \cup {None}, child : Runs \cup {None}]]
  /\ mishaps \in 0..MaxMishaps

\* The boxes a run refers to are one person's edit, made on top of what that
\* person had seen, although the revision may have been replaced between the
\* request's check and its commit.
BoxesAreOneEdit ==
  \A r \in Present : run[r].boxes > 0 => Cardinality(authors[run[r].boxes]) = 1

\* A corrected mask is used by one run at most, and only by a review of the run
\* it was uploaded for: two requests with the same token do not both succeed.
MaskUsedOnce ==
  \A r, s \in Present :
    run[r].mask # None =>
      /\ run[r].parent = mask[run[r].mask].parent
      /\ run[s].mask = run[r].mask => s = r

\* Whoever failed, crashed, cleaned up or recovered: a run that is still to be
\* executed has its corrected mask in its own directory.
RunKeepsItsMask ==
  \A r \in Present :
    run[r].state \in {"queued", "active"} => copy[r] = run[r].mask

\* A token that somebody holds and nobody has used is good for a review: its
\* file is there, in spite of other reviews with the same token that failed.
IssuedIsUsable ==
  \A m \in issued : mask[m].state = "active" => m \in staged

\* Every file is accounted for: an upload belongs to somebody's token, a copy to
\* a run, or a request that is still active has it in hand.  What is left behind is
\* what a crash took out of a request's hands, what could not be deleted, and the
\* copy of a review that failed before its transaction was tried.
NothingLeftOver ==
  /\ \A m \in staged :
       \/ mask[m].state = "active" /\ m \in issued
       \/ m \in HeldUploads \cup lostUploads
  /\ \A r \in Runs :
       copy[r] # None => r \in Present \cup HeldCopies \cup lostCopies

\* A token works exactly once: for one review at most, and for one as long as
\* nobody has used it, whatever became of the requests that tried.
TokenWorksOnce == MaskUsedOnce /\ IssuedIsUsable

\* Files follow the rows although they change outside the transactions: what a
\* run needs is there, and what nothing needs is accounted for.
MasksFollowRows == RunKeepsItsMask /\ NothingLeftOver

\* Recoverers that find the same interrupted run put one replacement in the
\* queue, with the same boxes; a run that somebody executes is never replaced.
OneReplacement ==
  /\ \A r, s \in Present :
       /\ run[r].origin = "recovery" /\ run[s].origin = "recovery"
       /\ run[r].parent = run[s].parent
       => r = s
  /\ \A r \in Present :
       run[r].origin = "recovery" =>
         /\ run[r].parent \notin executing
         /\ run[run[r].parent].state = "failed"
=============================================================================
