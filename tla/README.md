# A TLA+ verification of the NanoLoop-Agent service

NanoLoop-Agent analyses microscopy images: a browser uploads images, creates
segmentation runs, reviews their results, asks a bounded agent for follow-up
work and downloads reports.  One FastAPI process on one SQLite database does
everything (ADR-0002, ADR-0003): request handlers, worker threads, two periodic
schedulers and a cache of loaded models share memory and rows.  This directory
models the parts whose correctness depends on the *order* of things, checks them
with TLC on small instances and proves the most important facts for every size
with TLAPS.

| file | what it is |
| --- | --- |
| `RunStatus` | vocabulary: statuses, transition table, aggregation of a job's status |
| `RunLedger` | abstract specification: what the durable run records promise |
| `RunPipeline` | requests, rows, queue, workers, scheduler, crash, recovery |
| `RunPipelineProofs` | TLAPS proofs about `RunPipeline`, including the refinement of `RunLedger` |
| `Dispatcher` | the thread pool and its queue, one thread step at a time |
| `DispatcherProofs` | TLAPS proofs about `Dispatcher` |
| `AgentControl` | one durable agent task: decisions, approvals, tools, resumption |
| `AgentControlProofs` | TLAPS proofs about `AgentControl` |
| `AdapterCache` | the bounded cache of loaded models, its leases, probes and evictions |
| `AdapterCacheProofs` | TLAPS proofs about `AdapterCache` |
| `KnowledgeIndex` | the document catalogue, its vector index and searches |
| `KnowledgeIndexProofs` | TLAPS proofs about `KnowledgeIndex` |
| `RunInputs` | boxes, corrected masks, reviews and replacements of interrupted runs |
| `RunInputsProofs` | TLAPS proofs about `RunInputs` |
| `FrozenModels` | abstract specification: what freezing a model promises to a run |
| `ModelBundles` | how a model is frozen, stored by content and opened |
| `BackupRestore` | backups beside the service, and restoration |
| `QueryAudit` | the rows of queries, the files that repeat them, and exports |
| `StorageProofs` | TLAPS proofs about `BackupRestore`, `ModelBundles` with the refinement of `FrozenModels`, and `QueryAudit` |
| `Identity` | tenants, principals, credentials: commands, issue of tokens, requests |
| `TokenBuckets` | the bounded table of token buckets that limits rates |
| `AccessProofs` | TLAPS proofs about `Identity` and `TokenBuckets` |
| `MC*` and `*.cfg` | the instances TLC checks |
| `PROJECT.json` | components, runs, mutants, source map, findings, hazards, theorems |

## 1. Inventory of the system

### Run and job state machine (`app/core/state_machine.py`, `app/contracts/enums.py`)
State: none; tables.  A run goes QUEUED, PREPROCESSING, SEGMENTING,
POSTPROCESSING, QUALITY_CHECKING, ANALYZING, AGGREGATING and ends COMPLETED,
COMPLETED_WITH_WARNINGS, NEEDS_REVIEW or FAILED; a job's status is derived from
its runs.  Correct when every writer goes along the table and the job's status
never contradicts its runs.  Modelled (`RunStatus`).

### Run execution pipeline (`app/analysis/application.py`, `app/db/repositories.py`)
State: rows of runs, their summaries, their event trail, their job.  Operations:
`create_runs`, `create_review_run`, `_dispatch_runs`, `execute_run` (claim, load,
five status changes, save, finish, read back) and `_record_failure`.  A run's
execution is about ten transactions; a crash or an exception may fall between any
two of them, and other requests, workers and recovery write the same job. Correct
when a run is executed by one worker at a time, its status is the stage that
worker is in, a finished run has the measurement that earns its status, the job's
status is the aggregate of its runs, the trail is the history, and every accepted
run ends.  Modelled (`RunPipeline`); what a run is made of is in `RunInputs` and
`ModelBundles`.

### Startup recovery and queued-run scheduler (`app/orchestration/recovery.py`, `sqlalchemy_recovery.py`, `scheduler.py`, `post_commit.py`)
State: a snapshot of rows, read before it is used.  Recovery starts the workers,
submits QUEUED rows, then fails the rows which the previous process left active;
the scheduler submits QUEUED rows again and again.  Hard: both act on stale
snapshots beside running workers.  Modelled in `RunPipeline` for the FAIL policy
that `app/main.py` uses, and in `RunInputs` for the REQUEUE policy, where recoverers
replace an interrupted run by a new one.

### In-process task dispatcher (`app/orchestration/dispatcher.py`)
State: a bounded queue, a set of pending ids that rejects duplicates, a set of
ids in flight, flags, a shutdown event, a count of live threads.  Operations:
`start`, `submit`, `drain`, `stop`, the worker loop, `_discard_queued`.  Hard:
queue, event and thread ends are not under the lock that protects the rest;
`stop` may time out, may race another `stop` or a restart; a thread may not
start.  Correct when the pending set is exactly what is queued or held, a
stopped dispatcher has no thread, `stop` tells the truth and ends.  Modelled
(`Dispatcher`).

### Durable agent tasks (`app/agent/control.py`, `scheduler.py`, `scientific_tools.py`)
State: the task row with its pending action, budgets, observations and approvals;
a lock per task.  Operations: `create`, `run`, `submit_input`,
`resolve_approval`, `cancel`, `resume_ready_tasks`.  Hard: a tool acts between
two transactions; the process may end in between; the scheduler chooses a task
and checks its creator before it has the lock; people act at the same time.
Correct when a write acts at most once and only with approval, budgets hold, a
final answer rests on evidence, an ended task stays ended and an unattended
action does not stay pending.  Modelled (`AgentControl`).

### Adapter cache and inference gateway (`app/inference/cache.py`, `gateway.py`, `execution.py`)
State: an LRU mapping of loaded models, a lock per model, the set of keys that
are being unloaded, the global inference lock.  Operations: `lease`
(`get_or_load`, look, acquire, look again, use), `health_snapshot`, `unload`,
`clear`.  Hard: an adapter may be retired while others wait for its lock; a probe
holds several locks.  Correct when whoever uses an adapter has a loaded one to
himself, no model is loaded twice, nothing leaks, no call waits forever.
Modelled (`AdapterCache`).

### Boxes, corrected masks and reviews (`app/db/repositories.py`, `app/analysis/application.py`, `app/artifacts/`)
State: a revision of boxes per image, run rows that refer to one, rows and files
of corrected masks, signed tokens that people hold.  Operations: `replace`,
`create_runs`, `stage_corrected_mask`, `create_review_run`, `requeue`.  Hard: a
revision is compared before the write lock is taken; a mask is a file, a row, a
token and a copy, written and deleted one after the other, and each step may fail
or be the last one before a crash; two requests may use one token.  Correct when
the boxes of a run are one person's edit, a mask is used once and lives exactly as
long as a token or a run needs it, and one replacement is queued for an
interrupted run.  Modelled (`RunInputs`).

### Model registry, snapshots and adapters (`app/inference/registry.py`, `snapshots.py`, `gateway.py`)
State: model files and declarations that operators edit, the registration in
memory, a content-addressed store of snapshots and manifests, the cached
adapters.  Operations: `refresh`, `validate_bundle`, `open_bundle`, `predict`.
Hard: the files may change between any two reads, of a start-up or of a request;
publication may stop half way; a run is executed long after its model was chosen,
beside runs with other versions of the same model.  Correct when a run gets, in
whole, a version that a start-up registered, and predicts with that version.
Modelled (`ModelBundles`).

### Knowledge base and retrieval (`app/rag/`, `app/api/routes/knowledge.py`)
State: source files by content, rows of documents and chunks, generation files
and a manifest of the vector index.  Operations: upload, `ingest_document`,
`set_document_enabled`, `reindex`, `rebuild`, `publish`, `search`.  Hard: each
change is committed first and projected later; a rebuild reads rows, embeds for a
long time and publishes; a search reads three times.  Correct when searches find
current text only, the published index follows the catalogue and can be loaded
after any crash.  Modelled (`KnowledgeIndex`).

### Backup and restoration (`app/operations/backup.py`)
State: the state directory, the archive with its checksum, a root under
construction.  Operations: `create_backup`, `verify_backup`, `restore_backup`.
Hard: the service may still run, under another lock or after a shutdown that gave
up waiting; archive and checksum are two files; other backups have the same
destination.  Correct when an archive has every file that its database refers to,
a reported archive stays, a restored root is one whole archive.  Modelled
(`BackupRestore`).

### Identity and authentication (`app/db/identity.py`, `app/authentication.py`, `scripts/manage_identity.py`)
State: rows of tenants, principals and credentials, an audit trail of their
changes, and token files.  Operations: create, disable, enable and revoke, each a
command and process of its own; the issue of a credential, whose token exists only
in a file; `authenticate`.  Hard: the issue is a file, a transaction and a report,
each of which may fail, and may be killed between two of them; a commit may fail
without it being known whether it happened; rows change while a request is in
flight.  Correct when a request is let in or refused for a reason that held while
it was in flight, the report of an issue is true and leaves no usable token
unmentioned, and the trail tells the state of every row.  Modelled (`Identity`).

### Rate limits (`app/core/rate_limit.py`)
State: a least-recently-used table of token buckets with a bound.  Operation:
`BoundedKeyedTokenBucketLimiter.consume`, before authentication by peer and after
it by principal.  Hard: the clock is read before the lock is taken; a bucket may
be evicted and created again.  Correct when a key gets its rate and no more, is
refused nothing that its rate allows, and the `Retry-After` of a refusal is true.
Modelled (`TokenBuckets`).

### Audit of queries and exports (`app/agent/application.py`, `app/analysis/reporting.py`, `app/api/routes/exports.py`)
State: rows of `query_logs`, the files `query_history.jsonl` and
`rag_citations.json` that repeat them, the tables and summaries of a selection of
runs, archives.  Operations: the writing of a query, the export of a job.  Hard:
queries append under one lock, after their commit, and exports rewrite the same
files under another, from rows read earlier.  Correct when an archive is that of
its own export and the files say what the rows say.  Modelled (`QueryAudit`); the
second half of the latter is finding 4.

### Not modelled
- *Application lifespan* (`app/main.py`): only the order recovery, schedulers,
  serving; a shutdown that does not finish is a crash of `RunPipeline` and leaves
  a worker without the lock in `BackupRestore`.
- *Database sessions*: one action per transaction; SQLite itself is trusted.
- *Uploads of images at the creation of a job*: the same order of files, rows and
  clean-up as a corrected mask in `RunInputs`, with no token.
- *Download tokens and the keyring*: tokens are stateless signatures; the file of
  keys is replaced by one rename.
- *Of identity and rate limits*: the shared key of the compatibility modes and
  their single bucket, which bucket a request is charged to, hashes and digests of
  tokens, and what an ordinary command reports when its commit fails.
- *Conversation, routing, data tools; HTTP API; the contents of measurements and
  reports; research client, training, frontend, scripts, migrations*: text,
  numbers, layout or pure delegation, with no shared state whose order matters.
  They are most of the repository's lines.

## 2. The modules and the code

### RunPipeline
A step is one transaction, one critical section of the dispatcher, or one local
step of a thread.  Every writing transaction takes SQLite's write lock before it
reads what it aggregates, so one action per transaction is exact; what a handler
reads in one transaction and uses in a later one is a step of its own
(`CheckCreate`/`CommitCreate`, `CheckReview`/`CommitReview`, `SchedulerPoll`/
`SchedulerSubmit`, `Start`/`RecoverFail`).  `wpc[w]` is the worker's place in
`execute_run`; `queue` and `known` are the dispatcher's bounded queue and pending
set, whose inside `Dispatcher` models.  `Crash` may happen at any point and keeps
only the rows.  `Faults` says which exceptions may occur, each at its place:
before the claim, between the claim and the `try` block, inside it, in the
failure handler, in recovery.  A measurement is only its quality verdict.

### Dispatcher
A step is one critical section of `_condition`, or one access to what that lock
does not protect: `queue.get`, the shutdown event, the discarding of queued ids,
the start and end of a thread.  `taken[c]` holds the ids that `_discard_queued`
has in its hands; `joins[c]` is the generation of threads whose list a `stop` has
copied.  `report[c]` is what the last `stop` returned.

### AgentControl
One task.  `lock` is `_task_lock`, which a call holds from its first read to its
return; calls that are one transaction are one step.  `run` and the approval of
an action consist of several: decision, first transaction (`StartTool`, which
writes `execution_started`), the tool's effect (`RunTool`), second transaction
(`Record*`).  The scheduler's query and its check of the credential are steps
without the lock.  `effects[a]` counts how often the tool of action *a* has
acted: it is the outside world, and survives a crash.  A tool that fails may or
may not have acted.  The eight tools are two kinds: four read and are idempotent,
four write, need approval and are not.  The model's decision is any of the
kinds the contract allows; what it says is not modelled.

### AdapterCache
A step is one critical section of the metadata lock or one acquisition or release
of an adapter's lock.  Loading happens inside the section and is part of its
step; unloading happens outside and is one.  Adapters are objects with identity
(`<<key, n>>`), so that *this very adapter* (`is` in the code) can be told from a
newer one of the same key.  `mine[t]` is the adapter a lease was given or the
one a probe looks at.  A sequence's elements that are in a set (`Part`), a new
adapter (`Fresh`) are the one member of a set, so that proofs can name them.
`Serialised` says whether leases are taken under the
inference lock, as the gateway does.

### RunInputs
One image.  A step is one transaction or one file operation; `pc[c]` and `my[c]`
are a request's place and what it remembers from earlier steps (the revision it
has seen, the mask it resolved, the directory it copied into).  `staged`, `copy`
and `issued` are the uploaded files, the files in the directories of runs and the
tokens out in the world; a crash keeps these and the rows, and nothing else.  Between
the copy of a mask and the `try` that would remove it the child's configuration is
built: `Prepare`, or `PrepareFails`, which leaves the copy.  `lostUploads` and
`lostCopies` are history: the files that a crash, a deletion that failed or such an
exception has left behind.
`FindStale` and `Requeue` are a recoverer's query and its transaction.

### ModelBundles
One model in numbered parts; a digest stands for the content it is the digest of.
A step is the reading of one part, the publication of one file, or one
transaction.  A start-up reads the parts in the order of `_parse_entry`, the code
first and the weights last (`RegisterPart`, `reads`), and serves nobody meanwhile
(`Starting`); an edit may come between any two of its reads, and nothing is compared
but the weights with their declared digest.  `at[c]` is the request's place in
`validate_bundle`.  `source` and
`declared` are the operators' files, which `Edit` changes at any time; `snapshot`
and `manifest` are the store, a file of which `Tamper` may damage; a file appears
under its name with all of its content, because the code links a finished
temporary file.  `warm` is the adapter cache by its key, the bundle's
fingerprint; what threads do to that cache is `AdapterCache`.  `offered` and `seen`
are history: the versions a process was ready to freeze, and what each file has held
since the start-up began.  The fields of a declaration other than the digest of the
weights, an optional digest of the code among them, and runs that were created before
bundles existed and are opened by another path, are left out.

### KnowledgeIndex
A document has one chunk, since its chunks change in one transaction.  A step is
one read, one transaction, one file operation or one acquisition of the
publisher's lock.  `window[c]` is history: what was to be found at some moment of
the search; `found[c]` what it used.  The in-memory index is the published one,
because a search compares the manifest's signature and loads it again if it
differs.

### BackupRestore
A step is the listing or the copying of one directory, the copy of the database,
or one link, unlink, sync or rename.  An item is a file with the row that refers
to it; the service stores before it commits and removes after the row is
consumed.  `service` says whether the service holds the lock that the backup
asks for.  The verification of an archive is one step, although it hashes the archive
(`backup.py:595`) and reads its manifest (598) one after the other: an archive that is
replaced and put back between the two is not in the model.  The service is not
followed any more once an archive exists: nothing in the archive changes after it.

### QueryAudit
One job.  A step is one transaction, one read of a file or one replacement of a
file, which the code does by renaming a finished temporary one; an append is a
read and a replacement.  `asking[q]` and `exporting[e]` are the places in `answer`
and in the export; `asked[q]` is what a query has read of the file it is about to
replace, `reading[e]` the rows and the selection of an export.  `quiet[e]` is
history: nobody else has been at work since the export read its rows; `degraded`
holds the queries whose files could not be written, or not surely.

### Identity
Each command is a process and each transaction a step; `Unlocked` says that nobody
is inside the transaction of an issue, which holds SQLite's write lock from its
first statement.  `issue[c]` is how far the issue of a credential has come and what
was reported in the end, `file[c]` the token file, which a kill leaves as it is.  A
request reads the clock, then the three rows in one query; `sawGood` and `sawBad`
are history: whether at some moment of its flight its rows were all good, or one of
them was not.

### TokenBuckets
`ReadClock` and `Decide` are the two steps of `consume`, since the clock is read
before the lock is taken and readings may therefore arrive out of order.  Time
passes in ticks and a token is counted in `Cost` units, so that a tick refills
`Capacity` units and nothing is rounded.  That holds in the model only: the code
computes with floats and allows for their error with a tolerance of 1e-12, so what is
said of the rate holds for it up to that.
`decisions` is history: every decision with its key, its reading and its answer.

## 3. What is checked

| run | instance | shows | distinct states |
| --- | --- | --- | --- |
| `pipeline_safety` | 2 runs, 2 workers, 1 handler, queue of 1, 1 crash, every fault | three invariants, and that the pipeline implements `RunLedger` | 547 000 |
| `pipeline_progress` | 2 runs, 1 worker, queue of 1, 1 crash, work may fail | every accepted run ends | 315 000 |
| `pipeline_missing_input` | as above, the input may be missing | **violated**: finding 1 | |
| `dispatcher_safety` | 3 ids, 2 threads, 2 callers, queue of 2, 2 generations, refused threads, both kinds of `stop` | no id is lost or doubled; no thread outlives a stop | 246 000 |
| `dispatcher_stop` | 2 ids, 2 threads, 2 callers, no deadline | `stop` ends, tells the truth and leaves nothing | 4 700 |
| `dispatcher_stop_deadline` | 1 caller with a deadline | **violated**: finding 2 | |
| `agent_control` | 2 people, scheduler, 2 decisions, 3 actions, 1 failure allowed, 2 interruptions, every fault | writes act once, with approval, not after the end; budgets; evidence; an unattended action does not stay pending | 281 000 |
| `cache` | 3 keys, 2 threads, cache of 2, all calls, inference lock, loading may fail | a used adapter is loaded and one's own; one per key; no leak; every call ends; no deadlock | 265 000 |
| `knowledge_safety` | 2 documents, 2 contents, 2 callers of which 1 reindexes, 2 generation files, 1 edit, 1 crash | searches find current text; the index follows the catalogue; nothing needed is deleted | 2 070 000 |
| `knowledge_reindex_edit` | the same without crashes | **violated**: finding 3 | |
| `components` | `RunInputs`: 3 runs, 1 mask, 2 callers, 1 mishap; `ModelBundles`: 2 runs, 2 parts, 2 contents, 1 creator, 1 executor, cache of 1, 1 edit, 1 damage, 1 restart; `BackupRestore`: 1 item, 2 directories, 2 backups, 2 kills; `QueryAudit`: 2 queries, 2 exports, 2 selections, 1 failure; `Identity`: 1 tenant, 1 principal, 2 credentials of which one expires, 1 request; `TokenBuckets`: 3 keys, 2 threads, table of 2, 2 tokens in 3 seconds of 2 ticks | rows and files stay together; a frozen model stays what it was and implements `FrozenModels`; archives are whole and their own; verdicts, reports and the trail are true; the rate is exact | 1 119 000 |
| `query_audit_projection` | `QueryAudit`: 2 queries, 1 export, no failure | **violated**: finding 4 | |

`components` checks six components in one run.  They share no variable, so a
behaviour takes the steps of one of them (`awake`) while the others stay in an
initial state: every state of each component is reached, and none of their
products.

### The properties
*Runs.* `CompletedHasEarnedResult`: a crash between saving and finishing never
produces a finished run without its measurement.  `RecoveryFailsOnlyLeftovers`:
recovery runs beside workers it has itself fed and fails none of their runs.
`ReviewedParentIsFinal`: a check in one transaction still holds in a later one.
`AcceptedRunFinishes`: nothing is stranded. `ImplementsLedger` is the abstract
specification; that a job's status is the aggregate of its runs whichever of four
writers came last, and that the trail is the history (`JobStatusIsAggregate`,
`TrailIsHistory`), are part of what it says and theorems of their own.
`ActiveRunIsOwned` is what finding 1 refutes.  `StageAgrees` and
`ExclusiveExecution` (one worker executes a run, although its id is submitted by
requests, scheduler and recovery) are parts of the proof's invariant and in no run
of their own: no single faulty action breaks them without breaking another
property first.

*Dispatcher.* `PendingIsExact`: the set that rejects duplicates holds exactly the
ids that are queued or in somebody's hands, each once.  `StoppedHasNoThread`: two
generations of threads never overlap.  `StopReportIsTrue`, `StopLeavesNothing`: a
stop returns, tells the truth and leaves nothing behind.
`StoppedIsEmpty` is what finding 2 refutes.

*Agent.* `WriteIsApprovedOnce`, `EndedIsFinal` and `CompletedHasEvidence` relate
what happened in the world (`effects`) to what the row says, over any interleaving
of people, scheduler and crashes; `docs/AGENT_CONTROL_PLANE.md` promises part of
the first ("non-idempotent writes are never replayed", in substance).
`PendingAgrees` ties status, pending action and approval row together.
`CompletedHasEvidence` says what the completion check achieves: a final answer cites
something, all of it comes from a tool that has acted, and a write that it cites has
succeeded.  It cannot say the same of a read: a query whose answer is unclear is an
error that names the runs it looked at, and the check does not ask for the outcome
(see the end of section 5).  `BudgetHolds` bounds decisions and failures; it does not
speak of the steps that one call takes without a person (`MaxAutoSteps`).
`UnattendedResolves` is the scheduler's purpose.

*Cache.* `UsedIsLoaded` is what the two looks around an acquisition are for,
`OneAdapterPerKey` what `_retiring` is for, `NothingLeaks` what the `finally`
block is for, `CallsEnd` what the order of locks is for.

*Inputs of runs.* `BoxesAreOneEdit`: two editors who began with one revision do
not mix their boxes, nor does one overwrite the other.  `TokenWorksOnce`: a token
out in the world still has its row and file or has been used, and two requests
with one token make one review.  `MasksFollowRows`: the clean-up after a failure
never takes the file of a run that exists, and a file that no row and no request
knows was left behind by a crash, by a deletion that failed, or by a review that
failed between its copy and its transaction - and by nothing else.  `OneReplacement`: two
recoverers and a person who reviews the same run make one replacement.

*Models.* `FrozenIsWhole`: every file an accepted run refers to is in the store,
and whole unless somebody damaged it.  `KeepsPromise` is the abstract
specification: what a start-up offers holds in each part something that its file has
held since that start-up began, which is one version if nobody edits meanwhile; a run
is accepted with one version that was offered, whatever has been edited since, and
predicts with that version or fails.

*Knowledge.* `FoundWasCurrent`: what a search uses was current and enabled at
some moment of that search, although it reads vectors, keywords and rows one after
the other.  `IndexFollowsCatalogue`: when nobody is working on it, the published
index is that of the rows, unless a rebuild has failed.
`PublishedIsWhole`: the manifest names a file that exists and fits it, after any
crash and beside any clean-up.  `SourceKept`: no failure deletes a source file
that a row needs.  `DisabledStaysDisabled`: a reindexing that began before a
document was disabled does not enable it again.  `ChunksMatchDigest` is what
finding 3 refutes.

*Backup.* `ArchiveHasItsFiles`: rows in an archive refer only to files in it,
although the service writes files and rows while the backup copies them one after
the other.  `ReportedStays`: a backup that fails or is undone never takes the
archive of another one that was reported.  `RestoredIsWhole`: a restored root is
the content of one verified archive, or is not visible.

*Queries.* `ArchiveIsOwn`: the archive that an export hands out has its own
selection of runs and its own reading of the rows, however many exports of the job
there are at once.  `UndisturbedFilesAreRight`: queries among themselves keep every
line, and an export that nobody disturbs lists every row once.
`HistoryIsProjection`, for queries and exports together, is what finding 4 refutes.

*Access.* `VerdictIsJustified`: a request is let in, or refused, only for rows that
were so at one moment while it was in flight, never for a mixture of them.
`ReportIsTrue`: success means a row and a token, an error means no row, and a usable
token that was not reported as such was reported as not destroyed, or its command
was killed.  `TrailTellsState`: the audit trail alone gives the state of every row.
`RateIsExact`: neither other keys, nor evictions, nor readings of the clock that
arrive out of order give a key more than its rate or refuse what it allows.
`RetryIsHonest`: who waits as long as the refusal says is served, and one who comes
more than a second earlier to a bucket in use is not.

Each property has a mutant in `PROJECT.json`: a named faulty variant of one
action, beside the action it varies, under which TLC finds the property violated.

### Why the bounds are enough
Every hazard is a matter of two actors and one object, or of one object that
comes back.

*Runs* (`Capacity`, `MaxCrashes`).  Two runs in a queue of one overflow it; two
workers meet on one run; one crash leaves rows for recovery while new requests
come; a second crash would begin from rows a first one already produces.

*Dispatcher* (`Capacity`, `MaxStarts`, `Deadlines`, `StartFails`).  Two callers
race `stop` and restart, two generations of threads overlap, three ids fill the
queue and a worker's hands.  `dispatcher_stop` has one start, no deadline and no
refused thread, because without these a stop need not end or tell the truth: it
joins a thread that never started, or one of a newer generation, and a
dispatcher that is stopped already answers at once, whatever an earlier stop with
a deadline left in its queue.  The first two are in the hazard list, the third
is finding 2.

*Agent* (`MaxSteps`, `MaxFailures`, `MaxAutoSteps`, `MaxObservations`,
`MaxActions`, `MaxInterruptions`).  Three actions let a write follow a read whose
evidence has left a window of two observations; a crash after a tool has acted
and a second one after its resumption are enough to repeat it; one failure may be
followed by one that exceeds the budget.

*Cache* (`MaxSize`).  Two threads, three keys and a cache of two make a probe hold
one lock and wait for another while a lease evicts either.  Three threads, and
leases without the inference lock, are covered by the proofs, which have any number
of threads and both values of `Serialised`.

*Knowledge* (`MaxEdits`, `MaxCrashes`).  Two contents of two documents meet in
one source file; two generation files let a rebuild write one while the other is
published; one of two callers may reindex, which takes the most steps.

*Inputs* (`MaxRevision`, `MaxRequests`, `MaxMishaps`).  Three runs are a parent
and two children, whether reviews or replacements; one mask is wanted by both
callers; a revision is replaced once while the other caller relies on it.  A
mishap is a crash or a deletion that fails, wherever the code deletes; other failures
are not counted.

*Models* (`LastPart`, `MaxWarm`, `MaxEdits`, `MaxTampers`, `MaxRestarts`).  Two
parts, two contents and one edit between two reads make what a request has read
differ from what is registered; two accepted runs with different versions and a cache
of one evict each other.  It takes two edits between two reads of a start-up
to register a mixture: that, and requests that freeze at the same time, is left to
the theorems, which have any number of parts, edits and requests.

*Backup* (`MaxKills`).  Items are independent of each other, so one is enough;
two directories are listed one after the other; two backups want one destination;
one is killed and so is the one that finds what the first left.

*Queries* (`MaxFailures`).  Two queries append to one file and two exports write
another's tables, for the same selection of runs or for another; a line is lost or
doubled by two of them.

*Access* (`MaxTime`, `MaxEvents`, `MaxTicks`, `MaxDecisions`).  One chain of tenant,
principal and credential is created, changed and changed back; a second credential
is issued meanwhile.  Three keys in a table of two evict each other; five decisions
of two threads spend a bucket of two, are refused, and find it evicted.

*`components`.*  Besides keeping one component awake, `MCComponents` takes ids that
no action compares in one order, which is a symmetry; lets a behaviour of
`RunInputs` edit boxes or use a mask, which meet only in the rows of runs; lets
requests present one credential while the other is issued; and has at most three
queries and exports together (`MaxCalls`) and seven ticks and calls of the buckets
(`MaxEpisode`).

Symmetry is used in safety runs only, over sets whose members no action compares;
keys of the cache are numbers since a probe takes them in order, and parts are
read in order, so neither is symmetric.

Deadlock is checked in the cache.  Elsewhere the system rightly stops: all runs
have ended, the dispatcher is stopped, the task is closed or waits for a person.

### Fairness, and why the code justifies it
- *Threads that are not blocked go on* (weak fairness per thread, per call):
  threads of an operating system.  In `RunPipeline` a worker is the unit, in
  `Dispatcher` a thread and a call, in `AgentControl` a call that holds the lock.
- *The schedulers poll for ever*: their loops catch every exception and only end
  with the process.
- *Time passes* (`DelayPasses`): a wake-up time comes.
- *A lock that is released again and again is not refused for ever to the same
  thread* (strong fairness of `Locking` in `AdapterCache`).  Python's locks do not
  promise a queue; with them a thread may starve only while others keep coming,
  which the inference lock prevents for leases.
- No request, fault, timeout or crash is ever fair.

`cache` uses the inference lock on purpose.  Without it `CallsEnd` is
false: with a cache smaller than the set of models in use, two leases may evict
each other's adapter between loading and acquiring it, again and again.  The
service is free of this because every lease is taken inside
`deterministic_inference` (`docs/DEVELOPMENT.md` asks for all predictions to go
through `AdapterCache.lease()`; the gateway adds the global lock).  So the lock
that exists for random seeds is also what keeps the cache live.

`pipeline_progress` leaves out the faults that strand a run by themselves (the
claim, the input or the recording of a failure raises every time); finding 1 and
the hazard at `_record_failure` are about those.

## 4. What is proved

`RunPipelineProofs` proves, for any finite or infinite sets of runs, jobs,
workers and handlers, any queue capacity, any number of crashes and any set of
faults, from `PipelineAssumptions` only (`JobOf` maps runs to jobs, the capacity
is a positive number, `NoRun` is neither a run nor a job, the faults are known
ones):

| theorem | statement | argument |
| --- | --- | --- |
| `TypeCorrect` | `Spec => []TypeOK` | inductive as it stands, one step per action |
| `ExecutionCorrect` | `Spec => []ExecutionInv` | the inductive invariant below |
| `StageTheorem`, `ExclusionTheorem`, `ResultTheorem`, `LeftoverTheorem` | its conjuncts | from `ExecutionCorrect` |
| `JobTheorem` | `Spec => []JobStatusIsAggregate` | every step has one of four effects on the rows (`StepEffect`) |
| `TrailTheorem` | `Spec => []TrailIsHistory` | the same four effects |
| `ReviewTheorem` | `Spec => []ReviewedParentIsFinal` | a terminal row never changes (`TerminalIsFinal`); a handler between its two transactions remembers a finished parent (`ReviewInv`) |
| `RefinementTheorem` | `Spec => ImplementsLedger` | each of the four effects is a ledger step or a stutter |

`ExecutionInv` adds to the checked invariants what makes them inductive.
`StageAgrees` alone is not: a second worker with the same id, or recovery, could
move the row.  `OwnedRunIsClaimed` says that the row of an executing worker is
not QUEUED, so no second claim succeeds, which gives `ExclusiveExecution`;
`RecoveryFailsOnlyLeftovers` says that recovery's list holds no such row, which
needs `DownIsQuiet` at the moment the list is read: no worker survives a crash.
`MeasuredOnce` says that no measurement exists before its step, which makes the
saved verdict the one the worker holds.

`StepEffect` is the lemma on which the other theorems rest: whatever the step,
the rows change by an insertion of QUEUED runs, by one move along the transition
table with its event and its aggregate, by one measurement, or not at all.  It
uses `ExecutionInv`, because the moves of a worker are legal only where its
program point and the row agree.

**`DispatcherProofs`**, for any ids, any finite set of threads, any callers and
capacity, with and without deadlines and refused threads: `DispatcherCorrect`
(`Spec => []DispatcherInv`), `PendingTheorem`, `StoppedTheorem`.  `PendingIsExact`
is inductive together with the types.  `StoppedHasNoThread` is not: it needs
`PoolInv`, that the count of live threads is the number of threads that have not
left and that the dispatcher says it runs exactly while there is one.
`StopReportTheorem` adds `StopReportIsTrue`, for stops without a deadline and
until the second start; refused threads are allowed.  It rests on `ReportInv` (a
report of success is not kept over a restart), `FreshInv` (there is nothing to
stop before the first start) and `ClosedInOrder`: in the first generation whoever
is in `stop` has closed the dispatcher for good, a queue once empty stays so, and
no thread leaves before.  Both hypotheses are needed: finding 2 is about
deadlines, and a `stop` that is on its way while the dispatcher is started again
sets the shutdown event of the new generation.

**`AgentControlProofs`**, for any people, any number of actions and any limits:
`AgentCorrect` (`Spec => []AgentInv`) and from it `WriteTheorem`,
`AgreementTheorem`, `BudgetTheorem`, `EvidenceTheorem` and, with
one step, `EndedTheorem`.  A write acts once because of three facts that lean on
each other: the actor inside a call holds the lock (`LockInv`), what it relies on
from one transaction to the next is still so (`HolderInv`), and a write that is
pending and not marked as started has not acted (`MarkInv`).  `EvidenceInv` says that
a reference which is remembered is that of a tool which has acted, and one of a write
that of a success.  The lemma
`PendingEffect` says that a step keeps, approves, clears, proposes or marks the
pending action, or acts with it.

**`AdapterCacheProofs`**, for any finite set of keys and threads, any bound and
any calls, with and without the inference lock: `CacheCorrect`
(`Spec => []CacheInv`), `UsedTheorem`, `OneTheorem`, `LeaksTheorem`.  `StoreInv` says
that the cached adapters and those somebody has still to unload are all that is
loaded and that no key occurs twice among them; `ThreadInv` says which locks a
thread has at which step.  `Undisturbed` carries the argument across threads: a
step frees or takes only locks of its own or free ones, unloads only adapters
whose lock is its own or free, and loads only new ones.  So nobody's adapter is
unloaded while he holds its lock, and what he has seen under the lock stays true.

**`RunInputsProofs`**, for any runs, masks, callers and mishaps: `InputsCorrect`
(`Spec => []InputsInv`), `BoxesTheorem`, `TokenTheorem`, `FilesTheorem`,
`ReplacementTheorem`.  What makes the four properties inductive is, on one side, who
may know of a file: a file in a run's directory belongs to the run or to the one
request that is about to create it (`ChildInv`, `CopyInv`), an uploaded one to a
row, or to the request that stores it (`UploadInv`, `StagedInv`), unless it is one of
the files that are known to be left behind.  On the other it
is what a request remembers from an earlier transaction and may still rely on: no
revision it has seen is ahead of the present one (`BehindInv`), a
token it has resolved is consumed only in the transaction that creates the run
(`TokenInv`), nobody executes the run that a recoverer has found, and only another
recoverer can have ended it (`FoundInv`).

**`KnowledgeIndexProofs`**, for any documents, contents, callers, generation files,
edits and crashes: `KnowledgeCorrect` (`Spec => []KnowledgeInv`), `SearchTheorem`,
`ProjectionTheorem`, `PublicationTheorem`, `SourceTheorem`, and with one step
`DisabledTheorem`.  `LockInv` says who holds the publisher's lock, `GenerationInv`
what the manifest's file and the file under construction are, `SourceInv` which
source files are still wanted and by whom, `WindowInv` what a search has had before
it.  `IndexInv` is the strengthening of `IndexFollowsCatalogue`: unless somebody has
still to read the rows again (`Duty`), the rows that are about to be published, or
were published last, are those of the catalogue.  The proof does not go action by
action but by kinds of step: those that touch neither rows nor index, those that
commit rows, those of a search, those that release the lock.

**`StorageProofs`** has three parts.

*Backups*, for any items, directories, backups, archives and kills:
`ArchiveCorrect`, `ArchiveFilesTheorem`, `ReportedTheorem`, `RestoredTheorem`.  The
invariant adds to the three properties what a backup has copied so far (`CopyInv`:
each directory was copied after the rows were), the state of the pair while it is
published or undone (`PublishInv`) and the members that a restoration has put in
place (`RestoreInv`).

*Models*, for any number of parts, contents, requests, workers, edits, damages and
restarts: `BundleCorrect` (`BundleSpec => []BundleInv`), `FrozenTheorem`,
`PromiseTheorem`, the refinement of `FrozenModels`.  `StartInv` is what holds during a
start-up: nobody is served, and each part that has been read is something its file
has held since the start-up began (`TurnFacts`: every part has a turn of its own, the
weights the last).  From there the invariant follows a version from its offer
(`OfferInv`) through the publication of its parts
(`PublishBundleInv`) to accepted runs (`RunInv`), their execution (`ExecuteInv`) and
the cached adapters (`WarmInv`); the lemma `StoreKeeps` says that what is in the
store stays.

*Queries*, for any queries, exports, selections and failures: `AuditCorrect`
(`AuditSpec => []AuditInv`), `OwnArchiveTheorem`, `UndisturbedTheorem` and
`RowsTheorem` (no file and no archive ever names a query that is not committed).
`LockedInv` says who holds the two locks, `OwnInv` that the files an export reads
back are those it wrote.  Before the first export has begun each line is there once
for a query that has passed its append (`KeptInv`); an export without company finds
what it has rebuilt so far (`RebuiltInv`).  Where an export meets a query neither
holds, which is finding 4.

**`AccessProofs`** has two parts.

*Identity*, for any tenants, principals, credentials, requests and times:
`IdentityCorrect`, `VerdictTheorem`, `ReportTheorem`, `TrailTheorem`.  Beside the
types, the trail and the verdicts, the invariant has `IssueAgrees`, what row and
file there can be at each step of an issue, and `SeesPresent`: a request in flight
remembers at least the present.

*Rate limits*, for any keys and threads and any size of bucket, table, window and
tick: `BucketsCorrect`, `RateTheorem`, `RetryTheorem`.  `PlaceInv` reads the table as
history: its order is that of the last uses, and a key that was dropped has had
`MaxBuckets` others used since, so it was not in use.  `SpentInv` bounds the units of
a bucket from above by what was refilled and not granted since any earlier request,
which gives the rate; `FairInv` bounds them from below from some request on, which
gives that a refusal was due; `WaitInv` does the same from the last refusal on, for
`Retry-After`; `PastInv` says that no reading is later than the clock.  The steps of
arithmetic are the provers'; the one fact that needs induction, that a finite
non-empty set of numbers has a largest one, comes from the library's well-founded
minimum.

Every invariant and action property that a passing run checks has a theorem.
Model-checked only: what is about liveness (`AcceptedRunFinishes`,
`StopLeavesNothing`, `UnattendedResolves`, `CallsEnd`), which, like `ENABLED`, the
proof system does not reach.  The properties of the violation runs are false, and
`ActiveRunIsOwned` and `StoppedIsEmpty` hold only under restrictions that the code
does not make.

## 5. Findings

1. **A missing input strands a run** (`pipeline_missing_input`).
   `_claim_execution_inputs` commits the claim and then resolves the source
   image outside the `try` block of `execute_run`.  If the file is missing, the
   exception reaches no handler: the run stays PREPROCESSING with no worker, the
   scheduler looks at QUEUED rows only, and run and job stay active until the
   next restart, although execution failures are meant to be isolated and
   persisted as FAILED.
2. **A stop whose deadline has passed can leave an id behind**
   (`dispatcher_stop_deadline`).  A worker looks at the shutdown event after its
   `get` has timed out.  If an id arrives between the two and the event is set by
   a `stop` whose drain timed out, all workers can leave while the id is queued;
   the comment in `stop` says that queued work continues before they exit.  The
   row stays QUEUED, so a restart of the process delivers it; a restart of the
   dispatcher object is refused because of the abandoned queue.
3. **A source file replaced during a forced reindexing leaves old text under the
   new hash** (`knowledge_reindex_edit`).  `prepare` extracts the text and hashes
   the file afterwards, by another read.  `ingest_document` compares the hash with
   one it took before the extraction, `reindex` does not.  The stored hash then
   agrees with the file, so no later reindexing notices.  The same happens when
   two reindexings overlap, since each decides whether the content has changed
   from the rows it read at its beginning.

4. **A query and an export that overlap duplicate or lose a line of
   `query_history.jsonl`** (`query_audit_projection`).  A query appends under
   `_artifact_lock` after its commit (`app/agent/application.py:311`); an export
   rewrites the file under `_EXPORT_LOCK` from rows it has read before.  If it
   reads them between commit and append, the line is written twice; if before the
   commit, the appended line is removed.  Nothing fails and nothing is logged,
   while ADR 0010 says that every newly committed query has an identical
   projection.  The next export rewrites the file rightly unless it is disturbed
   again.

Met while modelling, and in no run.  A bundle of an earlier version that fails to
load marks the current model unavailable (`app/inference/gateway.py:181`), since
availability is kept by model and not by version.

A task may be completed on the strength of a failed query.  A query whose answer needs
clarification is an error with the ids of the runs it looked at
(`app/agent/scientific_tools.py:436-457`), the error's references are remembered
(`app/agent/control.py:845-856`), and the check of a final answer compares references
and not outcomes (`control.py:1245-1260`).  The model has this (`"unclear"`), and
`CompletedHasEvidence` is stated as far as the code goes.

A review that fails between the copy of its corrected mask
(`app/analysis/application.py:916`) and the `try` at 945 - the digest, the validation
of the configuration or of the row - leaves `corrected_mask.png` in the directory of a
run that never gets a row, without a crash or a failed deletion (`PrepareFails`).

A start-up reads the files of a model one after the other
(`app/inference/registry.py:712-861`) and compares none of them with what it read
before: if they are edited meanwhile, a version that never existed as a whole may be
registered as READY and offered.  What follows is kept: it is that version which every
run gets (`KeepsPromise`).

The key of the adapter cache (`app/inference/registry.py:62-74`) does not contain the
metadata that the adapter is built with (245), so bundles that differ in nothing else
share an adapter.

Exports write the lines of
`query_history.jsonl` without the actor (`app/analysis/reporting.py:376`), whom ADR
0010 counts among what is projected.

## 6. Hazards

`PROJECT.json` lists what in this code is hard to test, each at its line with the
properties that would catch it.  Each of them has a property by now.

## 7. Plan

Done: `RunStatus`, `RunLedger`, `RunPipeline`, `Dispatcher`, `AgentControl`,
`AdapterCache`, `KnowledgeIndex`, `RunInputs`, `FrozenModels` and `ModelBundles`,
`BackupRestore`, `QueryAudit`, `Identity` and `TokenBuckets`, each with its proofs.

Next, models: an abstract dispatcher (a set of pending ids) implemented by
`Dispatcher` and used by `RunPipeline`, which now repeats it; the upload of images
and the configuration states of a job; conversations and the data tools of the
agent; the file of signing keys; the fixed token bucket of the compatibility modes.

Next, proofs: the refinement of the abstract dispatcher; that `ActiveRunIsOwned`
holds without the faults of finding 1, which is the safety half of
`AcceptedRunFinishes`; that queries keep each other's lines beside exports that
never meet one of them.

## 8. Reproducing

Each run is named after its `.cfg` and uses the `MC` module that `PROJECT.json`
gives:

    tlc -workers 2 -config pipeline_safety.cfg MCRunPipeline
    tlc -workers 2 -config components.cfg MCComponents

Each module of proofs is checked by itself:

    tlapm RunPipelineProofs.tla
    tlapm AccessProofs.tla

Every run ends within about three minutes on two workers, every module of proofs
within four.
