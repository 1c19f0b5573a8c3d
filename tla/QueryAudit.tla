----------------------------- MODULE QueryAudit -----------------------------
(***************************************************************************)
(* The audit of the questions about one job: rows of query_logs, and two   *)
(* files that repeat them, query_history.jsonl and rag_citations.json.     *)
(* A query appends to the files after its commit                           *)
(* (app/agent/application.py); an export writes them anew from the rows it *)
(* has read and copies them into an archive (app/analysis/reporting.py,    *)
(* app/api/routes/exports.py).  Queries hold one lock while they write,    *)
(* exports another.                                                        *)
(*                                                                         *)
(* A step is one transaction, one read of a file or one atomic             *)
(* replacement of it.                                                      *)
(***************************************************************************)
EXTENDS Integers, Sequences, SequencesExt, FiniteSets

CONSTANTS
  Queries,      \* the questions that are asked
  Exports,      \* the exports that are asked for
  Selections,   \* the selections of runs an export may name
  Nobody,       \* owner of a free lock
  MaxFailures   \* bound: crashes, and writings and exports that fail

ASSUME AuditAssumptions ==
  /\ Nobody \notin Queries \cup Exports
  /\ MaxFailures \in Nat

VARIABLES
  log,          \* the committed rows of query_logs
  history,      \* query_history.jsonl: the queries its lines are about
  citations,    \* rag_citations.json, likewise
  summaries,    \* audit_summary.json and the tables of the selected runs
  archives,     \* the archives that exports have published
  artifactLock, \* _artifact_lock
  exportLock,   \* _EXPORT_LOCK
  asking,       \* each query's step
  asked,        \* what each query has read of a file it is about to replace
  exporting,    \* each export's step
  reading,      \* the rows each export has read, and its selection
  members,      \* what each export has copied so far
  quiet,        \* history: the export has had the files to itself from its snapshot on
  degraded,     \* history: the queries whose files are not, or not surely, written
  failures      \* crashes and failed writings and exports so far

auditFiles == <<history, citations, summaries>>
query == <<asking, asked, artifactLock, degraded>>
export == <<exporting, reading, members, exportLock, archives>>
auditVars == <<log, auditFiles, query, export, quiet, failures>>

NoSummaries == [ids |-> {}, selection |-> "none"]
NoSnapshot == [ids |-> {}, selection |-> "none"]
NoMembers == [ids |-> {}, selection |-> "none", history |-> <<>>, citations |-> <<>>]
WritingSteps == {"history", "append", "citations", "cite"}
ExportSteps ==
  {"read", "summaries", "history", "citations", "copy", "copy citations", "publish"}

-----------------------------------------------------------------------------
AuditInit ==
  /\ log = {}
  /\ history = <<>> /\ citations = <<>>
  /\ summaries = NoSummaries
  /\ archives = {}
  /\ artifactLock = Nobody /\ exportLock = Nobody
  /\ asking = [q \in Queries |-> "no"]
  /\ asked = [q \in Queries |-> <<>>]
  /\ exporting = [e \in Exports |-> "no"]
  /\ reading = [e \in Exports |-> NoSnapshot]
  /\ members = [e \in Exports |-> NoMembers]
  /\ quiet = [e \in Exports |-> FALSE]
  /\ degraded = {}
  /\ failures = 0

AskGo(q, step) == asking' = [asking EXCEPT ![q] = step]
ExportGo(e, step) == exporting' = [exporting EXCEPT ![e] = step]

Mishap == failures < MaxFailures /\ failures' = failures + 1

\* Exports that are at work do not have the files to themselves any more.
Disturb(others) == quiet' = [e \in Exports |-> quiet[e] /\ e \notin others]
Working == {e \in Exports : exporting[e] \notin {"no", "done", "failed"}}

-----------------------------------------------------------------------------
(* answer: the row first, then the two files under _artifact_lock.         *)

\* The scope is valid, the answer is there, and its row is committed.
CommitQuery(q) ==
  /\ asking[q] = "no"
  /\ log' = log \cup {q}
  /\ AskGo(q, "committed")
  /\ Disturb(Working)
  /\ UNCHANGED <<auditFiles, asked, artifactLock, degraded, export, failures>>

\* The scope has gone or the transaction raises: it is rolled back, and the
\* client gets an error.
CommitQueryFails(q) ==
  /\ asking[q] = "no"
  /\ AskGo(q, "refused")
  /\ UNCHANGED <<log, auditFiles, asked, artifactLock, degraded, export, quiet, failures>>

BeginWriting(q) ==
  /\ asking[q] = "committed" /\ artifactLock = Nobody
  /\ artifactLock' = q
  /\ AskGo(q, "history")
  /\ UNCHANGED <<log, auditFiles, asked, degraded, export, quiet, failures>>

ReadHistory(q) ==
  /\ asking[q] = "history"
  /\ asked' = [asked EXCEPT ![q] = history]
  /\ AskGo(q, "append")
  /\ UNCHANGED <<log, auditFiles, artifactLock, degraded, export, quiet, failures>>

AppendHistory(q) ==
  /\ asking[q] = "append"
  /\ history' = Append(asked[q], q)
  /\ AskGo(q, "citations")
  /\ Disturb(Working)
  /\ UNCHANGED <<log, citations, summaries, asked, artifactLock, degraded, export, failures>>

ReadCitations(q) ==
  /\ asking[q] = "citations"
  /\ asked' = [asked EXCEPT ![q] = citations]
  /\ AskGo(q, "cite")
  /\ UNCHANGED <<log, auditFiles, artifactLock, degraded, export, quiet, failures>>

AppendCitations(q) ==
  /\ asking[q] = "cite"
  /\ citations' = Append(asked[q], q)
  /\ AskGo(q, "done")
  /\ asked' = [asked EXCEPT ![q] = <<>>]
  /\ artifactLock' = Nobody
  /\ Disturb(Working)
  /\ UNCHANGED <<log, history, summaries, degraded, export, failures>>

\* Writing the files raises: that is logged, and the client gets its answer.
WritingFails(q) ==
  /\ Mishap
  /\ asking[q] \in WritingSteps
  /\ AskGo(q, "done")
  /\ asked' = [asked EXCEPT ![q] = <<>>]
  /\ artifactLock' = Nobody
  /\ degraded' = degraded \cup {q}
  /\ UNCHANGED <<log, auditFiles, export, quiet>>

-----------------------------------------------------------------------------
(* The export: it reads the rows when the request comes, and writes the    *)
(* files and the archive under _EXPORT_LOCK.                               *)

TakeSnapshot(e, selection) ==
  /\ exporting[e] = "no"
  /\ reading' = [reading EXCEPT ![e] = [ids |-> log, selection |-> selection]]
  /\ ExportGo(e, "read")
  /\ quiet' = [f \in Exports |->
       IF f = e THEN /\ \A q \in Queries : asking[q] \notin {"committed"} \cup WritingSteps
                     /\ Working = {}
       ELSE quiet[f] /\ f \notin Working]
  /\ UNCHANGED <<log, auditFiles, query, members, exportLock, archives, failures>>

\* Faulty variant: exports do not wait for each other.
BeginExport_Unlocked(e) ==
  /\ exporting[e] = "read"
  /\ UNCHANGED exportLock
  /\ ExportGo(e, "summaries")
  /\ UNCHANGED <<log, auditFiles, query, reading, members, archives, quiet, failures>>

BeginExport(e) ==
  /\ exporting[e] = "read" /\ exportLock = Nobody
  /\ exportLock' = e
  /\ ExportGo(e, "summaries")
  /\ UNCHANGED <<log, auditFiles, query, reading, members, archives, quiet, failures>>

\* job_summary, run_summary, sample_summary and audit_summary.
WriteSummaries(e) ==
  /\ exporting[e] = "summaries"
  /\ summaries' = reading[e]
  /\ ExportGo(e, "history")
  /\ UNCHANGED <<log, history, citations, query, reading, members, exportLock, archives,
                 quiet, failures>>

\* The lines for the rows that have been read, in the order of their creation.
LinesOf(ids) == SetToSeqs(ids)

\* Faulty variant: the lines are added to those in the file.
RewriteHistory_Appends(e) ==
  /\ exporting[e] = "history"
  /\ \E lines \in LinesOf(reading[e].ids) : history' = history \o lines
  /\ ExportGo(e, "citations")
  /\ UNCHANGED <<log, citations, summaries, query, reading, members, exportLock, archives,
                 quiet, failures>>

RewriteHistory(e) ==
  /\ exporting[e] = "history"
  /\ history' \in LinesOf(reading[e].ids)
  /\ ExportGo(e, "citations")
  /\ UNCHANGED <<log, citations, summaries, query, reading, members, exportLock, archives,
                 quiet, failures>>

RewriteCitations(e) ==
  /\ exporting[e] = "citations"
  /\ citations' \in LinesOf(reading[e].ids)
  /\ ExportGo(e, "copy")
  /\ UNCHANGED <<log, history, summaries, query, reading, members, exportLock, archives,
                 quiet, failures>>

\* The members are copied in the order of their names; audit_summary comes
\* before query_history, and only exports touch it.
CopyHistory(e) ==
  /\ exporting[e] = "copy"
  /\ members' = [members EXCEPT ![e] =
       [ids |-> summaries.ids, selection |-> "none",
        history |-> history, citations |-> <<>>]]
  /\ ExportGo(e, "copy citations")
  /\ UNCHANGED <<log, auditFiles, query, reading, exportLock, archives, quiet, failures>>

CopyCitations(e) ==
  /\ exporting[e] = "copy citations"
  /\ members' = [members EXCEPT ![e].citations = citations,
                                ![e].selection = summaries.selection]
  /\ ExportGo(e, "publish")
  /\ UNCHANGED <<log, auditFiles, query, reading, exportLock, archives, quiet, failures>>

\* Exports that have ended keep nothing.
Ended(exports, outcome) ==
  /\ exporting' = [e \in Exports |-> IF e \in exports THEN outcome ELSE exporting[e]]
  /\ reading' = [e \in Exports |-> IF e \in exports THEN NoSnapshot ELSE reading[e]]
  /\ members' = [e \in Exports |-> IF e \in exports THEN NoMembers ELSE members[e]]
  /\ quiet' = [e \in Exports |-> quiet[e] /\ e \notin exports]

\* The archive appears at the address of its contents, for this export's token.
Publish(e) ==
  /\ exporting[e] = "publish"
  /\ archives' = archives \cup
       {[of |-> e, asked |-> reading[e], quiet |-> quiet[e], has |-> members[e]]}
  /\ exportLock' = Nobody
  /\ Ended({e}, "done")
  /\ UNCHANGED <<log, auditFiles, query, failures>>

ExportFails(e) ==
  /\ Mishap
  /\ exporting[e] \in ExportSteps \ {"read"}
  /\ exportLock' = Nobody
  /\ Ended({e}, "failed")
  /\ UNCHANGED <<log, auditFiles, query, archives>>

-----------------------------------------------------------------------------
\* The process dies: what was in flight is gone, the locks are new.
AuditCrash ==
  /\ Mishap
  /\ artifactLock' = Nobody /\ exportLock' = Nobody
  /\ asking' = [q \in Queries |-> IF asking[q] \in {"no", "done"} THEN asking[q] ELSE "refused"]
  /\ asked' = [q \in Queries |-> <<>>]
  /\ degraded' = degraded \cup {q \in Queries : asking[q] \in {"committed"} \cup WritingSteps}
  /\ Ended(Working, "failed")
  /\ UNCHANGED <<log, auditFiles, archives>>

AuditNext ==
  \/ \E q \in Queries :
       \/ CommitQuery(q) \/ CommitQueryFails(q) \/ BeginWriting(q)
       \/ ReadHistory(q) \/ AppendHistory(q) \/ ReadCitations(q) \/ AppendCitations(q)
       \/ WritingFails(q)
  \/ \E e \in Exports :
       \/ \E s \in Selections : TakeSnapshot(e, s)
       \/ BeginExport(e) \/ WriteSummaries(e) \/ RewriteHistory(e) \/ RewriteCitations(e)
       \/ CopyHistory(e) \/ CopyCitations(e) \/ Publish(e) \/ ExportFails(e)
  \/ AuditCrash

AuditSpec == AuditInit /\ [][AuditNext]_auditVars

-----------------------------------------------------------------------------
\* Types of the variables.
AuditTypeOK ==
  /\ log \subseteq Queries /\ degraded \subseteq Queries
  /\ history \in Seq(Queries) /\ citations \in Seq(Queries)
  /\ summaries.ids \subseteq Queries
  /\ artifactLock \in Queries \cup {Nobody} /\ exportLock \in Exports \cup {Nobody}
  /\ asking \in [Queries -> {"no", "committed", "refused", "done"} \cup WritingSteps]
  /\ asked \in [Queries -> Seq(Queries)]
  /\ exporting \in [Exports -> {"no", "done", "failed"} \cup ExportSteps]
  /\ quiet \in [Exports -> BOOLEAN]

Ids(lines) == {lines[i] : i \in DOMAIN lines}
Times(q, lines) == Cardinality({i \in DOMAIN lines : lines[i] = q})
ListsOnce(ids, lines) == Ids(lines) = ids /\ Len(lines) = Cardinality(ids)

\* The rows are the truth: no file and no archive ever names a query that is not
\* committed, and a client that has its answer has its row, whatever becomes of
\* the files.
FilesAreCommitted ==
  /\ Ids(history) \cup Ids(citations) \cup summaries.ids \subseteq log
  /\ \A a \in archives : Ids(a.has.history) \cup Ids(a.has.citations) \cup a.has.ids \subseteq log
  /\ {q \in Queries : asking[q] = "done"} \subseteq log

\* The summaries and tables in an archive are those of the export whose token
\* names it: its own selection of runs and its own reading of the rows, however
\* many exports of the job are asked for at once.
ArchiveIsOwn ==
  \A a \in archives :
    a.has.ids = a.asked.ids /\ a.has.selection = a.asked.selection

\* As long as nothing is exported, queries that run at the same time do not lose
\* each other's lines: each is in both files once when it has returned, unless its
\* writing has failed.
QueriesKeepEachOther ==
  (\A e \in Exports : exporting[e] = "no") =>
    \A q \in Queries : asking[q] = "done" /\ q \notin degraded =>
      Times(q, history) = 1 /\ Times(q, citations) = 1

\* The files can be rebuilt: whatever has been lost, torn between the two files
\* or left unwritten before, an export that has them to itself puts exactly the
\* committed rows into its archive, each once.
QuietExportRebuilds ==
  \A a \in archives : a.quiet =>
    /\ ListsOnce(a.asked.ids, a.has.history)
    /\ ListsOnce(a.asked.ids, a.has.citations)

\* What nobody disturbs is right: queries among themselves keep every line, and an
\* export among itself lists every row.
UndisturbedFilesAreRight == QueriesKeepEachOther /\ QuietExportRebuilds

\* What ADR 0010 says of every committed query, that it has an identical
\* projection: once everything has returned without a failure, the file lists the
\* committed rows, each once.
HistoryIsProjection ==
  (/\ failures = 0
   /\ \A q \in Queries : asking[q] \in {"no", "done"}
   /\ \A e \in Exports : exporting[e] \in {"no", "done"})
  => ListsOnce(log, history)

=============================================================================
