--------------------------- MODULE StorageProofs ---------------------------
(***************************************************************************)
(* Theorems about the three parts of the system whose truth is files: what *)
(* a backup publishes and a restore puts back, the model files an accepted *)
(* run depends on, and the files that repeat the rows of queries.  About   *)
(* BackupRestore, for every set of items and of backups, any number of     *)
(* directories and any number of kills and replacements.  About            *)
(* ModelBundles, for every number of parts and every set of contents,      *)
(* runs, requests and workers, and any number of edits, damages and        *)
(* restarts: an accepted run finds its files, and freezing implements      *)
(* FrozenModels.  About QueryAudit, for every set of queries, exports and  *)
(* selections and any number of failures.  The three share no variable;    *)
(* each theorem is about the behaviours of its own specification.          *)
(***************************************************************************)
EXTENDS ModelBundles, BackupRestore, QueryAudit, FiniteSetTheorems, FunctionTheorems,
        SequenceTheorems, TLAPS

-----------------------------------------------------------------------------
(* BackupRestore: the inductive invariants.                                *)

\* After these steps a backup has walked, watched and copied the database.
Listed == {"watch", "snapshot", "copy", "recheck", "database", "publish",
           "checksum", "sync"}
Watching == {"snapshot", "copy", "recheck", "database"}
Dumped == {"copy", "recheck", "database"}

\* The local variables of a backup at each step.
JobShape(b) ==
  /\ bpc[b] \in {"idle", "acquire", "done"} => job[b] = NoJob
  /\ bpc[b] = "walk" => Len(job[b].seen) < Directories
  /\ bpc[b] \in Listed => Len(job[b].seen) = Directories
  /\ bpc[b] \in {"walk", "watch", "snapshot", "copy"} => job[b].again = 0
  /\ bpc[b] = "recheck" => job[b].again < Directories
  /\ bpc[b] = "database" => job[b].again = Directories
  /\ bpc[b] \in Watching => job[b].watch \in RowMaps

\* How the rows that a backup has observed are related to the rows as they are:
\* a row only goes from none to active to consumed.
Observed(b) ==
  /\ bpc[b] \in Watching =>
       \A i \in Items :
         /\ job[b].watch[i] = "active" => Row(i) \in {"active", "consumed"}
         /\ job[b].watch[i] = "consumed" => Row(i) = "consumed"
  /\ bpc[b] \in Dumped =>
       \A i \in job[b].dump :
         /\ Row(i) \in {"active", "consumed"}
         /\ job[b].watch[i] # "consumed"
  /\ bpc[b] \in {"recheck", "database"} =>
       \A i \in Items :
         /\ Directory[i] <= job[b].again
         /\ job[b].watch[i] = "active" /\ Row(i) = "active"
         => i \in job[b].seen[Directory[i]]
  /\ bpc[b] = "publish" =>
       \A i \in job[b].dump : i \in job[b].seen[Directory[i]]

CopyInv == \A b \in Backups : JobShape(b) /\ Observed(b)

\* What is published while a backup is between its two links, or has finished.
PublishInv ==
  \A b \in Backups :
    /\ bpc[b] \in {"checksum", "sync"} \/ b \in reported =>
         archive # Nothing /\ archive.by \in {b, Nothing}
    /\ bpc[b] = "sync" \/ b \in reported => sidecar = b
    /\ b \in reported => bpc[b] = "done"

\* What has been extracted is a beginning of the archive that was verified.
RestoreInv ==
  /\ rpc = "idle" => staging = <<>>
  /\ rpc # "done" => root = Nothing
  /\ rpc \in {"extract", "rehash", "rename"} =>
       /\ verified # Nothing /\ verified.by \in Backups
       /\ Len(staging) <= Len(verified.members)
       /\ \A n \in 1..Len(staging) : staging[n] = verified.members[n]
  /\ rpc = "extract" => Len(staging) < Len(verified.members)
  /\ rpc \in {"rehash", "rename"} => Len(staging) = Len(verified.members)

\* An archive has a member, so that there is something to extract.
NotEmpty == archive # Nothing => Len(archive.members) > 0

ArchiveInv ==
  /\ ArchiveTypeOK
  /\ CopyInv
  /\ PublishInv
  /\ NotEmpty
  /\ ArchiveHasItsFiles
  /\ RestoreInv
  /\ RestoredIsWhole
-----------------------------------------------------------------------------
(* Type correctness.                                                       *)

\* The members of the archive a backup is about to link.
LEMMA MembersType ==
  ASSUME ArchiveTypeOK, NEW b \in Backups
  PROVE  /\ Members(b) \in Seq(SUBSET Items)
         /\ Len(Members(b)) > 0
         /\ Members(b)[1] = job[b].dump
         /\ \A d \in 1..Len(job[b].seen) : Members(b)[1 + d] = job[b].seen[d]
<1>1. <<job[b].dump>> \in Seq(SUBSET Items) /\ Len(<<job[b].dump>>) = 1
  BY DEF ArchiveTypeOK, Jobs
<1>2. job[b].seen \in Seq(SUBSET Items)
  BY DEF ArchiveTypeOK, Jobs
<1>3. /\ Members(b) \in Seq(SUBSET Items)
      /\ Len(Members(b)) = 1 + Len(job[b].seen)
      /\ \A n \in 1..(1 + Len(job[b].seen)) :
           Members(b)[n] = IF n <= 1 THEN <<job[b].dump>>[n]
                           ELSE job[b].seen[n - 1]
  BY <1>1, <1>2, ConcatProperties, ZenonT(30) DEF Members
<1>4. Len(job[b].seen) \in Nat
  BY <1>2
<1>5. Members(b)[1] = job[b].dump
  BY <1>3, <1>4
<1>6. \A d \in 1..Len(job[b].seen) : Members(b)[1 + d] = job[b].seen[d]
  BY <1>3, <1>4
<1> QED
  BY <1>3, <1>5, <1>6

LEMMA RowsType ==
  ASSUME ArchiveTypeOK
  PROVE  /\ Rows \in RowMaps
         /\ Active \in SUBSET Items
         /\ \A d \in 1..Directories : Files(d) \in SUBSET Items
BY DEF ArchiveTypeOK, Rows, Row, RowMaps, Active, Files

\* Every step of the service preserves the types.
LEMMA ServiceType ==
  ASSUME ArchiveTypeOK, ServiceNext
  PROVE  ArchiveTypeOK'
<1>1. ASSUME NEW i \in Items,
             Store(i) \/ Commit(i) \/ Discard(i) \/ Consume(i) \/ RemoveFile(i)
      PROVE  ArchiveTypeOK'
  BY <1>1 DEF ArchiveTypeOK, Store, Commit, Discard, Consume, RemoveFile, Becomes,
              backupVars, published, restoreVars
<1>2. ASSUME Stop \/ Exit \/ Start
      PROVE  ArchiveTypeOK'
  BY <1>2 DEF ArchiveTypeOK, Stop, Exit, Start, backupVars, published,
              restoreVars
<1> QED
  BY <1>1, <1>2 DEF ServiceNext

\* Every step of a backup preserves the types.
LEMMA BackupType ==
  ASSUME ArchiveTypeOK, CopyInv, NEW b \in Backups, BackupNext(b)
  PROVE  ArchiveTypeOK'
<1> USE BackupRestoreAssumptions
    DEF outside, published, serviceVars, restoreVars
<1>1. NoJob \in Jobs
  BY DEF NoJob, Jobs
<1>2. job[b] \in Jobs
  BY DEF ArchiveTypeOK
<1>3. ASSUME NEW to \in BackupSteps, NEW j \in Jobs,
             bpc' = [bpc EXCEPT ![b] = to], job' = [job EXCEPT ![b] = j],
             archive' \in Archives \cup {Nothing},
             sidecar' \in Backups \cup {Nothing}, reported' \in SUBSET Backups,
             UNCHANGED <<serviceVars, restoreVars>>, kills' \in 0..MaxKills
      PROVE  ArchiveTypeOK'
  BY <1>3 DEF ArchiveTypeOK
<1>4. ASSUME NEW from, NEW to \in BackupSteps, At(b, from, to),
             NEW j \in Jobs, job' = [job EXCEPT ![b] = j],
             UNCHANGED <<outside, published>>
      PROVE  ArchiveTypeOK'
  BY <1>3, <1>4 DEF At, ArchiveTypeOK
<1>5. job = [job EXCEPT ![b] = job[b]]
  BY DEF ArchiveTypeOK
<1>6. ASSUME Leave(b), archive' \in Archives \cup {Nothing},
             sidecar' \in Backups \cup {Nothing}, reported' \in SUBSET Backups,
             UNCHANGED <<serviceVars, restoreVars>>, kills' \in 0..MaxKills
      PROVE  ArchiveTypeOK'
  BY <1>1, <1>3, <1>6 DEF Leave, BackupSteps
<1>7. CASE Begin(b) \/ CopyMembers(b) \/ RecheckDatabase(b)
  BY <1>2, <1>4, <1>5, <1>7
     DEF Begin, CopyMembers, RecheckDatabase, BackupSteps
<1>8. CASE Acquire(b)
  <2>1. [job[b] EXCEPT !.held = TRUE] \in Jobs
    BY <1>2 DEF Jobs
  <2> QED
    BY <1>4, <1>8, <2>1 DEF Acquire, BackupSteps
<1>9. CASE Walk(b)
  <2> DEFINE d == Len(job[b].seen) + 1
  <2>1. d \in 1..Directories
    BY <1>2, <1>9 DEF CopyInv, JobShape, Walk, At, Jobs
  <2>2. Append(job[b].seen, Files(d)) \in Seq(SUBSET Items)
    BY <1>2, <2>1, RowsType DEF Jobs
  <2>3. [job[b] EXCEPT !.seen = Append(job[b].seen, Files(d))] \in Jobs
    BY <1>2, <2>2 DEF Jobs
  <2>4. /\ At(b, "walk", IF d = Directories THEN "watch" ELSE "walk")
        /\ job' = [job EXCEPT ![b] =
                     [job[b] EXCEPT !.seen = Append(job[b].seen, Files(d))]]
        /\ UNCHANGED <<outside, published>>
    BY <1>9 DEF Walk
  <2> QED
    BY <1>4, <2>3, <2>4 DEF BackupSteps
<1>10. CASE Watch(b)
  <2>1. [job[b] EXCEPT !.watch = Rows] \in Jobs
    BY <1>2, RowsType DEF Jobs
  <2> QED
    BY <1>4, <1>10, <2>1 DEF Watch, BackupSteps
<1>11. CASE Snapshot(b)
  <2>1. [job[b] EXCEPT !.dump = Active] \in Jobs
    BY <1>2, RowsType DEF Jobs
  <2> QED
    BY <1>4, <1>11, <2>1 DEF Snapshot, BackupSteps
<1>12. CASE Recheck(b)
  <2> DEFINE d == job[b].again + 1
  <2>1. d \in 0..Directories
    BY <1>2, <1>12 DEF CopyInv, JobShape, Recheck, At, Jobs
  <2>2. [job[b] EXCEPT !.again = d] \in Jobs
    BY <1>2, <2>1 DEF Jobs
  <2>3. /\ At(b, "recheck", IF d = Directories THEN "database" ELSE "recheck")
        /\ job' = [job EXCEPT ![b] = [job[b] EXCEPT !.again = d]]
        /\ UNCHANGED <<outside, published>>
    BY <1>12 DEF Recheck
  <2> QED
    BY <1>4, <2>2, <2>3 DEF BackupSteps
<1>13. CASE LinkArchive(b)
  <2>1. archive' \in Archives
    BY <1>13, MembersType DEF LinkArchive, Archives
  <2> QED
    BY <1>2, <1>3, <1>5, <1>13, <2>1
       DEF LinkArchive, At, BackupSteps, ArchiveTypeOK
<1>14. CASE LinkChecksum(b)
  BY <1>2, <1>3, <1>5, <1>14
     DEF LinkChecksum, At, BackupSteps, ArchiveTypeOK
<1>15. CASE GiveUp(b) \/ Report(b)
  BY <1>6, <1>15 DEF GiveUp, Report, ArchiveTypeOK
<1>16. CASE RollBack(b)
  BY <1>6, <1>16 DEF RollBack, ArchiveTypeOK
<1>17. CASE KillBackup(b)
  BY <1>6, <1>17 DEF KillBackup, ArchiveTypeOK
<1> QED
  BY <1>7, <1>8, <1>9, <1>10, <1>11, <1>12, <1>13, <1>14, <1>15, <1>16, <1>17
     DEF BackupNext

\* Every step of a restoration preserves the types.
LEMMA RestoreType ==
  ASSUME ArchiveTypeOK, RestoreInv, RestoreNext
  PROVE  ArchiveTypeOK'
<1> USE BackupRestoreAssumptions
    DEF serviceVars, backupVars, published, restoreVars
<1>1. CASE Verify
  BY <1>1 DEF ArchiveTypeOK, Verify
<1>2. CASE Extract
  <2> DEFINE n == Len(staging) + 1
  <2>1. verified \in Archives /\ n \in 1..Len(verified.members)
    BY <1>2 DEF ArchiveTypeOK, RestoreInv, Extract, Archives
  <2>2. verified.members[n] \in SUBSET Items
    BY <2>1 DEF Archives
  <2>3. staging' \in Seq(SUBSET Items)
    BY <1>2, <2>2 DEF ArchiveTypeOK, Extract
  <2> QED
    BY <1>2, <2>3 DEF ArchiveTypeOK, Extract
<1>3. CASE Rehash
  BY <1>3 DEF ArchiveTypeOK, Rehash
<1>4. CASE Rename
  BY <1>4 DEF ArchiveTypeOK, Rename
<1>5. CASE RestoreFails
  BY <1>5 DEF ArchiveTypeOK, RestoreFails
<1>6. CASE Replace
  <2>1. [n \in 1..(Directories + 1) |-> {}] \in Seq(SUBSET Items)
    OBVIOUS
  <2>2. archive' \in Archives
    BY <1>6, <2>1 DEF Replace, Archives
  <2> QED
    BY <1>6, <2>2 DEF ArchiveTypeOK, Replace
<1> QED
  BY <1>1, <1>2, <1>3, <1>4, <1>5, <1>6 DEF RestoreNext

-----------------------------------------------------------------------------
(* What a backup has observed.                                             *)

\* A row only goes from none to active to consumed.
RowsProgress ==
  \A i \in Items :
    /\ Row(i) = "consumed" => Row(i)' = "consumed"
    /\ Row(i) = "active" => Row(i)' \in {"active", "consumed"}

LEMMA ServiceRows ==
  ASSUME ArchiveTypeOK, ServiceNext
  PROVE  RowsProgress
<1>1. ASSUME NEW i \in Items,
             Store(i) \/ Commit(i) \/ Discard(i) \/ Consume(i) \/ RemoveFile(i)
      PROVE  RowsProgress
  BY <1>1 DEF ArchiveTypeOK, Store, Commit, Discard, Consume, RemoveFile, Becomes,
              RowsProgress, Row
<1>2. ASSUME Stop \/ Exit \/ Start
      PROVE  RowsProgress
  BY <1>2 DEF Stop, Exit, Start, RowsProgress, Row
<1> QED
  BY <1>1, <1>2 DEF ServiceNext

LEMMA SameRows ==
  ASSUME UNCHANGED item
  PROVE  RowsProgress
BY DEF RowsProgress, Row

\* What a backup knows stays true while it does nothing and rows progress.
LEMMA Stable ==
  ASSUME ArchiveTypeOK, NEW b \in Backups, JobShape(b), Observed(b),
         RowsProgress, bpc'[b] = bpc[b], job'[b] = job[b]
  PROVE  JobShape(b)' /\ Observed(b)'
<1>1. JobShape(b)'
  BY DEF JobShape
<1>2. bpc[b] \in Watching =>
        \A i \in Items :
          /\ job[b].watch[i] = "active" => Row(i)' \in {"active", "consumed"}
          /\ job[b].watch[i] = "consumed" => Row(i)' = "consumed"
  BY DEF Observed, RowsProgress
<1>3. job[b].dump \subseteq Items
  BY DEF ArchiveTypeOK, Jobs
<1>4. bpc[b] \in Dumped =>
        \A i \in job[b].dump :
          /\ Row(i)' \in {"active", "consumed"}
          /\ job[b].watch[i] # "consumed"
  BY <1>3 DEF Observed, RowsProgress
<1>5. bpc[b] \in {"recheck", "database"} =>
        \A i \in Items :
          /\ Directory[i] <= job[b].again
          /\ job[b].watch[i] = "active" /\ Row(i)' = "active"
          => i \in job[b].seen[Directory[i]]
  BY DEF Observed, RowsProgress, Watching
<1>6. bpc[b] = "publish" =>
        \A i \in job[b].dump : i \in job[b].seen[Directory[i]]
  BY DEF Observed
<1> QED
  BY <1>1, <1>2, <1>4, <1>5, <1>6 DEF Observed

\* A step of a backup keeps what that backup knows true.
LEMMA OwnStep ==
  ASSUME ArchiveTypeOK, NEW b \in Backups, JobShape(b), Observed(b),
         BackupNext(b)
  PROVE  JobShape(b)' /\ Observed(b)'
<1> USE BackupRestoreAssumptions DEF outside, published, serviceVars
<1>1. bpc \in [Backups -> BackupSteps]
  BY DEF ArchiveTypeOK
<1>2. /\ job[b].seen \in Seq(SUBSET Items)
      /\ job[b].again \in 0..Directories
      /\ job[b].dump \in SUBSET Items
      /\ job \in [Backups -> Jobs] /\ job[b] \in Jobs
  BY DEF ArchiveTypeOK, Jobs
<1>3. UNCHANGED item
  BY DEF BackupNext, Begin, Acquire, Walk, Watch, Snapshot, CopyMembers,
         Recheck, RecheckDatabase, GiveUp, LinkArchive, LinkChecksum, Report,
         RollBack, KillBackup
<1>4. /\ \A i \in Items : Row(i)' = Row(i)
      /\ \A i \in job[b].dump : Row(i)' = Row(i)
  BY <1>2, <1>3 DEF Row
<1>5. ASSUME Leave(b)
      PROVE  JobShape(b)' /\ Observed(b)'
  BY <1>1, <1>2, <1>5 DEF Leave, JobShape, Observed, Listed, Watching, Dumped
<1>6. CASE Begin(b)
  BY <1>1, <1>6 DEF Begin, At, JobShape, Observed, Listed, Watching, Dumped
<1>7. CASE Acquire(b)
  <2>1. bpc'[b] = "walk" /\ job'[b] = [NoJob EXCEPT !.held = TRUE]
    BY <1>1, <1>2, <1>7 DEF Acquire, At, JobShape
  <2> QED
    BY <2>1 DEF NoJob, JobShape, Observed, Listed, Watching, Dumped
<1>8. CASE Walk(b)
  <2> DEFINE d == Len(job[b].seen) + 1
  <2>1. /\ bpc'[b] = IF d = Directories THEN "watch" ELSE "walk"
        /\ job'[b] = [job[b] EXCEPT !.seen = Append(@, Files(d))]
        /\ d <= Directories
        /\ job[b].again = 0
    BY <1>1, <1>2, <1>8 DEF Walk, At, JobShape
  <2>2. Len(job'[b].seen) = d /\ job'[b].again = 0
    BY <1>2, <2>1
  <2> QED
    BY <2>1, <2>2 DEF JobShape, Observed, Listed, Watching, Dumped
<1>9. CASE Watch(b)
  <2>1. /\ bpc[b] = "watch" /\ bpc'[b] = "snapshot"
        /\ job'[b] = [job[b] EXCEPT !.watch = Rows]
    BY <1>1, <1>2, <1>9 DEF Watch, At
  <2>2. job'[b].watch = Rows /\ job'[b].seen = job[b].seen
        /\ job'[b].again = job[b].again
    BY <1>2, <2>1
  <2>3. JobShape(b)'
    BY <2>1, <2>2, RowsType DEF JobShape, Listed, Watching
  <2> QED
    BY <1>4, <2>1, <2>2, <2>3 DEF Observed, Watching, Dumped, Rows
<1>10. CASE Snapshot(b)
  <2>1. /\ bpc[b] = "snapshot" /\ bpc'[b] = "copy"
        /\ job'[b] = [job[b] EXCEPT !.dump = Active]
    BY <1>1, <1>2, <1>10 DEF Snapshot, At
  <2>2. /\ job'[b].dump = Active /\ job'[b].seen = job[b].seen
        /\ job'[b].again = job[b].again /\ job'[b].watch = job[b].watch
    BY <1>2, <2>1
  <2>3. JobShape(b)'
    BY <2>1, <2>2 DEF JobShape, Listed, Watching
  <2> QED
    BY <1>4, <2>1, <2>2, <2>3 DEF Observed, Watching, Dumped, Active
<1>11. CASE CopyMembers(b)
  <2>1. bpc[b] = "copy" /\ bpc'[b] = "recheck" /\ job'[b] = job[b]
    BY <1>1, <1>11 DEF CopyMembers, At
  <2>2. JobShape(b)'
    BY <2>1 DEF JobShape, Listed, Watching
  <2>3. job[b].again = 0 /\ \A i \in Items : ~(Directory[i] <= 0)
    BY <2>1 DEF JobShape
  <2> QED
    BY <1>4, <2>1, <2>2, <2>3 DEF Observed, Watching, Dumped
<1>12. CASE Recheck(b)
  <2> DEFINE d == job[b].again + 1
  <2>1. /\ bpc[b] = "recheck"
        /\ bpc'[b] = IF d = Directories THEN "database" ELSE "recheck"
        /\ job' = [job EXCEPT ![b].again = d]
        /\ Files(d) = job[b].seen[d]
        /\ d <= Directories
    BY <1>1, <1>2, <1>12 DEF Recheck, At, JobShape
  <2>2. /\ job'[b].again = d /\ job'[b].seen = job[b].seen
        /\ job'[b].watch = job[b].watch /\ job'[b].dump = job[b].dump
    BY <1>2, <2>1
  <2>3. JobShape(b)'
    BY <1>2, <2>1, <2>2 DEF JobShape, Listed, Watching
  <2>4. ASSUME NEW i \in Items, Directory[i] <= d,
               job[b].watch[i] = "active", Row(i) = "active"
        PROVE  i \in job[b].seen[Directory[i]]
    <3>1. CASE Directory[i] <= job[b].again
      BY <2>1, <2>4, <3>1 DEF Observed
    <3>2. CASE Directory[i] = d
      BY <2>1, <2>4, <3>2 DEF Files, Row
    <3> QED
      BY <1>2, <2>4, <3>1, <3>2
  <2> QED
    BY <1>4, <2>1, <2>2, <2>3, <2>4 DEF Observed, Watching, Dumped
<1>13. CASE RecheckDatabase(b)
  <2>1. /\ bpc[b] = "database" /\ bpc'[b] = "publish" /\ job'[b] = job[b]
        /\ Rows = job[b].watch
    BY <1>1, <1>13 DEF RecheckDatabase, At
  <2>2. JobShape(b)'
    BY <2>1 DEF JobShape, Listed, Watching
  <2>3. ASSUME NEW i \in job[b].dump
        PROVE  i \in job[b].seen[Directory[i]]
    <3>1. i \in Items /\ Directory[i] <= job[b].again
      BY <1>2, <2>1 DEF JobShape
    <3>2. job[b].watch[i] = "active" /\ Row(i) = "active"
      BY <2>1, <3>1 DEF Observed, Dumped, Rows
    <3> QED
      BY <2>1, <3>1, <3>2 DEF Observed
  <2> QED
    BY <2>1, <2>2, <2>3 DEF Observed, Watching, Dumped
<1>14. CASE LinkArchive(b)
  BY <1>1, <1>14 DEF LinkArchive, At, JobShape, Observed, Listed, Watching,
                     Dumped
<1>15. CASE LinkChecksum(b)
  BY <1>1, <1>15 DEF LinkChecksum, At, JobShape, Observed, Listed, Watching,
                     Dumped
<1> QED
  BY <1>5, <1>6, <1>7, <1>8, <1>9, <1>10, <1>11, <1>12, <1>13, <1>14, <1>15
     DEF BackupNext, GiveUp, Report, RollBack, KillBackup

\* A step of one backup leaves the variables of the others alone.
LEMMA OtherBackups ==
  ASSUME ArchiveTypeOK, NEW b \in Backups, NEW c \in Backups, c # b,
         BackupNext(b)
  PROVE  bpc'[c] = bpc[c] /\ job'[c] = job[c] /\ UNCHANGED item
<1>1. bpc \in [Backups -> BackupSteps] /\ DOMAIN job = Backups
  BY DEF ArchiveTypeOK
<1> QED
  BY <1>1 DEF BackupNext, Begin, Acquire, Walk, Watch, Snapshot, CopyMembers,
     Recheck, RecheckDatabase, GiveUp, LinkArchive, LinkChecksum, Report,
     RollBack, KillBackup, At, Leave, outside, published, serviceVars

LEMMA CopyInvStep ==
  ASSUME ArchiveTypeOK, CopyInv, [ArchiveNext]_archiveVars
  PROVE  CopyInv'
<1> SUFFICES ASSUME NEW c \in Backups
             PROVE  JobShape(c)' /\ Observed(c)'
  BY DEF CopyInv
<1>1. JobShape(c) /\ Observed(c)
  BY DEF CopyInv
<1>2. ASSUME RowsProgress, bpc'[c] = bpc[c], job'[c] = job[c]
      PROVE  JobShape(c)' /\ Observed(c)'
  BY <1>1, <1>2, Stable
<1>3. CASE ServiceNext
  <2>1. bpc' = bpc /\ job' = job
    BY <1>3 DEF ServiceNext, Store, Commit, Discard, Consume, RemoveFile, Becomes,
                Stop, Exit, Start, backupVars
  <2> QED
    BY <1>2, <1>3, <2>1, ServiceRows
<1>4. CASE \E b \in Backups : BackupNext(b)
  <2> PICK b \in Backups : BackupNext(b)
    BY <1>4
  <2>1. CASE b = c
    BY <1>1, <2>1, OwnStep
  <2>2. CASE b # c
    BY <1>2, <2>2, OtherBackups, SameRows
  <2> QED
    BY <2>1, <2>2
<1>5. CASE RestoreNext \/ UNCHANGED archiveVars
  <2>1. bpc' = bpc /\ job' = job /\ UNCHANGED item
    BY <1>5 DEF RestoreNext, Verify, Extract, Rehash, Rename, RestoreFails,
                Replace, archiveVars, outside, backupVars, serviceVars
  <2> QED
    BY <1>2, <2>1, SameRows
<1> QED
  BY <1>3, <1>4, <1>5 DEF ArchiveNext

-----------------------------------------------------------------------------
(* What is published.                                                      *)

\* Whoever puts an archive at the destination puts one there.
LEMMA NewArchive ==
  ASSUME ArchiveTypeOK
  PROVE  /\ \A b \in Backups :
              LinkArchive(b) => /\ archive' # Nothing /\ archive'.by = b
                                /\ Len(archive'.members) > 0
         /\ Replace => /\ archive' # Nothing /\ archive'.by = Nothing
                       /\ Len(archive'.members) > 0
<1>1. ASSUME NEW b \in Backups, LinkArchive(b)
      PROVE  /\ archive' \in Archives /\ archive'.by = b
             /\ Len(archive'.members) > 0
  BY <1>1, MembersType DEF LinkArchive, Archives
<1>2. ASSUME Replace
      PROVE  /\ archive' \in Archives /\ archive'.by = Nothing
             /\ Len(archive'.members) > 0
  <2>1. /\ [n \in 1..(Directories + 1) |-> {}] \in Seq(SUBSET Items)
        /\ Len([n \in 1..(Directories + 1) |-> {}]) = Directories + 1
    BY BackupRestoreAssumptions
  <2> QED
    BY <1>2, <2>1, BackupRestoreAssumptions DEF Replace, Archives
<1> QED
  BY <1>1, <1>2, BackupRestoreAssumptions

LEMMA PublishInvStep ==
  ASSUME ArchiveTypeOK, PublishInv, [ArchiveNext]_archiveVars
  PROVE  PublishInv'
<1> USE BackupRestoreAssumptions DEF published
<1>1. bpc \in [Backups -> BackupSteps] /\ Nothing \notin Backups
  BY DEF ArchiveTypeOK
<1>2. ASSUME UNCHANGED <<bpc, published>>
      PROVE  PublishInv'
  BY <1>2 DEF PublishInv
<1>3. ASSUME NEW b \in Backups, bpc[b] # "done", bpc'[b] \notin {"checksum", "sync"},
             \A c \in Backups \ {b} : bpc'[c] = bpc[c],
             UNCHANGED published
      PROVE  PublishInv'
  BY <1>3 DEF PublishInv
<1>4. CASE ServiceNext \/ UNCHANGED archiveVars
  BY <1>2, <1>4 DEF ServiceNext, Store, Commit, Discard, Consume, RemoveFile,
     Becomes, Stop, Exit, Start, archiveVars, backupVars
<1>5. CASE Replace
  <2>1. UNCHANGED <<bpc, sidecar, reported>>
    BY <1>5 DEF Replace
  <2> QED
    BY <1>5, <2>1, NewArchive DEF PublishInv
<1>6. CASE RestoreNext /\ ~Replace
  BY <1>2, <1>6 DEF RestoreNext, Verify, Extract, Rehash, Rename, RestoreFails,
                    backupVars
<1>7. ASSUME NEW b \in Backups, BackupNext(b)
      PROVE  PublishInv'
  <2>1. CASE LinkArchive(b)
    <3>1. /\ archive = Nothing /\ UNCHANGED <<sidecar, reported>>
          /\ bpc[b] = "publish" /\ bpc' = [bpc EXCEPT ![b] = "checksum"]
      BY <2>1 DEF LinkArchive, At
    <3> QED
      BY <1>1, <2>1, <3>1, NewArchive DEF PublishInv
  <2>2. CASE LinkChecksum(b)
    <3>1. /\ sidecar = Nothing /\ sidecar' = b /\ UNCHANGED <<archive, reported>>
          /\ bpc[b] = "checksum" /\ bpc' = [bpc EXCEPT ![b] = "sync"]
      BY <2>2 DEF LinkChecksum, At
    <3> QED
      BY <1>1, <3>1 DEF PublishInv
  <2>3. CASE Report(b)
    <3>1. /\ UNCHANGED <<archive, sidecar>> /\ reported' = reported \cup {b}
          /\ bpc[b] = "sync" /\ bpc' = [bpc EXCEPT ![b] = "done"]
      BY <2>3 DEF Report, Leave
    <3> QED
      BY <1>1, <3>1 DEF PublishInv
  <2>4. CASE RollBack(b)
    <3>1. /\ bpc[b] \in {"checksum", "sync"}
          /\ bpc' = [bpc EXCEPT ![b] = "done"] /\ reported' = reported
          /\ archive # Nothing /\ archive.by # b => archive' = archive
          /\ sidecar # b => sidecar' = sidecar
      BY <2>4 DEF RollBack, Leave
    <3> QED
      BY <1>1, <3>1 DEF PublishInv
  <2>5. CASE KillBackup(b) \/ GiveUp(b)
    BY <1>1, <1>3, <2>5 DEF KillBackup, GiveUp, Leave
  <2>6. CASE \/ Begin(b) \/ Acquire(b) \/ Walk(b) \/ Watch(b) \/ Snapshot(b)
             \/ CopyMembers(b) \/ Recheck(b) \/ RecheckDatabase(b)
    <3>1. /\ bpc[b] # "done" /\ UNCHANGED published
          /\ \E to \in BackupSteps \ {"checksum", "sync"} :
               bpc' = [bpc EXCEPT ![b] = to]
      BY <2>6 DEF Begin, Acquire, Walk, Watch, Snapshot, CopyMembers, Recheck,
                  RecheckDatabase, At, BackupSteps
    <3> QED
      BY <1>1, <1>3, <3>1
  <2> QED
    BY <1>7, <2>1, <2>2, <2>3, <2>4, <2>5, <2>6 DEF BackupNext
<1> QED
  BY <1>4, <1>5, <1>6, <1>7 DEF ArchiveNext

\* An archive is linked after its files were seen to be there.
LEMMA FilesStep ==
  ASSUME ArchiveTypeOK, CopyInv, NotEmpty, ArchiveHasItsFiles,
         [ArchiveNext]_archiveVars
  PROVE  NotEmpty' /\ ArchiveHasItsFiles'
<1>1. ASSUME archive' = archive
      PROVE  NotEmpty' /\ ArchiveHasItsFiles'
  BY <1>1 DEF NotEmpty, ArchiveHasItsFiles
<1>2. CASE ServiceNext \/ UNCHANGED archiveVars
  BY <1>1, <1>2 DEF ServiceNext, Store, Commit, Discard, Consume, RemoveFile,
     Becomes, Stop, Exit, Start, archiveVars, backupVars, published
<1>3. CASE Replace
  BY <1>3, NewArchive DEF NotEmpty, ArchiveHasItsFiles
<1>4. CASE RestoreNext /\ ~Replace
  BY <1>1, <1>4 DEF RestoreNext, Verify, Extract, Rehash, Rename, RestoreFails,
                    backupVars, published
<1>5. ASSUME NEW b \in Backups, BackupNext(b)
      PROVE  NotEmpty' /\ ArchiveHasItsFiles'
  <2>1. CASE LinkArchive(b)
    <3>1. bpc[b] = "publish" /\ archive' = [by |-> b, members |-> Members(b)]
      BY <2>1 DEF LinkArchive, At
    <3>2. /\ Len(job[b].seen) = Directories
          /\ \A i \in job[b].dump : i \in job[b].seen[Directory[i]]
          /\ job[b].dump \in SUBSET Items
      BY <3>1 DEF CopyInv, JobShape, Observed, Listed, ArchiveTypeOK, Jobs
    <3>3. \A i \in Members(b)[1] : i \in Members(b)[1 + Directory[i]]
      BY <3>2, MembersType, BackupRestoreAssumptions
    <3> QED
      BY <2>1, <3>1, <3>3, NewArchive DEF NotEmpty, ArchiveHasItsFiles
  <2>2. CASE RollBack(b)
    <3>1. archive' = Nothing \/ archive' = archive
      BY <2>2 DEF RollBack
    <3> QED
      BY <1>1, <3>1 DEF NotEmpty, ArchiveHasItsFiles
  <2>3. CASE ~LinkArchive(b) /\ ~RollBack(b)
    BY <1>1, <1>5, <2>3 DEF BackupNext, Begin, Acquire, Walk, Watch, Snapshot,
       CopyMembers, Recheck, RecheckDatabase, GiveUp, LinkChecksum, Report,
       KillBackup, published
  <2> QED
    BY <2>1, <2>2, <2>3
<1> QED
  BY <1>2, <1>3, <1>4, <1>5 DEF ArchiveNext
-----------------------------------------------------------------------------
(* What is restored.                                                       *)

LEMMA RestoreStep ==
  ASSUME ArchiveTypeOK, NotEmpty, RestoreInv, RestoredIsWhole,
         [ArchiveNext]_archiveVars
  PROVE  RestoreInv' /\ RestoredIsWhole'
<1>1. ASSUME UNCHANGED restoreVars
      PROVE  RestoreInv' /\ RestoredIsWhole'
  BY <1>1 DEF RestoreInv, RestoredIsWhole, restoreVars
<1>2. CASE ServiceNext \/ UNCHANGED archiveVars
  BY <1>1, <1>2 DEF ServiceNext, Store, Commit, Discard, Consume, RemoveFile,
     Becomes, Stop, Exit, Start, archiveVars, outside
<1>3. CASE \E b \in Backups : BackupNext(b)
  BY <1>1, <1>3 DEF BackupNext, Begin, Acquire, Walk, Watch, Snapshot,
     CopyMembers, Recheck, RecheckDatabase, GiveUp, LinkArchive, LinkChecksum,
     Report, RollBack, KillBackup, outside
<1>4. CASE Verify
  <2>1. /\ verified' # Nothing /\ verified'.by \in Backups
        /\ verified' \in Archives
    BY <1>4 DEF Verify, ArchiveTypeOK
  <2>2. Len(verified'.members) \in Nat
    BY <2>1 DEF Archives
  <2>3. staging = <<>> /\ Len(staging) = 0 /\ UNCHANGED staging
    BY <1>4 DEF Verify, RestoreInv
  <2>4. Len(verified'.members) > 0
    BY <1>4 DEF Verify, NotEmpty
  <2> QED
    BY <1>4, <2>1, <2>2, <2>3, <2>4 DEF Verify, RestoreInv, RestoredIsWhole
<1>5. CASE Extract
  <2> DEFINE n == Len(staging) + 1
  <2>1. /\ verified \in Archives /\ verified.by \in Backups
        /\ staging \in Seq(SUBSET Items) /\ n <= Len(verified.members)
        /\ \A m \in 1..Len(staging) : staging[m] = verified.members[m]
        /\ root = Nothing
    BY <1>5 DEF ArchiveTypeOK, RestoreInv, Extract
  <2>2. staging' = Append(staging, verified.members[n])
    BY <1>5 DEF Extract
  <2>3. verified.members \in Seq(SUBSET Items) /\ n \in 1..Len(verified.members)
    BY <2>1 DEF Archives
  <2>4. Len(staging') = n /\ \A m \in 1..n : staging'[m] = verified.members[m]
    BY <2>1, <2>2, <2>3
  <2> QED
    BY <1>5, <2>1, <2>3, <2>4, BackupRestoreAssumptions
       DEF Extract, RestoreInv, RestoredIsWhole
<1>6. CASE Rehash
  BY <1>6 DEF Rehash, RestoreInv, RestoredIsWhole
<1>7. CASE Rename
  <2>1. /\ verified \in Archives /\ verified.by \in Backups
        /\ staging \in Seq(SUBSET Items)
        /\ Len(staging) = Len(verified.members)
        /\ \A m \in 1..Len(staging) : staging[m] = verified.members[m]
    BY <1>7 DEF ArchiveTypeOK, RestoreInv, Rename
  <2>2. staging = verified.members
    BY <2>1 DEF Archives
  <2> QED
    BY <1>7, <2>1, <2>2, BackupRestoreAssumptions
       DEF Rename, RestoreInv, RestoredIsWhole
<1>8. CASE RestoreFails
  BY <1>8 DEF RestoreFails, RestoreInv, RestoredIsWhole
<1>9. CASE Replace
  BY <1>1, <1>9 DEF Replace
<1> QED
  BY <1>2, <1>3, <1>4, <1>5, <1>6, <1>7, <1>8, <1>9
     DEF ArchiveNext, RestoreNext
-----------------------------------------------------------------------------
(* The theorems.                                                           *)

\* The inductive invariant: types, what backups know, what is published, what
\* is restored.
THEOREM ArchiveCorrect == ArchiveSpec => []ArchiveInv
<1>1. ArchiveInit => ArchiveInv
  <2> SUFFICES ASSUME ArchiveInit
               PROVE  ArchiveInv
    OBVIOUS
  <2>1. ArchiveTypeOK
    BY BackupRestoreAssumptions
       DEF ArchiveInit, ArchiveTypeOK, NoJob, Jobs, BackupSteps
  <2>2. CopyInv
    BY DEF ArchiveInit, CopyInv, JobShape, Observed, Listed, Watching, Dumped
  <2>3. PublishInv /\ NotEmpty /\ ArchiveHasItsFiles /\ RestoreInv /\ RestoredIsWhole
    BY DEF ArchiveInit, PublishInv, NotEmpty, ArchiveHasItsFiles, RestoreInv,
           RestoredIsWhole
  <2> QED
    BY <2>1, <2>2, <2>3 DEF ArchiveInv
<1>2. ArchiveInv /\ [ArchiveNext]_archiveVars => ArchiveInv'
  <2> SUFFICES ASSUME ArchiveInv, [ArchiveNext]_archiveVars
               PROVE  ArchiveInv'
    OBVIOUS
  <2>1. ArchiveTypeOK'
    <3>1. CASE UNCHANGED archiveVars
      BY <3>1 DEF ArchiveInv, ArchiveTypeOK, archiveVars, backupVars, published,
                  outside, serviceVars, restoreVars
    <3> QED
      BY <3>1, ServiceType, BackupType, RestoreType
         DEF ArchiveInv, ArchiveNext
  <2> QED
    BY <2>1, CopyInvStep, PublishInvStep, FilesStep, RestoreStep
       DEF ArchiveInv
<1> QED
  BY <1>1, <1>2, PTL DEF ArchiveSpec

\* Every file that the database in a published archive refers to is in it,
\* whatever the service, on another lock, did while it was made.
THEOREM ArchiveFilesTheorem == ArchiveSpec => []ArchiveHasItsFiles
BY ArchiveCorrect, PTL DEF ArchiveInv

\* Nothing that another backup does takes away what a backup reported.
THEOREM ReportedTheorem == ArchiveSpec => []ReportedStays
<1>1. ArchiveInv => ReportedStays
  BY DEF ArchiveInv, ArchiveTypeOK, PublishInv, ReportedStays
<1> QED
  BY <1>1, ArchiveCorrect, PTL

\* A restored root holds every member of an archive that a backup made.
THEOREM RestoredTheorem == ArchiveSpec => []RestoredIsWhole
BY ArchiveCorrect, PTL DEF ArchiveInv

-----------------------------------------------------------------------------
(* ModelBundles: the inductive invariant.                                  *)

Steps == {"idle", "read", "compare", "publish", "open", "insert"}
Stages == {"none", "queued", "active", "done", "failed"}
Adapters == [key : Bundles, from : Bundles]

BundleTypeOK ==
  /\ source \in [Parts -> Contents]
  /\ declared \in Contents
  /\ registered \in [Parts -> Contents]
  /\ ready \in BOOLEAN
  /\ warm \in SUBSET Adapters
  /\ snapshot \in [Parts -> [Digests -> FileStates]]
  /\ manifest \in [Bundles -> FileStates]
  /\ stage \in [RunIds -> Stages]
  /\ bundle \in [RunIds -> Bundles \cup {Null}]
  /\ used \in [RunIds -> Bundles \cup {Null}]
  /\ at \in [Creators -> [step : Steps, part : Parts]]
  /\ bytes \in [Creators -> [Parts -> Contents]]
  /\ doing \in [Executors -> RunIds \cup {Null}]
  /\ opened \in [Executors -> Bundles \cup {Unread}]
  /\ reads \in 0..LastPart
  /\ seen \in [Parts -> SUBSET Contents]
  /\ offered \in SUBSET Bundles
  /\ tampers \in Nat

\* While the service is being built nobody is served, and what has been read so
\* far is something that the file has held since that began.
StartInv ==
  Starting =>
    /\ ready = FALSE
    /\ \A c \in Creators : at[c].step = "idle"
    /\ \A e \in Executors : doing[e] = Null
    /\ \A p \in Parts : source[p] \in seen[p]
    /\ \A p \in Parts \ {Weights} : Turn(p) <= reads => registered[p] \in seen[p]

\* A request works with the registration it has found READY; nobody changes
\* that before a restart, and after Compare it holds just the registered bytes.
OfferInv ==
  /\ ready => registered \in offered
  /\ \A c \in Creators :
       /\ at[c].step # "idle" => registered \in offered
       /\ at[c].step \in {"publish", "open", "insert"} => bytes[c] = registered

\* A bundle is in the store, although perhaps damaged.
Stored(b) ==
  /\ manifest[b] # "absent"
  /\ \A p \in Parts : snapshot[p][b[p]] # "absent"

\* What a request has already published.
PublishBundleInv ==
  \A c \in Creators :
    /\ at[c].step \in {"compare", "publish"} =>
         snapshot[Weights][registered[Weights]] # "absent"
    /\ at[c].step = "publish" =>
         \A p \in Parts :
           p < at[c].part => snapshot[p][registered[p]] # "absent"
    /\ at[c].step \in {"open", "insert"} => Stored(registered)

\* What the rows say of each other and of the store.
RunInv ==
  \A r \in RunIds :
    /\ stage[r] = "none" <=> bundle[r] = Null
    /\ bundle[r] # Null => bundle[r] \in offered /\ Stored(bundle[r])
    /\ used[r] # Null => stage[r] = "done"

\* A run is executed by one worker, with the bytes its reference names.
ExecuteInv ==
  \A e \in Executors :
    /\ doing[e] # Null => stage[doing[e]] = "active"
    /\ \A f \in Executors : doing[e] # Null /\ doing[e] = doing[f] => e = f
    /\ opened[e] # Unread => doing[e] # Null /\ opened[e] = bundle[doing[e]]

\* A cached adapter was built from the bundle that its key names.
WarmInv == \A a \in warm : a.key = a.from

\* Only damage damages.
WholeInv ==
  tampers = 0 =>
    /\ \A b \in Bundles : manifest[b] # "damaged"
    /\ \A p \in Parts, d \in Digests : snapshot[p][d] # "damaged"

BundleInv ==
  /\ BundleTypeOK
  /\ StartInv
  /\ OfferInv
  /\ PublishBundleInv
  /\ RunInv
  /\ ExecuteInv
  /\ WarmInv
  /\ WholeInv

-----------------------------------------------------------------------------
(* The invariant is inductive.                                             *)

\* What every proof needs to know of parts and contents.
LEMMA DataFacts ==
  /\ 1 \in Parts /\ Weights \in Parts /\ Parts \subseteq Nat
  /\ \A p \in Parts : p <= Weights /\ (p # Weights => p + 1 \in Parts)
  /\ Digests \subseteq Contents /\ Null \in Contents
  /\ Unread \in [Parts -> Contents] /\ Unread \notin Bundles
  /\ Bundles \subseteq [Parts -> Contents]
  /\ \A b \in Bundles, p \in Parts : b[p] \in Digests
  /\ Null \notin Bundles /\ Null \notin RunIds /\ Null \notin Digests
  /\ Idle.step = "idle" /\ Idle.part = 1
  /\ \A s \in Steps, p \in Parts :
       [step |-> s, part |-> p] \in [step : Steps, part : Parts]
  /\ Idle \in [step : Steps, part : Parts]
  BY BundleAssumptions, SMTT(30)
  DEF BundleAssumptions, Parts, Weights, Contents, Unread, Bundles, Idle, Steps

\* Every part has a turn of its own, and that of the weights is the last.
LEMMA TurnFacts ==
  /\ LastPart \in Nat /\ 0 < LastPart /\ Turn(Weights) = LastPart
  /\ \A p \in Parts : Turn(p) \in 1..LastPart
  /\ \A p \in Parts \ {Weights} : Turn(p) < LastPart
  /\ \A p, q \in Parts : Turn(p) = Turn(q) => p = q
  BY BundleAssumptions, SMTT(30) DEF BundleAssumptions, Turn, Weights, Parts

\* What reading a part leaves as it was, and what the two kinds of part change.
LEMMA RegisterStep ==
  ASSUME NEW p \in Parts, RegisterPart(p), BundleTypeOK
  PROVE  /\ UNCHANGED <<source, declared, warm, snapshot, manifest, stage, bundle,
                         used, at, bytes, doing, opened, seen, tampers>>
         /\ Starting /\ Turn(p) = reads + 1 /\ reads' = reads + 1
         /\ p # Weights => /\ registered' = [registered EXCEPT ![p] = source[p]]
                           /\ UNCHANGED <<ready, offered>>
         /\ p = Weights =>
              /\ registered' = registered /\ ready' \in BOOLEAN
              /\ ready' => registered \in Bundles /\ source[p] = registered[p]
              /\ offered' = IF ready' THEN offered \cup {registered} ELSE offered
  BY DEF RegisterPart, operated, store, runs, creation, execution, counted

\* Moving a request on, and ending it, keeps the types.
LEMMA AdvanceTypes ==
  ASSUME BundleTypeOK, NEW c \in Creators, NEW s \in Steps, NEW p \in Parts,
         Advance(c, s, p)
  PROVE  at' \in [Creators -> [step : Steps, part : Parts]]
<1>1. [step |-> s, part |-> p] \in [step : Steps, part : Parts]
  OBVIOUS
<1>2. QED
  BY <1>1 DEF Advance, BundleTypeOK

LEMMA RefuseTypes ==
  ASSUME BundleTypeOK, NEW c \in Creators, Refuse(c)
  PROVE  /\ at' \in [Creators -> [step : Steps, part : Parts]]
         /\ bytes' \in [Creators -> [Parts -> Contents]]
  BY DataFacts DEF Refuse, BundleTypeOK

\* A snapshot is rewritten for one part and digest at a time.
LEMMA SnapshotTypes ==
  ASSUME BundleTypeOK, NEW p \in Parts, NEW d, NEW s \in FileStates,
         snapshot' = [snapshot EXCEPT ![p][d] = s]
  PROVE  snapshot' \in [Parts -> [Digests -> FileStates]]
<1>1. [snapshot[p] EXCEPT ![d] = s] \in [Digests -> FileStates]
  BY DEF BundleTypeOK
<1>2. QED
  BY <1>1 DEF BundleTypeOK

LEMMA PublishedTypes ==
  ASSUME BundleTypeOK, NEW p \in Parts, NEW d \in Digests, PublishedPart(p, d)
  PROVE  snapshot' \in [Parts -> [Digests -> FileStates]]
<1>1. snapshot[p][d] \in FileStates
  BY DEF BundleTypeOK
<1>2. PICK s \in FileStates : snapshot' = [snapshot EXCEPT ![p][d] = s]
  BY <1>1 DEF PublishedPart, FileStates
<1>3. QED
  BY <1>2, SnapshotTypes

\* Every step keeps the types.
LEMMA TypeStep ==
  ASSUME BundleInv, [BundleNext]_bundleVars
  PROVE  BundleTypeOK'
<1> USE DataFacts DEF BundleInv
<1>1. CASE UNCHANGED bundleVars
  BY <1>1 DEF bundleVars, operated, memory, store, runs, creation, execution,
    startUp, counted, BundleTypeOK, Steps, Stages, Adapters, FileStates
<1>2. ASSUME NEW c \in Creators, Validate(c)
      PROVE  BundleTypeOK'
  BY <1>2 DEF Validate, AtStep, Advance, operated, memory, store, runs, execution,
    startUp, counted, BundleTypeOK, Steps, Stages, Adapters, FileStates
<1>3. ASSUME NEW c \in Creators, ReadPart(c)
      PROVE  BundleTypeOK'
  <2>1. /\ at[c].part \in Parts
        /\ at[c].part # Weights => at[c].part + 1 \in Parts
    BY DEF BundleTypeOK
  <2>2. /\ at' \in [Creators -> [step : Steps, part : Parts]]
        /\ bytes' \in [Creators -> [Parts -> Contents]]
        /\ registered' = registered /\ warm' = warm /\ ready' \in BOOLEAN
    <3>1. CASE source[at[c].part] = Null
      BY <1>3, <3>1, RefuseTypes
      DEF ReadPart, MarkUnavailable, BundleTypeOK
    <3>2. CASE source[at[c].part] # Null
      <4>1. at' \in [Creators -> [step : Steps, part : Parts]]
        BY <1>3, <2>1, <3>2, AdvanceTypes DEF ReadPart, Steps
      <4>2. bytes' \in [Creators -> [Parts -> Contents]]
        <5> DEFINE p == at[c].part
        <5>1. bytes' = [bytes EXCEPT ![c] = [bytes[c] EXCEPT ![p] = source[p]]]
          BY <1>3, <3>2 DEF ReadPart, BundleTypeOK
        <5>2. [bytes[c] EXCEPT ![p] = source[p]] \in [Parts -> Contents]
          BY <2>1 DEF BundleTypeOK
        <5>3. QED
          BY <5>1, <5>2 DEF BundleTypeOK
      <4>3. QED
        BY <1>3, <3>2, <4>1, <4>2 DEF ReadPart, memory, BundleTypeOK
    <3>3. QED
      BY <3>1, <3>2
  <2>3. QED
    BY <1>3, <2>2 DEF ReadPart, operated, store, runs, execution, startUp, counted,
      BundleTypeOK
<1>4. ASSUME NEW c \in Creators, CopyWeightsFails(c)
      PROVE  BundleTypeOK'
  BY <1>4 DEF CopyWeightsFails, AtStep, Refuse, MarkUnavailable, operated, store,
    runs, execution, startUp, counted, BundleTypeOK, Steps, Stages, Adapters,
    FileStates
<1>5. ASSUME NEW c \in Creators, CopyWeights(c)
      PROVE  BundleTypeOK'
  <2>1. at' \in [Creators -> [step : Steps, part : Parts]]
    BY <1>5, AdvanceTypes DEF CopyWeights, Steps
  <2>2. bytes' \in [Creators -> [Parts -> Contents]]
    BY <1>5 DEF CopyWeights, BundleTypeOK
  <2>3. registered[Weights] \in Digests
    BY <1>5 DEF CopyWeights, AtStep, OfferInv, BundleTypeOK
  <2>4. snapshot' \in [Parts -> [Digests -> FileStates]]
    BY <1>5, <2>3, PublishedTypes DEF CopyWeights
  <2>5. QED
    BY <1>5, <2>1, <2>2, <2>4 DEF CopyWeights, operated, memory, runs,
      execution, startUp, counted, BundleTypeOK
<1>6. ASSUME NEW c \in Creators, Compare(c)
      PROVE  BundleTypeOK'
  <2>1. /\ at' \in [Creators -> [step : Steps, part : Parts]]
        /\ bytes' \in [Creators -> [Parts -> Contents]]
        /\ registered' = registered /\ warm' = warm /\ ready' \in BOOLEAN
    <3>1. CASE bytes[c] = registered
      <4>1. at' \in [Creators -> [step : Steps, part : Parts]]
        BY <1>6, <3>1, AdvanceTypes DEF Compare, Steps
      <4>2. QED
        BY <1>6, <3>1, <4>1 DEF Compare, memory, BundleTypeOK
    <3>2. CASE bytes[c] # registered
      BY <1>6, <3>2, RefuseTypes DEF Compare, MarkUnavailable, BundleTypeOK
    <3>3. QED
      BY <3>1, <3>2
  <2>2. QED
    BY <1>6, <2>1 DEF Compare, operated, store, runs, execution, startUp, counted,
      BundleTypeOK
<1>7. ASSUME NEW c \in Creators, PublishPart(c)
      PROVE  BundleTypeOK'
  <2>1. /\ at[c].part \in Parts /\ at[c].part # Weights
        /\ at[c].part + 1 \in Parts
    BY <1>7 DEF PublishPart, BundleTypeOK
  <2>2. at' \in [Creators -> [step : Steps, part : Parts]]
    BY <1>7, <2>1, AdvanceTypes DEF PublishPart, Steps
  <2>3. bytes[c][at[c].part] \in Digests
    BY <1>7, <2>1 DEF PublishPart, AtStep, OfferInv, BundleTypeOK
  <2>4. snapshot' \in [Parts -> [Digests -> FileStates]]
    BY <1>7, <2>1, <2>3, PublishedTypes DEF PublishPart
  <2>5. QED
    BY <1>7, <2>2, <2>4 DEF PublishPart, operated, memory, runs, execution,
      startUp, counted, BundleTypeOK
<1>8. ASSUME NEW c \in Creators, PublishManifest(c)
      PROVE  BundleTypeOK'
  BY <1>8 DEF PublishManifest, AtStep, Advance, operated, memory, runs, execution,
    startUp, counted, BundleTypeOK, Steps, Stages, Adapters, FileStates
<1>9. ASSUME NEW c \in Creators, PublishFails(c)
      PROVE  BundleTypeOK'
  BY <1>9 DEF PublishFails, AtStep, Refuse, operated, memory, store, runs,
    execution, startUp, counted, BundleTypeOK, Steps, Stages, Adapters, FileStates
<1>10. ASSUME NEW c \in Creators, OpenFrozen(c)
      PROVE  BundleTypeOK'
  <2>1. /\ at' \in [Creators -> [step : Steps, part : Parts]]
        /\ bytes' \in [Creators -> [Parts -> Contents]]
    <3>1. CASE Readable(bytes[c])
      BY <1>10, <3>1, AdvanceTypes DEF OpenFrozen, Steps, BundleTypeOK
    <3>2. CASE ~ Readable(bytes[c])
      BY <1>10, <3>2, RefuseTypes DEF OpenFrozen
    <3>3. QED
      BY <3>1, <3>2
  <2>2. QED
    BY <1>10, <2>1 DEF OpenFrozen, operated, memory, store, runs, execution,
      startUp, counted, BundleTypeOK
<1>11. ASSUME NEW c \in Creators, NEW r \in RunIds, Create(c, r)
      PROVE  BundleTypeOK'
  <2>1. bytes[c] \in Bundles
    BY <1>11 DEF Create, AtStep, OfferInv, BundleTypeOK
  <2>2. bundle' \in [RunIds -> Bundles \cup {Null}]
    BY <1>11, <2>1 DEF Create, BundleTypeOK
  <2>3. stage' \in [RunIds -> Stages]
    BY <1>11 DEF Create, BundleTypeOK, Stages
  <2>4. QED
    BY <1>11, <2>2, <2>3, RefuseTypes DEF Create, operated, memory, store,
      execution, startUp, counted, BundleTypeOK
<1>12. ASSUME NEW r \in RunIds, NEW parent \in RunIds, Review(r, parent)
      PROVE  BundleTypeOK'
  BY <1>12 DEF Review, operated, memory, store, creation, execution, startUp, counted,
    BundleTypeOK, Steps, Stages, Adapters, FileStates
<1>13. ASSUME NEW e \in Executors, NEW r \in RunIds, ClaimRun(e, r)
      PROVE  BundleTypeOK'
  BY <1>13 DEF ClaimRun, operated, memory, store, creation, startUp, counted,
    BundleTypeOK, Steps, Stages, Adapters, FileStates
<1>14. ASSUME NEW e \in Executors, Open(e)
      PROVE  BundleTypeOK'
  <2>1. doing[e] \in RunIds
    BY <1>14 DEF Open, Opening, BundleTypeOK
  <2>2. bundle[doing[e]] \in Bundles
    BY <1>14, <2>1 DEF Open, Opening, ExecuteInv, RunInv, BundleTypeOK
  <2>3. QED
    BY <1>14, <2>2
      DEF Open, operated, memory, store, runs, creation, startUp, counted,
      BundleTypeOK
<1>15. ASSUME NEW e \in Executors, OpenFails(e)
      PROVE  BundleTypeOK'
  BY <1>15 DEF OpenFails, Opening, Readable, EndRun, operated, memory, store,
    creation, startUp, counted, BundleTypeOK, Steps, Stages, Adapters, FileStates
<1>16. ASSUME NEW e \in Executors, PredictCached(e)
      PROVE  BundleTypeOK'
  BY <1>16 DEF PredictCached, Holding, WarmFor, PredictWith, EndRun, operated,
    store, creation, startUp, counted, BundleTypeOK, Steps, Stages, Adapters,
    FileStates
<1>17. ASSUME NEW e \in Executors, PredictLoaded(e)
      PROVE  BundleTypeOK'
  BY <1>17 DEF PredictLoaded, Holding, WarmFor, PredictWith, EndRun, New,
    Kept, operated, store, creation, startUp, counted, BundleTypeOK, Steps, Stages,
    Adapters, FileStates
<1>18. ASSUME NEW e \in Executors, LoadRaises(e)
      PROVE  BundleTypeOK'
  BY <1>18 DEF LoadRaises, Holding, WarmFor, EndRun, MarkUnavailable,
    operated, store, creation, startUp, counted, BundleTypeOK, Steps, Stages, Adapters,
    FileStates
<1>19. ASSUME NEW e \in Executors, PredictRaises(e)
      PROVE  BundleTypeOK'
  BY <1>19 DEF PredictRaises, Holding, WarmFor, EndRun, Kept, operated, store,
    creation, startUp, counted, BundleTypeOK, Steps, Stages, Adapters, FileStates
<1>20. CASE Edit
  <2>0. seen' \in [Parts -> SUBSET Contents]
    <3>1. ASSUME NEW p \in Parts, NEW d \in Contents,
                 seen' = [seen EXCEPT ![p] = @ \cup {d}]
          PROVE  seen' \in [Parts -> SUBSET Contents]
      <4>1. seen[p] \cup {d} \in SUBSET Contents
        BY DEF BundleTypeOK
      <4>2. QED
        BY <3>1, <4>1 DEF BundleTypeOK
    <3>2. \/ \E p \in Parts, d \in Contents : seen' = [seen EXCEPT ![p] = @ \cup {d}]
          \/ seen' = seen
      BY <1>20 DEF Edit
    <3>3. QED
      BY <3>1, <3>2 DEF BundleTypeOK
  <2>1. source' \in [Parts -> Contents] /\ declared' \in Contents
    <3>1. \A p \in Parts, d \in Contents :
            [source EXCEPT ![p] = d] \in [Parts -> Contents]
      BY DEF BundleTypeOK
    <3>2. CASE /\ \E p \in Parts, d \in Contents :
                    source' = [source EXCEPT ![p] = d]
               /\ UNCHANGED declared
      BY <3>1, <3>2 DEF BundleTypeOK
    <3>3. CASE declared' \in Contents /\ UNCHANGED <<source, seen>>
      BY <3>3 DEF BundleTypeOK
    <3>4. QED
      BY <1>20, <3>2, <3>3 DEF Edit
  <2>2. QED
    BY <1>20, <2>1, <2>0 DEF Edit, memory, store, runs, creation, execution,
      BundleTypeOK
<1>21. CASE Tamper
  <2>1. tampers' \in Nat
    BY <1>21 DEF Tamper, BundleTypeOK
  <2>2. /\ snapshot' \in [Parts -> [Digests -> FileStates]]
        /\ manifest' \in [Bundles -> FileStates]
    <3>1. CASE \E p \in Parts, d \in Digests :
                 /\ snapshot[p][d] = "whole"
                 /\ snapshot' = [snapshot EXCEPT ![p][d] = "damaged"]
                 /\ UNCHANGED manifest
      BY <3>1, SnapshotTypes DEF FileStates, BundleTypeOK
    <3>2. CASE \E b \in Bundles :
                 /\ manifest[b] = "whole"
                 /\ manifest' = [manifest EXCEPT ![b] = "damaged"]
                 /\ UNCHANGED snapshot
      BY <3>2 DEF FileStates, BundleTypeOK
    <3>3. QED
      BY <1>21, <3>1, <3>2 DEF Tamper
  <2>3. QED
    BY <1>21, <2>1, <2>2 DEF Tamper, operated, memory, runs, creation,
      execution, startUp, BundleTypeOK
<1>22. CASE Restart
  <2>1. /\ registered' \in [Parts -> Contents] /\ reads' \in 0..LastPart
        /\ seen' \in [Parts -> SUBSET Contents]
    <3>1. registered' \in [Parts -> Contents]
      BY <1>22 DEF Restart, Declared, BundleTypeOK
    <3>2. reads' \in 0..LastPart
      BY <1>22, TurnFacts DEF Restart
    <3>3. seen' \in [Parts -> SUBSET Contents]
      BY <1>22 DEF Restart, BundleTypeOK
    <3>4. QED
      BY <3>1, <3>2, <3>3
  <2>2. QED
    BY <1>22, <2>1 DEF Restart, operated, store, BundleTypeOK, Steps, Stages,
      Adapters, FileStates
<1>23. ASSUME NEW p \in Parts, RegisterPart(p)
      PROVE  BundleTypeOK'
  <2>1. reads' \in 0..LastPart
    BY <1>23, RegisterStep, TurnFacts
  <2>2. /\ registered' \in [Parts -> Contents] /\ ready' \in BOOLEAN
        /\ offered' \in SUBSET Bundles
    <3>1. CASE p = Weights
      <4>1. /\ registered' = registered /\ ready' \in BOOLEAN
            /\ ready' => registered \in Bundles
            /\ offered' = IF ready' THEN offered \cup {registered} ELSE offered
        BY <1>23, <3>1, RegisterStep
      <4>2. QED
        BY <4>1 DEF BundleTypeOK
    <3>2. CASE p # Weights
      <4>1. /\ registered' = [registered EXCEPT ![p] = source[p]]
            /\ UNCHANGED <<ready, offered>>
        BY <1>23, <3>2, RegisterStep
      <4>2. QED
        BY <4>1 DEF BundleTypeOK
    <3>3. QED
      BY <3>1, <3>2
  <2>3. QED
    BY <1>23, <2>1, <2>2, RegisterStep DEF BundleTypeOK
<1>24. QED
  BY <1>1, <1>2, <1>3, <1>4, <1>5, <1>6, <1>7, <1>8, <1>9, <1>10, <1>11,
    <1>12, <1>13, <1>14, <1>15, <1>16, <1>17, <1>18, <1>19, <1>20, <1>21,
    <1>22, <1>23 DEF BundleNext, Freezing, Predicting

\* Publishing a part only turns absent files into whole ones.
LEMMA PublishedFiles ==
  ASSUME snapshot \in [Parts -> [Digests -> FileStates]],
         NEW p \in Parts, NEW d, PublishedPart(p, d)
  PROVE  \A q \in Parts, e \in Digests :
           \/ snapshot'[q][e] = snapshot[q][e]
           \/ snapshot[q][e] = "absent" /\ snapshot'[q][e] = "whole"
<1> DEFINE f == [snapshot[p] EXCEPT ![d] = IF @ = "absent" THEN "whole" ELSE @]
<1>1. snapshot' = [snapshot EXCEPT ![p] = f]
  BY DEF PublishedPart
<1>2. \A e \in Digests :
        \/ f[e] = snapshot[p][e]
        \/ snapshot[p][e] = "absent" /\ f[e] = "whole"
  OBVIOUS
<1> HIDE DEF f
<1> QED
  BY <1>1, <1>2

\* Nothing that is in the store ever leaves it.
StoreKeeps ==
  /\ \A b \in Bundles : manifest[b] # "absent" => manifest'[b] # "absent"
  /\ \A p \in Parts, d \in Digests :
       snapshot[p][d] # "absent" => snapshot'[p][d] # "absent"

LEMMA StoreStep ==
  ASSUME BundleInv, [BundleNext]_bundleVars
  PROVE  StoreKeeps
<1> USE DataFacts DEF BundleInv, BundleTypeOK
<1>1. CASE UNCHANGED bundleVars
  BY <1>1 DEF bundleVars, store, StoreKeeps
<1>2. ASSUME NEW c \in Creators, Validate(c)
      PROVE  StoreKeeps
  BY <1>2 DEF Validate, store, StoreKeeps
<1>3. ASSUME NEW c \in Creators, ReadPart(c)
      PROVE  StoreKeeps
  BY <1>3 DEF ReadPart, store, StoreKeeps
<1>4. ASSUME NEW c \in Creators, CopyWeightsFails(c)
      PROVE  StoreKeeps
  BY <1>4 DEF CopyWeightsFails, store, StoreKeeps
<1>5. ASSUME NEW c \in Creators, CopyWeights(c)
      PROVE  StoreKeeps
  BY <1>5 DEF CopyWeights, PublishedPart, StoreKeeps
<1>6. ASSUME NEW c \in Creators, Compare(c)
      PROVE  StoreKeeps
  BY <1>6 DEF Compare, store, StoreKeeps
<1>7. ASSUME NEW c \in Creators, PublishPart(c)
      PROVE  StoreKeeps
  <2>1. /\ at[c].part \in Parts /\ UNCHANGED manifest
        /\ PublishedPart(at[c].part, bytes[c][at[c].part])
    BY <1>7 DEF PublishPart
  <2> QED
    BY <2>1, PublishedFiles DEF StoreKeeps
<1>8. ASSUME NEW c \in Creators, PublishManifest(c)
      PROVE  StoreKeeps
  BY <1>8 DEF PublishManifest, StoreKeeps
<1>9. ASSUME NEW c \in Creators, PublishFails(c)
      PROVE  StoreKeeps
  BY <1>9 DEF PublishFails, store, StoreKeeps
<1>10. ASSUME NEW c \in Creators, OpenFrozen(c)
      PROVE  StoreKeeps
  BY <1>10 DEF OpenFrozen, store, StoreKeeps
<1>11. ASSUME NEW c \in Creators, NEW r \in RunIds, Create(c, r)
      PROVE  StoreKeeps
  BY <1>11 DEF Create, store, StoreKeeps
<1>12. ASSUME NEW r \in RunIds, NEW parent \in RunIds, Review(r, parent)
      PROVE  StoreKeeps
  BY <1>12 DEF Review, store, StoreKeeps
<1>13. ASSUME NEW e \in Executors, NEW r \in RunIds, ClaimRun(e, r)
      PROVE  StoreKeeps
  BY <1>13 DEF ClaimRun, store, StoreKeeps
<1>14. ASSUME NEW e \in Executors, Open(e)
      PROVE  StoreKeeps
  BY <1>14 DEF Open, store, StoreKeeps
<1>15. ASSUME NEW e \in Executors, OpenFails(e)
      PROVE  StoreKeeps
  BY <1>15 DEF OpenFails, store, StoreKeeps
<1>16. ASSUME NEW e \in Executors, PredictCached(e)
      PROVE  StoreKeeps
  BY <1>16 DEF PredictCached, PredictWith, store, StoreKeeps
<1>17. ASSUME NEW e \in Executors, PredictLoaded(e)
      PROVE  StoreKeeps
  BY <1>17 DEF PredictLoaded, PredictWith, store, StoreKeeps
<1>18. ASSUME NEW e \in Executors, LoadRaises(e)
      PROVE  StoreKeeps
  BY <1>18 DEF LoadRaises, store, StoreKeeps
<1>19. ASSUME NEW e \in Executors, PredictRaises(e)
      PROVE  StoreKeeps
  BY <1>19 DEF PredictRaises, store, StoreKeeps
<1>20. CASE Edit
  BY <1>20 DEF Edit, store, StoreKeeps
<1>21. CASE Tamper
  <2>1. CASE \E p \in Parts, d \in Digests :
               /\ snapshot[p][d] = "whole"
               /\ snapshot' = [snapshot EXCEPT ![p][d] = "damaged"]
               /\ UNCHANGED manifest
    <3>1. PICK p \in Parts, d \in Digests :
            /\ snapshot' = [snapshot EXCEPT ![p][d] = "damaged"]
            /\ UNCHANGED manifest
      BY <2>1
    <3>2. QED
      BY <3>1 DEF StoreKeeps
  <2>2. CASE \E b \in Bundles :
               /\ manifest[b] = "whole"
               /\ manifest' = [manifest EXCEPT ![b] = "damaged"]
               /\ UNCHANGED snapshot
    BY <2>2 DEF StoreKeeps
  <2>3. QED
    BY <1>21, <2>1, <2>2 DEF Tamper
<1>22. CASE Restart
  BY <1>22 DEF Restart, store, StoreKeeps
<1>23. ASSUME NEW p \in Parts, RegisterPart(p)
      PROVE  StoreKeeps
  BY <1>23, RegisterStep DEF StoreKeeps
<1>24. QED
  BY <1>1, <1>2, <1>3, <1>4, <1>5, <1>6, <1>7, <1>8, <1>9, <1>10, <1>11,
    <1>12, <1>13, <1>14, <1>15, <1>16, <1>17, <1>18, <1>19, <1>20, <1>21,
    <1>22, <1>23 DEF BundleNext, Freezing, Predicting

LEMMA StoredStays ==
  ASSUME StoreKeeps, NEW b \in Bundles, Stored(b)
  PROVE  Stored(b)'
  BY DataFacts DEF StoreKeeps, Stored

\* Nobody is served before the service has been built.
LEMMA ServedStep ==
  ASSUME BundleTypeOK, StartInv,
         \/ \E c \in Creators : Freezing(c)
         \/ \E r, parent \in RunIds : Review(r, parent)
         \/ \E e \in Executors : Predicting(e)
  PROVE  ~ Starting /\ ~ Starting' /\ UNCHANGED <<reads, seen, offered>>
<1> SUFFICES ~ Starting /\ UNCHANGED <<reads, seen, offered>>
  BY DEF Starting
<1> DEFINE Served == ~ Starting /\ UNCHANGED <<reads, seen, offered>>
<1>1. ASSUME NEW c \in Creators, Validate(c)
      PROVE  Served
  BY <1>1 DEF Validate, AtStep, startUp, StartInv
<1>2. ASSUME NEW c \in Creators, ReadPart(c)
      PROVE  Served
  BY <1>2 DEF ReadPart, AtStep, startUp, StartInv
<1>3. ASSUME NEW c \in Creators, CopyWeightsFails(c)
      PROVE  Served
  BY <1>3 DEF CopyWeightsFails, AtStep, startUp, StartInv
<1>4. ASSUME NEW c \in Creators, CopyWeights(c)
      PROVE  Served
  BY <1>4 DEF CopyWeights, AtStep, startUp, StartInv
<1>5. ASSUME NEW c \in Creators, Compare(c)
      PROVE  Served
  BY <1>5 DEF Compare, AtStep, startUp, StartInv
<1>6. ASSUME NEW c \in Creators, PublishPart(c)
      PROVE  Served
  BY <1>6 DEF PublishPart, AtStep, startUp, StartInv
<1>7. ASSUME NEW c \in Creators, PublishManifest(c)
      PROVE  Served
  BY <1>7 DEF PublishManifest, AtStep, startUp, StartInv
<1>8. ASSUME NEW c \in Creators, PublishFails(c)
      PROVE  Served
  BY <1>8 DEF PublishFails, AtStep, startUp, StartInv
<1>9. ASSUME NEW c \in Creators, OpenFrozen(c)
      PROVE  Served
  BY <1>9 DEF OpenFrozen, AtStep, startUp, StartInv
<1>10. ASSUME NEW c \in Creators, NEW r \in RunIds, Create(c, r)
      PROVE  Served
  BY <1>10 DEF Create, AtStep, startUp, StartInv
<1>11. ASSUME NEW r \in RunIds, NEW parent \in RunIds, Review(r, parent)
      PROVE  Served
  BY <1>11 DEF Review, startUp, StartInv
<1>12. ASSUME NEW e \in Executors, NEW r \in RunIds, ClaimRun(e, r)
      PROVE  Served
  BY <1>12 DEF ClaimRun, startUp, StartInv
<1>13. ASSUME NEW e \in Executors, Open(e)
      PROVE  Served
  BY <1>13 DEF Open, Opening, startUp, StartInv
<1>14. ASSUME NEW e \in Executors, OpenFails(e)
      PROVE  Served
  BY <1>14 DEF OpenFails, Opening, startUp, StartInv
<1>15. ASSUME NEW e \in Executors, PredictCached(e)
      PROVE  Served
  BY <1>15 DEF PredictCached, Holding, PredictWith, startUp, StartInv
<1>16. ASSUME NEW e \in Executors, PredictLoaded(e)
      PROVE  Served
  BY <1>16 DEF PredictLoaded, Holding, PredictWith, startUp, StartInv
<1>17. ASSUME NEW e \in Executors, LoadRaises(e)
      PROVE  Served
  BY <1>17 DEF LoadRaises, Holding, startUp, StartInv
<1>18. ASSUME NEW e \in Executors, PredictRaises(e)
      PROVE  Served
  BY <1>18 DEF PredictRaises, Holding, startUp, StartInv
<1>19. QED
  BY <1>1, <1>2, <1>3, <1>4, <1>5, <1>6, <1>7, <1>8, <1>9, <1>10,
    <1>11, <1>12, <1>13, <1>14, <1>15, <1>16, <1>17, <1>18 DEF Freezing, Predicting

\* What a start-up has read is what the files have held.
LEMMA StartStep ==
  ASSUME BundleInv, [BundleNext]_bundleVars
  PROVE  StartInv'
<1> USE DataFacts DEF BundleInv
<1>1. CASE UNCHANGED bundleVars
  BY <1>1 DEF bundleVars, operated, memory, creation, execution, startUp, Starting,
    StartInv
<1>2. CASE \/ \E c \in Creators : Freezing(c)
           \/ \E r, parent \in RunIds : Review(r, parent)
           \/ \E e \in Executors : Predicting(e)
  BY <1>2, ServedStep DEF StartInv
<1>3. ASSUME NEW p \in Parts, RegisterPart(p)
      PROVE  StartInv'
  <2>1. CASE p = Weights
    <3>1. ~ Starting'
      BY <1>3, <2>1, RegisterStep, TurnFacts DEF Starting
    <3>2. QED
      BY <3>1 DEF StartInv
  <2>2. CASE p # Weights
    <3>1. /\ Starting /\ ready' = FALSE
          /\ \A c \in Creators : at'[c].step = "idle"
          /\ \A e \in Executors : doing'[e] = Null
          /\ \A q \in Parts : source'[q] \in seen'[q]
      BY <1>3, <2>2, RegisterStep DEF StartInv
    <3>2. ASSUME NEW q \in Parts \ {Weights}, Turn(q) <= reads'
          PROVE  registered'[q] \in seen'[q]
      <4>0. /\ registered' = [registered EXCEPT ![p] = source[p]]
            /\ UNCHANGED <<source, seen>>
            /\ Turn(p) = reads + 1 /\ reads' = reads + 1 /\ reads \in Nat
        <5>1. reads \in Nat
          BY TurnFacts DEF BundleTypeOK
        <5>2. QED
          BY <1>3, <2>2, <5>1, RegisterStep
      <4>1. CASE q = p
        <5>1. registered'[p] = source[p]
          BY <4>0 DEF BundleTypeOK
        <5>2. QED
          BY <3>1, <4>0, <4>1, <5>1
      <4>2. CASE q # p
        <5>1. Turn(q) # reads + 1 /\ Turn(q) \in Nat
          BY <4>0, <4>2, TurnFacts
        <5>2. Turn(q) <= reads
          BY <3>2, <4>0, <5>1
        <5>3. registered[q] \in seen[q]
          BY <3>1, <5>2 DEF StartInv
        <5>4. QED
          BY <4>0, <4>2, <5>3 DEF BundleTypeOK
      <4>3. QED
        BY <4>1, <4>2
    <3>3. QED
      BY <3>1, <3>2 DEF StartInv, Turn
  <2>3. QED
    BY <2>1, <2>2
<1>4. CASE Edit
  <2>1. UNCHANGED <<registered, ready, at, doing, reads>>
    BY <1>4 DEF Edit, memory, creation, execution
  <2>2. ASSUME Starting
        PROVE  /\ \A p \in Parts : source'[p] \in seen'[p]
               /\ \A p \in Parts : seen[p] \subseteq seen'[p]
    <3>1. CASE \E p \in Parts, d \in Contents :
                 /\ source' = [source EXCEPT ![p] = d]
                 /\ seen' = [seen EXCEPT ![p] = @ \cup {d}]
      BY <2>2, <3>1 DEF StartInv, BundleTypeOK
    <3>2. CASE UNCHANGED <<source, seen>>
      BY <2>2, <3>2 DEF StartInv
    <3>3. QED
      BY <1>4, <2>2, <3>1, <3>2 DEF Edit
  <2>3. QED
    BY <2>1, <2>2 DEF StartInv, Starting, Turn
<1>5. CASE Tamper
  BY <1>5 DEF Tamper, operated, memory, creation, execution, startUp, Starting,
    StartInv
<1>6. CASE Restart
  <2>1. \A p \in Parts : ~ (Turn(p) <= 0)
    BY TurnFacts
  <2>2. \A p \in Parts : source'[p] \in seen'[p]
    BY <1>6 DEF Restart, operated
  <2>3. QED
    BY <1>6, <2>1, <2>2 DEF Restart, StartInv, Turn
<1>7. QED
  BY <1>1, <1>2, <1>3, <1>4, <1>5, <1>6 DEF BundleNext

\* What reading a part, and comparing all of them, does to a request.
LEMMA ReadPartStep ==
  ASSUME BundleTypeOK, NEW c \in Creators, ReadPart(c)
  PROVE  /\ UNCHANGED <<registered, offered, snapshot, manifest>>
         /\ ready' => ready
         /\ \A f \in Creators : f # c => at'[f] = at[f] /\ bytes'[f] = bytes[f]
         /\ at[c].step = "read" /\ at'[c].step \in {"idle", "read"}
<1>1. /\ UNCHANGED <<offered, snapshot, manifest>>
      /\ at[c].step = "read"
  BY DEF ReadPart, AtStep, store, startUp
<1>2. CASE source[at[c].part] = Null
  <2>1. Refuse(c) /\ MarkUnavailable
    BY <1>2 DEF ReadPart
  <2>2. QED
    BY <1>1, <2>1 DEF Refuse, MarkUnavailable, Idle, BundleTypeOK
<1>3. CASE source[at[c].part] # Null
  <2>1. /\ Advance(c, "read", at[c].part + 1)
        /\ UNCHANGED memory
        /\ bytes' = [bytes EXCEPT ![c][at[c].part] = source[at[c].part]]
    BY <1>3 DEF ReadPart
  <2>2. QED
    BY <1>1, <2>1 DEF Advance, memory, BundleTypeOK
<1>4. QED
  BY <1>2, <1>3

LEMMA CompareStep ==
  ASSUME BundleTypeOK, NEW c \in Creators, Compare(c)
  PROVE  /\ UNCHANGED <<registered, offered, snapshot, manifest>>
         /\ ready' => ready
         /\ \A f \in Creators : f # c => at'[f] = at[f] /\ bytes'[f] = bytes[f]
         /\ at[c].step = "compare"
         /\ \/ at'[c].step = "idle"
            \/ /\ at'[c] = [step |-> "publish", part |-> 1]
               /\ bytes'[c] = registered
<1>1. /\ UNCHANGED <<offered, snapshot, manifest>>
      /\ at[c].step = "compare"
  BY DEF Compare, AtStep, store, startUp
<1>2. CASE bytes[c] = registered
  <2>1. Advance(c, "publish", 1) /\ UNCHANGED <<bytes, memory>>
    BY <1>2 DEF Compare
  <2>2. QED
    BY <1>1, <1>2, <2>1 DEF Advance, memory, BundleTypeOK
<1>3. CASE bytes[c] # registered
  <2>1. Refuse(c) /\ MarkUnavailable
    BY <1>3 DEF Compare
  <2>2. QED
    BY <1>1, <2>1 DEF Refuse, MarkUnavailable, Idle, BundleTypeOK
<1>4. QED
  BY <1>2, <1>3

\* Who freezes, freezes what is registered.
LEMMA OfferStep ==
  ASSUME BundleInv, [BundleNext]_bundleVars
  PROVE  OfferInv'
<1> USE DataFacts DEF BundleInv, BundleTypeOK
<1>1. CASE UNCHANGED bundleVars
  BY <1>1 DEF bundleVars, memory, creation, startUp, OfferInv
<1>2. ASSUME NEW c \in Creators, Validate(c)
      PROVE  OfferInv'
  BY <1>2 DEF Validate, AtStep, Advance, memory, startUp, OfferInv
<1>3. ASSUME NEW c \in Creators, ReadPart(c)
      PROVE  OfferInv'
  BY <1>3, ReadPartStep DEF OfferInv
<1>4. ASSUME NEW c \in Creators, CopyWeightsFails(c)
      PROVE  OfferInv'
  BY <1>4 DEF CopyWeightsFails, AtStep, Refuse, MarkUnavailable, startUp, OfferInv
<1>5. ASSUME NEW c \in Creators, CopyWeights(c)
      PROVE  OfferInv'
  BY <1>5 DEF CopyWeights, AtStep, Advance, memory, startUp, OfferInv
<1>6. ASSUME NEW c \in Creators, Compare(c)
      PROVE  OfferInv'
  BY <1>6, CompareStep DEF OfferInv
<1>7. ASSUME NEW c \in Creators, PublishPart(c)
      PROVE  OfferInv'
  BY <1>7 DEF PublishPart, AtStep, Advance, memory, startUp, OfferInv
<1>8. ASSUME NEW c \in Creators, PublishManifest(c)
      PROVE  OfferInv'
  BY <1>8 DEF PublishManifest, AtStep, Advance, memory, startUp, OfferInv
<1>9. ASSUME NEW c \in Creators, PublishFails(c)
      PROVE  OfferInv'
  BY <1>9 DEF PublishFails, AtStep, Refuse, memory, startUp, OfferInv
<1>10. ASSUME NEW c \in Creators, OpenFrozen(c)
      PROVE  OfferInv'
  BY ZenonT(30), <1>10
    DEF OpenFrozen, AtStep, Advance, Refuse, memory, startUp, OfferInv
<1>11. ASSUME NEW c \in Creators, NEW r \in RunIds, Create(c, r)
      PROVE  OfferInv'
  BY <1>11 DEF Create, AtStep, Refuse, memory, startUp, OfferInv
<1>12. ASSUME NEW r \in RunIds, NEW parent \in RunIds, Review(r, parent)
      PROVE  OfferInv'
  BY <1>12 DEF Review, memory, creation, startUp, OfferInv
<1>13. ASSUME NEW e \in Executors, NEW r \in RunIds, ClaimRun(e, r)
      PROVE  OfferInv'
  BY <1>13 DEF ClaimRun, memory, creation, startUp, OfferInv
<1>14. ASSUME NEW e \in Executors, Open(e)
      PROVE  OfferInv'
  BY <1>14 DEF Open, memory, creation, startUp, OfferInv
<1>15. ASSUME NEW e \in Executors, OpenFails(e)
      PROVE  OfferInv'
  BY <1>15 DEF OpenFails, memory, creation, startUp, OfferInv
<1>16. ASSUME NEW e \in Executors, PredictCached(e)
      PROVE  OfferInv'
  BY <1>16 DEF PredictCached, WarmFor, PredictWith, creation, startUp, OfferInv
<1>17. ASSUME NEW e \in Executors, PredictLoaded(e)
      PROVE  OfferInv'
  BY <1>17 DEF PredictLoaded, WarmFor, PredictWith, New, Kept, creation,
    startUp, OfferInv
<1>18. ASSUME NEW e \in Executors, LoadRaises(e)
      PROVE  OfferInv'
  BY <1>18 DEF LoadRaises, WarmFor, MarkUnavailable, creation, startUp, OfferInv
<1>19. ASSUME NEW e \in Executors, PredictRaises(e)
      PROVE  OfferInv'
  BY <1>19 DEF PredictRaises, WarmFor, Kept, creation, startUp, OfferInv
<1>20. CASE Edit
  BY <1>20 DEF Edit, memory, creation, startUp, OfferInv
<1>21. CASE Tamper
  BY <1>21 DEF Tamper, memory, creation, startUp, OfferInv
<1>22. CASE Restart
  BY <1>22 DEF Restart, OfferInv
<1>23. ASSUME NEW p \in Parts, RegisterPart(p)
      PROVE  OfferInv'
  <2>1. \A c \in Creators : at'[c].step = "idle"
    BY <1>23, RegisterStep DEF StartInv
  <2>2. ready' => registered' \in offered'
    BY <1>23, RegisterStep DEF StartInv
  <2>3. QED
    BY <2>1, <2>2 DEF OfferInv
<1>24. QED
  BY <1>1, <1>2, <1>3, <1>4, <1>5, <1>6, <1>7, <1>8, <1>9, <1>10, <1>11,
    <1>12, <1>13, <1>14, <1>15, <1>16, <1>17, <1>18, <1>19, <1>20, <1>21,
    <1>22, <1>23 DEF BundleNext, Freezing, Predicting

\* What has been published stays published.
LEMMA PublishStep ==
  ASSUME BundleInv, StoreKeeps, [BundleNext]_bundleVars
  PROVE  PublishBundleInv'
<1> USE DataFacts DEF BundleInv, BundleTypeOK
<1>1. CASE UNCHANGED bundleVars
  BY <1>1 DEF bundleVars, memory, store, creation, PublishBundleInv, OfferInv,
    Stored, StoreKeeps
<1>2. ASSUME NEW c \in Creators, Validate(c)
      PROVE  PublishBundleInv'
  BY <1>2 DEF Validate, AtStep, Advance, memory, store, PublishBundleInv, OfferInv,
    Stored, StoreKeeps
<1>3. ASSUME NEW c \in Creators, ReadPart(c)
      PROVE  PublishBundleInv'
  <2>1. /\ UNCHANGED <<registered, snapshot, manifest>>
        /\ \A f \in Creators : f # c => at'[f] = at[f]
        /\ at'[c].step \in {"idle", "read"}
    BY <1>3, ReadPartStep
  <2>2. QED
    BY <2>1 DEF PublishBundleInv, Stored
<1>4. ASSUME NEW c \in Creators, CopyWeightsFails(c)
      PROVE  PublishBundleInv'
  BY <1>4 DEF CopyWeightsFails, AtStep, Refuse, MarkUnavailable, store,
    PublishBundleInv, OfferInv, Stored, StoreKeeps
<1>5. ASSUME NEW c \in Creators, CopyWeights(c)
      PROVE  PublishBundleInv'
  BY <1>5 DEF CopyWeights, AtStep, Advance, PublishedPart, memory, PublishBundleInv,
    OfferInv, Stored, StoreKeeps
<1>6. ASSUME NEW c \in Creators, Compare(c)
      PROVE  PublishBundleInv'
  <2>1. \A p \in Parts : ~ (p < 1)
    BY BundleAssumptions DEF BundleAssumptions, Parts
  <2>2. /\ UNCHANGED <<registered, snapshot, manifest>>
        /\ \A f \in Creators : f # c => at'[f] = at[f]
        /\ at[c].step = "compare"
        /\ \/ at'[c].step = "idle"
           \/ at'[c].step = "publish" /\ at'[c].part = 1
    BY <1>6, CompareStep
  <2>3. snapshot[Weights][registered[Weights]] # "absent"
    BY <2>2 DEF PublishBundleInv
  <2>4. ASSUME NEW f \in Creators
        PROVE  /\ at'[f].step \in {"compare", "publish"} =>
                    snapshot[Weights][registered[Weights]] # "absent"
               /\ at'[f].step = "publish" =>
                    \A p \in Parts :
                      p < at'[f].part => snapshot[p][registered[p]] # "absent"
               /\ at'[f].step \in {"open", "insert"} => Stored(registered)
    <3>1. CASE f = c
      BY <2>1, <2>2, <2>3, <3>1
    <3>2. CASE f # c
      BY <2>2, <3>2 DEF PublishBundleInv
    <3>3. QED
      BY <3>1, <3>2
  <2>5. QED
    BY <2>2, <2>4 DEF PublishBundleInv, Stored
<1>7. ASSUME NEW c \in Creators, PublishPart(c)
      PROVE  PublishBundleInv'
  <2> DEFINE p == at[c].part
             d == registered[p]
  <2>1. /\ p \in Parts /\ p + 1 \in Parts /\ bytes[c] = registered
        /\ registered \in Bundles /\ d \in Digests
    BY <1>7 DEF PublishPart, AtStep, OfferInv
  <2>2. snapshot'[p][d] # "absent"
    BY <1>7, <2>1 DEF PublishPart, PublishedPart
  <2>3. /\ registered' = registered
        /\ at' = [at EXCEPT ![c] = [step |-> "publish", part |-> p + 1]]
        /\ at[c].step = "publish"
    BY <1>7 DEF PublishPart, AtStep, Advance, memory
  <2>4. \A f \in Creators :
          /\ at[f].step \in {"compare", "publish"} =>
               registered[Weights] \in Digests
          /\ at[f].step \in {"open", "insert"} => Stored(registered)'
    <3>1. Stored(registered) => Stored(registered)'
      BY <2>1, <2>3, StoredStays DEF Stored
    <3>2. QED
      BY <2>1, <3>1 DEF PublishBundleInv
  <2>5. \A q \in Parts : q < p + 1 => q < p \/ q = p
    BY <2>1, BundleAssumptions DEF BundleAssumptions, Parts
  <2>6. ASSUME NEW f \in Creators, f # c
        PROVE  /\ at'[f] = at[f]
               /\ at[f].step \in {"compare", "publish"} =>
                    snapshot'[Weights][registered[Weights]] # "absent"
               /\ at[f].step = "publish" => \A q \in Parts :
                    q < at[f].part => snapshot'[q][registered[q]] # "absent"
    BY <2>1, <2>3, <2>6 DEF PublishBundleInv, StoreKeeps
  <2>7. /\ snapshot'[Weights][registered[Weights]] # "absent"
        /\ \A q \in Parts : q < p + 1 => snapshot'[q][registered[q]] # "absent"
    BY <2>1, <2>2, <2>3, <2>5 DEF PublishBundleInv, StoreKeeps
  <2>8. at'[c].step = "publish" /\ at'[c].part = p + 1
    BY <2>3
  <2>9. QED
    BY <2>3, <2>4, <2>6, <2>7, <2>8 DEF PublishBundleInv, Stored
<1>8. ASSUME NEW c \in Creators, PublishManifest(c)
      PROVE  PublishBundleInv'
  <2>1. bytes[c] = registered /\ registered \in Bundles
    BY <1>8 DEF PublishManifest, AtStep, OfferInv
  <2>2. /\ registered' = registered /\ snapshot' = snapshot
        /\ at' = [at EXCEPT ![c] = [step |-> "open", part |-> 1]]
        /\ at[c].step = "publish" /\ at[c].part = Weights
        /\ manifest' = [manifest EXCEPT ![registered] = "whole"]
    BY <1>8, <2>1 DEF PublishManifest, AtStep, Advance, memory
  <2>3. \A p \in Parts : p < Weights \/ p = Weights
    BY BundleAssumptions DEF BundleAssumptions, Parts, Weights
  <2>4. \A p \in Parts : snapshot[p][registered[p]] # "absent"
    BY <2>2, <2>3 DEF PublishBundleInv
  <2>5. Stored(registered)'
    BY <2>1, <2>2, <2>4 DEF Stored
  <2>6. \A f \in Creators : f # c => at'[f] = at[f]
    BY <2>2
  <2>7. at'[c].step = "open"
    BY <2>2
  <2>8. QED
    BY <2>2, <2>5, <2>6, <2>7 DEF PublishBundleInv
<1>9. ASSUME NEW c \in Creators, PublishFails(c)
      PROVE  PublishBundleInv'
  BY <1>9 DEF PublishFails, AtStep, Refuse, memory, store, PublishBundleInv, OfferInv,
    Stored, StoreKeeps
<1>10. ASSUME NEW c \in Creators, OpenFrozen(c)
      PROVE  PublishBundleInv'
  BY <1>10 DEF OpenFrozen, AtStep, Advance, Refuse, memory, store, PublishBundleInv,
    OfferInv, Stored, StoreKeeps
<1>11. ASSUME NEW c \in Creators, NEW r \in RunIds, Create(c, r)
      PROVE  PublishBundleInv'
  BY <1>11 DEF Create, AtStep, Refuse, memory, store, PublishBundleInv, OfferInv,
    Stored, StoreKeeps
<1>12. ASSUME NEW r \in RunIds, NEW parent \in RunIds, Review(r, parent)
      PROVE  PublishBundleInv'
  BY <1>12 DEF Review, memory, store, creation, PublishBundleInv, OfferInv, Stored,
    StoreKeeps
<1>13. ASSUME NEW e \in Executors, NEW r \in RunIds, ClaimRun(e, r)
      PROVE  PublishBundleInv'
  BY <1>13 DEF ClaimRun, memory, store, creation, PublishBundleInv, OfferInv, Stored,
    StoreKeeps
<1>14. ASSUME NEW e \in Executors, Open(e)
      PROVE  PublishBundleInv'
  BY <1>14 DEF Open, memory, store, creation, PublishBundleInv, OfferInv, Stored,
    StoreKeeps
<1>15. ASSUME NEW e \in Executors, OpenFails(e)
      PROVE  PublishBundleInv'
  BY <1>15 DEF OpenFails, memory, store, creation, PublishBundleInv, OfferInv,
    Stored, StoreKeeps
<1>16. ASSUME NEW e \in Executors, PredictCached(e)
      PROVE  PublishBundleInv'
  BY <1>16 DEF PredictCached, WarmFor, PredictWith, store, creation,
    PublishBundleInv, OfferInv, Stored, StoreKeeps
<1>17. ASSUME NEW e \in Executors, PredictLoaded(e)
      PROVE  PublishBundleInv'
  BY <1>17 DEF PredictLoaded, WarmFor, PredictWith, New, Kept, store,
    creation, PublishBundleInv, OfferInv, Stored, StoreKeeps
<1>18. ASSUME NEW e \in Executors, LoadRaises(e)
      PROVE  PublishBundleInv'
  BY <1>18 DEF LoadRaises, WarmFor, MarkUnavailable, store, creation,
    PublishBundleInv, OfferInv, Stored, StoreKeeps
<1>19. ASSUME NEW e \in Executors, PredictRaises(e)
      PROVE  PublishBundleInv'
  BY <1>19 DEF PredictRaises, WarmFor, Kept, store, creation, PublishBundleInv,
    OfferInv, Stored, StoreKeeps
<1>20. CASE Edit
  BY <1>20 DEF Edit, memory, store, creation, PublishBundleInv, OfferInv, Stored,
    StoreKeeps
<1>21. CASE Tamper
  BY <1>21 DEF Tamper, memory, creation, PublishBundleInv, OfferInv, Stored,
    StoreKeeps
<1>22. CASE Restart
  BY <1>22 DEF Restart, store, PublishBundleInv, OfferInv,
    Stored, StoreKeeps
<1>23. ASSUME NEW p \in Parts, RegisterPart(p)
      PROVE  PublishBundleInv'
  <2>1. \A c \in Creators : at'[c].step = "idle"
    BY <1>23, RegisterStep DEF StartInv
  <2>2. QED
    BY <2>1 DEF PublishBundleInv
<1>24. QED
  BY <1>1, <1>2, <1>3, <1>4, <1>5, <1>6, <1>7, <1>8, <1>9, <1>10, <1>11,
    <1>12, <1>13, <1>14, <1>15, <1>16, <1>17, <1>18, <1>19, <1>20, <1>21,
    <1>22, <1>23 DEF BundleNext, Freezing, Predicting

\* The rows agree with each other and with the store.
LEMMA RunStep ==
  ASSUME BundleInv, StoreKeeps, [BundleNext]_bundleVars
  PROVE  RunInv'
<1> USE DataFacts, StoredStays DEF BundleInv, BundleTypeOK
<1>1. CASE UNCHANGED bundleVars
  BY <1>1 DEF bundleVars, store, runs, startUp, RunInv
<1>2. ASSUME NEW c \in Creators, Validate(c)
      PROVE  RunInv'
  BY <1>2 DEF Validate, store, runs, startUp, RunInv
<1>3. ASSUME NEW c \in Creators, ReadPart(c)
      PROVE  RunInv'
  BY <1>3 DEF ReadPart, store, runs, startUp, RunInv
<1>4. ASSUME NEW c \in Creators, CopyWeightsFails(c)
      PROVE  RunInv'
  BY <1>4 DEF CopyWeightsFails, store, runs, startUp, RunInv
<1>5. ASSUME NEW c \in Creators, CopyWeights(c)
      PROVE  RunInv'
  BY <1>5 DEF CopyWeights, PublishedPart, runs, startUp, RunInv
<1>6. ASSUME NEW c \in Creators, Compare(c)
      PROVE  RunInv'
  BY <1>6 DEF Compare, store, runs, startUp, RunInv
<1>7. ASSUME NEW c \in Creators, PublishPart(c)
      PROVE  RunInv'
  BY <1>7 DEF PublishPart, PublishedPart, runs, startUp, RunInv
<1>8. ASSUME NEW c \in Creators, PublishManifest(c)
      PROVE  RunInv'
  BY <1>8 DEF PublishManifest, runs, startUp, RunInv
<1>9. ASSUME NEW c \in Creators, PublishFails(c)
      PROVE  RunInv'
  BY <1>9 DEF PublishFails, store, runs, startUp, RunInv
<1>10. ASSUME NEW c \in Creators, OpenFrozen(c)
      PROVE  RunInv'
  BY <1>10 DEF OpenFrozen, store, runs, startUp, RunInv
<1>11. ASSUME NEW c \in Creators, NEW r \in RunIds, Create(c, r)
      PROVE  RunInv'
  <2>1. bytes[c] = registered /\ registered \in Bundles \cap offered
    BY <1>11 DEF Create, AtStep, OfferInv
  <2>2. Stored(registered)
    BY <1>11 DEF Create, AtStep, PublishBundleInv
  <2>3. /\ stage' = [stage EXCEPT ![r] = "queued"]
        /\ bundle' = [bundle EXCEPT ![r] = registered]
        /\ UNCHANGED <<used, offered, snapshot, manifest>>
        /\ used[r] = Null
    BY <1>11, <2>1 DEF Create, store, startUp, RunInv
  <2>4. bundle'[r] = registered /\ stage'[r] = "queued"
    BY <2>3
  <2>5. ASSUME NEW s \in RunIds, s # r
        PROVE  /\ stage'[s] = stage[s] /\ bundle'[s] = bundle[s]
               /\ Stored(bundle[s]) => Stored(bundle[s])'
    BY <2>3, <2>5 DEF Stored
  <2>6. QED
    BY <2>1, <2>2, <2>3, <2>4, <2>5 DEF RunInv, Stored
<1>12. ASSUME NEW r \in RunIds, NEW parent \in RunIds, Review(r, parent)
      PROVE  RunInv'
  BY <1>12 DEF Review, store, startUp, RunInv
<1>13. ASSUME NEW e \in Executors, NEW r \in RunIds, ClaimRun(e, r)
      PROVE  RunInv'
  BY <1>13 DEF ClaimRun, store, startUp, RunInv
<1>14. ASSUME NEW e \in Executors, Open(e)
      PROVE  RunInv'
  BY <1>14 DEF Open, store, runs, startUp, RunInv
<1>15. ASSUME NEW e \in Executors, OpenFails(e)
      PROVE  RunInv'
  <2>1. doing[e] \in RunIds /\ stage[doing[e]] = "active"
    BY <1>15 DEF OpenFails, Opening, ExecuteInv
  <2>2. bundle[doing[e]] # Null /\ used[doing[e]] = Null
    BY <2>1 DEF RunInv
  <2>3. QED
    BY <1>15, <2>1, <2>2 DEF OpenFails, EndRun, store, startUp, RunInv
<1>16. ASSUME NEW e \in Executors, PredictCached(e)
      PROVE  RunInv'
  <2>1. doing[e] \in RunIds /\ stage[doing[e]] = "active"
    BY <1>16 DEF PredictCached, Holding, ExecuteInv
  <2>2. bundle[doing[e]] # Null /\ used[doing[e]] = Null
    BY <2>1 DEF RunInv
  <2>3. QED
    BY <1>16, <2>1, <2>2
      DEF PredictCached, PredictWith, EndRun, store, startUp, RunInv
<1>17. ASSUME NEW e \in Executors, PredictLoaded(e)
      PROVE  RunInv'
  <2>1. doing[e] \in RunIds /\ stage[doing[e]] = "active"
    BY <1>17 DEF PredictLoaded, Holding, ExecuteInv
  <2>2. bundle[doing[e]] # Null /\ used[doing[e]] = Null
    BY <2>1 DEF RunInv
  <2>3. QED
    BY <1>17, <2>1, <2>2
      DEF PredictLoaded, PredictWith, EndRun, store, startUp, RunInv
<1>18. ASSUME NEW e \in Executors, LoadRaises(e)
      PROVE  RunInv'
  <2>1. doing[e] \in RunIds /\ stage[doing[e]] = "active"
    BY <1>18 DEF LoadRaises, Holding, ExecuteInv
  <2>2. bundle[doing[e]] # Null /\ used[doing[e]] = Null
    BY <2>1 DEF RunInv
  <2>3. QED
    BY <1>18, <2>1, <2>2 DEF LoadRaises, EndRun, store, startUp, RunInv
<1>19. ASSUME NEW e \in Executors, PredictRaises(e)
      PROVE  RunInv'
  <2>1. doing[e] \in RunIds /\ stage[doing[e]] = "active"
    BY <1>19 DEF PredictRaises, Holding, ExecuteInv
  <2>2. bundle[doing[e]] # Null /\ used[doing[e]] = Null
    BY <2>1 DEF RunInv
  <2>3. QED
    BY <1>19, <2>1, <2>2 DEF PredictRaises, EndRun, store, startUp, RunInv
<1>20. CASE Edit
  BY <1>20 DEF Edit, store, runs, startUp, RunInv
<1>21. CASE Tamper
  BY <1>21 DEF Tamper, runs, startUp, RunInv
<1>22. CASE Restart
  BY <1>22 DEF Restart, store, RunInv
<1>23. ASSUME NEW p \in Parts, RegisterPart(p)
      PROVE  RunInv'
  <2>1. offered \subseteq offered'
    BY <1>23, RegisterStep
  <2>2. QED
    BY <1>23, <2>1, RegisterStep DEF RunInv
<1>24. QED
  BY <1>1, <1>2, <1>3, <1>4, <1>5, <1>6, <1>7, <1>8, <1>9, <1>10, <1>11,
    <1>12, <1>13, <1>14, <1>15, <1>16, <1>17, <1>18, <1>19, <1>20, <1>21,
    <1>22, <1>23 DEF BundleNext, Freezing, Predicting

\* Workers hold what they have claimed.
LEMMA ExecuteStep ==
  ASSUME BundleInv, [BundleNext]_bundleVars
  PROVE  ExecuteInv'
<1> USE DataFacts DEF BundleInv, BundleTypeOK
<1>1. CASE UNCHANGED bundleVars
  BY <1>1 DEF bundleVars, runs, execution, ExecuteInv
<1>2. ASSUME NEW c \in Creators, Validate(c)
      PROVE  ExecuteInv'
  BY <1>2 DEF Validate, runs, execution, ExecuteInv
<1>3. ASSUME NEW c \in Creators, ReadPart(c)
      PROVE  ExecuteInv'
  BY <1>3 DEF ReadPart, runs, execution, ExecuteInv
<1>4. ASSUME NEW c \in Creators, CopyWeightsFails(c)
      PROVE  ExecuteInv'
  BY <1>4 DEF CopyWeightsFails, runs, execution, ExecuteInv
<1>5. ASSUME NEW c \in Creators, CopyWeights(c)
      PROVE  ExecuteInv'
  BY <1>5 DEF CopyWeights, runs, execution, ExecuteInv
<1>6. ASSUME NEW c \in Creators, Compare(c)
      PROVE  ExecuteInv'
  BY <1>6 DEF Compare, runs, execution, ExecuteInv
<1>7. ASSUME NEW c \in Creators, PublishPart(c)
      PROVE  ExecuteInv'
  BY <1>7 DEF PublishPart, runs, execution, ExecuteInv
<1>8. ASSUME NEW c \in Creators, PublishManifest(c)
      PROVE  ExecuteInv'
  BY <1>8 DEF PublishManifest, runs, execution, ExecuteInv
<1>9. ASSUME NEW c \in Creators, PublishFails(c)
      PROVE  ExecuteInv'
  BY <1>9 DEF PublishFails, runs, execution, ExecuteInv
<1>10. ASSUME NEW c \in Creators, OpenFrozen(c)
      PROVE  ExecuteInv'
  BY <1>10 DEF OpenFrozen, runs, execution, ExecuteInv
<1>11. ASSUME NEW c \in Creators, NEW r \in RunIds, Create(c, r)
      PROVE  ExecuteInv'
  BY <1>11 DEF Create, execution, ExecuteInv
<1>12. ASSUME NEW r \in RunIds, NEW parent \in RunIds, Review(r, parent)
      PROVE  ExecuteInv'
  BY <1>12 DEF Review, execution, ExecuteInv
<1>13. ASSUME NEW e \in Executors, NEW r \in RunIds, ClaimRun(e, r)
      PROVE  ExecuteInv'
  BY <1>13 DEF ClaimRun, ExecuteInv
<1>14. ASSUME NEW e \in Executors, Open(e)
      PROVE  ExecuteInv'
  BY <1>14 DEF Open, Opening, runs, ExecuteInv
<1>15. ASSUME NEW e \in Executors, OpenFails(e)
      PROVE  ExecuteInv'
  BY <1>15 DEF OpenFails, Opening, EndRun, ExecuteInv
<1>16. ASSUME NEW e \in Executors, PredictCached(e)
      PROVE  ExecuteInv'
  BY <1>16 DEF PredictCached, Holding, PredictWith, EndRun, ExecuteInv
<1>17. ASSUME NEW e \in Executors, PredictLoaded(e)
      PROVE  ExecuteInv'
  BY <1>17 DEF PredictLoaded, Holding, PredictWith, EndRun, ExecuteInv
<1>18. ASSUME NEW e \in Executors, LoadRaises(e)
      PROVE  ExecuteInv'
  BY <1>18 DEF LoadRaises, Holding, EndRun, ExecuteInv
<1>19. ASSUME NEW e \in Executors, PredictRaises(e)
      PROVE  ExecuteInv'
  BY <1>19 DEF PredictRaises, Holding, EndRun, ExecuteInv
<1>20. CASE Edit
  BY <1>20 DEF Edit, runs, execution, ExecuteInv
<1>21. CASE Tamper
  BY <1>21 DEF Tamper, runs, execution, ExecuteInv
<1>22. CASE Restart
  BY <1>22 DEF Restart, ExecuteInv
<1>23. ASSUME NEW p \in Parts, RegisterPart(p)
      PROVE  ExecuteInv'
  <2>1. UNCHANGED <<stage, bundle, doing, opened>>
    BY <1>23, RegisterStep
  <2>2. QED
    BY <2>1 DEF ExecuteInv
<1>24. QED
  BY <1>1, <1>2, <1>3, <1>4, <1>5, <1>6, <1>7, <1>8, <1>9, <1>10, <1>11,
    <1>12, <1>13, <1>14, <1>15, <1>16, <1>17, <1>18, <1>19, <1>20, <1>21,
    <1>22, <1>23 DEF BundleNext, Freezing, Predicting

\* The cache never holds one version under the key of another.
LEMMA WarmStep ==
  ASSUME BundleInv, [BundleNext]_bundleVars
  PROVE  WarmInv'
<1> USE DataFacts DEF BundleInv, BundleTypeOK
<1>1. CASE UNCHANGED bundleVars
  BY <1>1 DEF bundleVars, memory, WarmInv
<1>2. ASSUME NEW c \in Creators, Validate(c)
      PROVE  WarmInv'
  BY <1>2 DEF Validate, memory, WarmInv
<1>3. ASSUME NEW c \in Creators, ReadPart(c)
      PROVE  WarmInv'
  BY <1>3 DEF ReadPart, MarkUnavailable, memory, WarmInv
<1>4. ASSUME NEW c \in Creators, CopyWeightsFails(c)
      PROVE  WarmInv'
  BY <1>4 DEF CopyWeightsFails, MarkUnavailable, WarmInv
<1>5. ASSUME NEW c \in Creators, CopyWeights(c)
      PROVE  WarmInv'
  BY <1>5 DEF CopyWeights, memory, WarmInv
<1>6. ASSUME NEW c \in Creators, Compare(c)
      PROVE  WarmInv'
  BY <1>6 DEF Compare, MarkUnavailable, memory, WarmInv
<1>7. ASSUME NEW c \in Creators, PublishPart(c)
      PROVE  WarmInv'
  BY <1>7 DEF PublishPart, memory, WarmInv
<1>8. ASSUME NEW c \in Creators, PublishManifest(c)
      PROVE  WarmInv'
  BY <1>8 DEF PublishManifest, memory, WarmInv
<1>9. ASSUME NEW c \in Creators, PublishFails(c)
      PROVE  WarmInv'
  BY <1>9 DEF PublishFails, memory, WarmInv
<1>10. ASSUME NEW c \in Creators, OpenFrozen(c)
      PROVE  WarmInv'
  BY <1>10 DEF OpenFrozen, memory, WarmInv
<1>11. ASSUME NEW c \in Creators, NEW r \in RunIds, Create(c, r)
      PROVE  WarmInv'
  BY <1>11 DEF Create, memory, WarmInv
<1>12. ASSUME NEW r \in RunIds, NEW parent \in RunIds, Review(r, parent)
      PROVE  WarmInv'
  BY <1>12 DEF Review, memory, WarmInv
<1>13. ASSUME NEW e \in Executors, NEW r \in RunIds, ClaimRun(e, r)
      PROVE  WarmInv'
  BY <1>13 DEF ClaimRun, memory, WarmInv
<1>14. ASSUME NEW e \in Executors, Open(e)
      PROVE  WarmInv'
  BY <1>14 DEF Open, memory, WarmInv
<1>15. ASSUME NEW e \in Executors, OpenFails(e)
      PROVE  WarmInv'
  BY <1>15 DEF OpenFails, memory, WarmInv
<1>16. ASSUME NEW e \in Executors, PredictCached(e)
      PROVE  WarmInv'
  BY <1>16 DEF PredictCached, WarmFor, PredictWith, WarmInv
<1>17. ASSUME NEW e \in Executors, PredictLoaded(e)
      PROVE  WarmInv'
  BY <1>17 DEF PredictLoaded, WarmFor, PredictWith, New, Kept, WarmInv
<1>18. ASSUME NEW e \in Executors, LoadRaises(e)
      PROVE  WarmInv'
  BY <1>18 DEF LoadRaises, WarmFor, MarkUnavailable, WarmInv
<1>19. ASSUME NEW e \in Executors, PredictRaises(e)
      PROVE  WarmInv'
  BY <1>19 DEF PredictRaises, WarmFor, Kept, WarmInv
<1>20. CASE Edit
  BY <1>20 DEF Edit, memory, WarmInv
<1>21. CASE Tamper
  BY <1>21 DEF Tamper, memory, WarmInv
<1>22. CASE Restart
  BY <1>22 DEF Restart, WarmInv
<1>23. ASSUME NEW p \in Parts, RegisterPart(p)
      PROVE  WarmInv'
  BY <1>23, RegisterStep DEF WarmInv
<1>24. QED
  BY <1>1, <1>2, <1>3, <1>4, <1>5, <1>6, <1>7, <1>8, <1>9, <1>10, <1>11,
    <1>12, <1>13, <1>14, <1>15, <1>16, <1>17, <1>18, <1>19, <1>20, <1>21,
    <1>22, <1>23 DEF BundleNext, Freezing, Predicting

\* Publishing never leaves half of a file.
LEMMA WholeStep ==
  ASSUME BundleInv, [BundleNext]_bundleVars
  PROVE  WholeInv'
<1> USE DataFacts DEF BundleInv, BundleTypeOK
<1>1. CASE UNCHANGED bundleVars
  BY <1>1 DEF bundleVars, store, counted, WholeInv
<1>2. ASSUME NEW c \in Creators, Validate(c)
      PROVE  WholeInv'
  BY <1>2 DEF Validate, store, counted, WholeInv
<1>3. ASSUME NEW c \in Creators, ReadPart(c)
      PROVE  WholeInv'
  BY <1>3 DEF ReadPart, store, counted, WholeInv
<1>4. ASSUME NEW c \in Creators, CopyWeightsFails(c)
      PROVE  WholeInv'
  BY <1>4 DEF CopyWeightsFails, store, counted, WholeInv
<1>5. ASSUME NEW c \in Creators, CopyWeights(c)
      PROVE  WholeInv'
  BY <1>5 DEF CopyWeights, PublishedPart, counted, WholeInv
<1>6. ASSUME NEW c \in Creators, Compare(c)
      PROVE  WholeInv'
  BY <1>6 DEF Compare, store, counted, WholeInv
<1>7. ASSUME NEW c \in Creators, PublishPart(c)
      PROVE  WholeInv'
  <2>1. /\ at[c].part \in Parts /\ UNCHANGED manifest /\ tampers' = tampers
        /\ PublishedPart(at[c].part, bytes[c][at[c].part])
    BY <1>7 DEF PublishPart, counted
  <2>2. \A q \in Parts, e \in Digests :
          snapshot'[q][e] = snapshot[q][e] \/ snapshot'[q][e] = "whole"
    BY <2>1, PublishedFiles
  <2>3. WholeInv
    BY DEF BundleInv
  <2> QED
    BY ONLY <2>1, <2>2, <2>3 DEF WholeInv
<1>8. ASSUME NEW c \in Creators, PublishManifest(c)
      PROVE  WholeInv'
  BY <1>8 DEF PublishManifest, counted, WholeInv
<1>9. ASSUME NEW c \in Creators, PublishFails(c)
      PROVE  WholeInv'
  BY <1>9 DEF PublishFails, store, counted, WholeInv
<1>10. ASSUME NEW c \in Creators, OpenFrozen(c)
      PROVE  WholeInv'
  BY <1>10 DEF OpenFrozen, store, counted, WholeInv
<1>11. ASSUME NEW c \in Creators, NEW r \in RunIds, Create(c, r)
      PROVE  WholeInv'
  BY <1>11 DEF Create, store, counted, WholeInv
<1>12. ASSUME NEW r \in RunIds, NEW parent \in RunIds, Review(r, parent)
      PROVE  WholeInv'
  BY <1>12 DEF Review, store, counted, WholeInv
<1>13. ASSUME NEW e \in Executors, NEW r \in RunIds, ClaimRun(e, r)
      PROVE  WholeInv'
  BY <1>13 DEF ClaimRun, store, counted, WholeInv
<1>14. ASSUME NEW e \in Executors, Open(e)
      PROVE  WholeInv'
  BY <1>14 DEF Open, store, counted, WholeInv
<1>15. ASSUME NEW e \in Executors, OpenFails(e)
      PROVE  WholeInv'
  BY <1>15 DEF OpenFails, store, counted, WholeInv
<1>16. ASSUME NEW e \in Executors, PredictCached(e)
      PROVE  WholeInv'
  BY <1>16 DEF PredictCached, PredictWith, store, counted, WholeInv
<1>17. ASSUME NEW e \in Executors, PredictLoaded(e)
      PROVE  WholeInv'
  BY <1>17 DEF PredictLoaded, PredictWith, store, counted, WholeInv
<1>18. ASSUME NEW e \in Executors, LoadRaises(e)
      PROVE  WholeInv'
  BY <1>18 DEF LoadRaises, store, counted, WholeInv
<1>19. ASSUME NEW e \in Executors, PredictRaises(e)
      PROVE  WholeInv'
  BY <1>19 DEF PredictRaises, store, counted, WholeInv
<1>20. CASE Edit
  BY <1>20 DEF Edit, store, WholeInv
<1>21. CASE Tamper
  BY <1>21 DEF Tamper, WholeInv
<1>22. CASE Restart
  BY <1>22 DEF Restart, store, WholeInv
<1>23. ASSUME NEW p \in Parts, RegisterPart(p)
      PROVE  WholeInv'
  BY <1>23, RegisterStep DEF WholeInv
<1>24. QED
  BY <1>1, <1>2, <1>3, <1>4, <1>5, <1>6, <1>7, <1>8, <1>9, <1>10, <1>11,
    <1>12, <1>13, <1>14, <1>15, <1>16, <1>17, <1>18, <1>19, <1>20, <1>21,
    <1>22, <1>23 DEF BundleNext, Freezing, Predicting

-----------------------------------------------------------------------------
(* The theorems.                                                           *)

\* The invariant holds when the service starts with an empty store.
LEMMA InitBundle == BundleInit => BundleInv
<1> SUFFICES ASSUME BundleInit
             PROVE  BundleInv
  OBVIOUS
<1> USE DataFacts DEF BundleInit
<1>1. /\ source \in [Parts -> Contents] /\ registered \in [Parts -> Contents]
      /\ seen \in [Parts -> SUBSET Contents] /\ reads \in 0..LastPart
  BY TurnFacts DEF Declared
<1>2. StartInv
  <2>1. \A p \in Parts : ~ (Turn(p) <= 0)
    BY TurnFacts
  <2>2. QED
    BY <2>1 DEF StartInv
<1>3. BundleTypeOK
  BY <1>1 DEF BundleTypeOK, Stages, Adapters, FileStates
<1>4. OfferInv
  BY DEF OfferInv
<1>5. PublishBundleInv /\ ExecuteInv
  BY DEF PublishBundleInv, ExecuteInv
<1>6. RunInv /\ WarmInv /\ WholeInv
  BY DEF RunInv, WarmInv, WholeInv
<1>7. QED
  BY <1>2, <1>3, <1>4, <1>5, <1>6 DEF BundleInv

\* The inductive invariant holds in every reachable state.
THEOREM BundleCorrect == BundleSpec => []BundleInv
<1>1. BundleInv /\ [BundleNext]_bundleVars => BundleInv'
  <2> SUFFICES ASSUME BundleInv, [BundleNext]_bundleVars
               PROVE  BundleInv'
    OBVIOUS
  <2>1. BundleTypeOK'
    BY TypeStep
  <2>2. StoreKeeps
    BY StoreStep
  <2>3. OfferInv'
    BY OfferStep
  <2>4. PublishBundleInv'
    BY <2>2, PublishStep
  <2>5. RunInv'
    BY <2>2, RunStep
  <2>6. ExecuteInv' /\ WarmInv' /\ WholeInv'
    BY ExecuteStep, WarmStep, WholeStep
  <2>7. StartInv'
    BY StartStep
  <2>8. QED
    BY <2>1, <2>3, <2>4, <2>5, <2>6, <2>7 DEF BundleInv
<1>2. QED
  BY InitBundle, <1>1, PTL DEF BundleSpec

\* validate_bundle and create_runs: the files and the manifest that an accepted
\* run refers to are in the store, and the store never offers half of a file.
THEOREM FrozenTheorem == BundleSpec => []FrozenIsWhole
<1>1. BundleInv => FrozenIsWhole
  BY DEF BundleInv, RunInv, WholeInv, Stored, FrozenIsWhole
<1>2. QED
  BY BundleCorrect, <1>1, PTL

\* Every step is a step of the promise, or changes nothing that it speaks of.
LEMMA PromiseStep ==
  ASSUME BundleInv, [BundleNext]_bundleVars
  PROVE  [Promise!Next]_(Promise!promised)
<1> USE DataFacts DEF BundleInv, BundleTypeOK
<1>1. CASE UNCHANGED bundleVars
  BY <1>1 DEF bundleVars, runs, startUp, Starting, Promise!promised, Promise!files
<1>2. ASSUME NEW c \in Creators, Validate(c)
      PROVE  [Promise!Next]_(Promise!promised)
  BY <1>2 DEF Validate, runs, Promise!promised, Promise!files, startUp, Starting
<1>3. ASSUME NEW c \in Creators, ReadPart(c)
      PROVE  [Promise!Next]_(Promise!promised)
  BY <1>3 DEF ReadPart, runs, Promise!promised, Promise!files, startUp, Starting
<1>4. ASSUME NEW c \in Creators, CopyWeightsFails(c)
      PROVE  [Promise!Next]_(Promise!promised)
  BY <1>4
    DEF CopyWeightsFails, runs, Promise!promised, Promise!files, startUp, Starting
<1>5. ASSUME NEW c \in Creators, CopyWeights(c)
      PROVE  [Promise!Next]_(Promise!promised)
  BY <1>5 DEF CopyWeights, runs, Promise!promised, Promise!files, startUp, Starting
<1>6. ASSUME NEW c \in Creators, Compare(c)
      PROVE  [Promise!Next]_(Promise!promised)
  BY <1>6 DEF Compare, runs, Promise!promised, Promise!files, startUp, Starting
<1>7. ASSUME NEW c \in Creators, PublishPart(c)
      PROVE  [Promise!Next]_(Promise!promised)
  BY <1>7 DEF PublishPart, runs, Promise!promised, Promise!files, startUp, Starting
<1>8. ASSUME NEW c \in Creators, PublishManifest(c)
      PROVE  [Promise!Next]_(Promise!promised)
  BY <1>8
    DEF PublishManifest, runs, Promise!promised, Promise!files, startUp, Starting
<1>9. ASSUME NEW c \in Creators, PublishFails(c)
      PROVE  [Promise!Next]_(Promise!promised)
  BY <1>9 DEF PublishFails, runs, Promise!promised, Promise!files, startUp, Starting
<1>10. ASSUME NEW c \in Creators, OpenFrozen(c)
      PROVE  [Promise!Next]_(Promise!promised)
  BY <1>10 DEF OpenFrozen, runs, Promise!promised, Promise!files, startUp, Starting
<1>11. ASSUME NEW c \in Creators, NEW r \in RunIds, Create(c, r)
      PROVE  [Promise!Next]_(Promise!promised)
  <2>1. bytes[c] \in offered /\ bundle[r] = Null
    BY <1>11 DEF Create, AtStep, OfferInv, RunInv
  <2>2. Promise!Accept(r)
    BY <1>11, <2>1 DEF Create, Promise!Accept, Promise!files, startUp, Starting
  <2>3. QED
    BY <2>2 DEF Promise!Next
<1>12. ASSUME NEW r \in RunIds, NEW parent \in RunIds, Review(r, parent)
      PROVE  [Promise!Next]_(Promise!promised)
  <2>1. bundle[parent] \in offered /\ bundle[r] = Null
    BY <1>12 DEF Review, RunInv
  <2>2. Promise!Accept(r)
    BY <1>12, <2>1 DEF Review, Promise!Accept, Promise!files, startUp, Starting
  <2>3. QED
    BY <2>2 DEF Promise!Next
<1>13. ASSUME NEW e \in Executors, NEW r \in RunIds, ClaimRun(e, r)
      PROVE  [Promise!Next]_(Promise!promised)
  BY <1>13 DEF ClaimRun, Promise!promised, Promise!files, startUp, Starting
<1>14. ASSUME NEW e \in Executors, Open(e)
      PROVE  [Promise!Next]_(Promise!promised)
  BY <1>14 DEF Open, runs, Promise!promised, Promise!files, startUp, Starting
<1>15. ASSUME NEW e \in Executors, OpenFails(e)
      PROVE  [Promise!Next]_(Promise!promised)
  BY <1>15 DEF OpenFails, EndRun, Promise!promised, Promise!files, startUp, Starting
<1>16. ASSUME NEW e \in Executors, PredictCached(e)
      PROVE  [Promise!Next]_(Promise!promised)
  <2>1. doing[e] \in RunIds /\ stage[doing[e]] = "active"
    BY <1>16 DEF PredictCached, Holding, ExecuteInv
  <2>2. bundle[doing[e]] # Null /\ used[doing[e]] = Null
    BY <2>1 DEF RunInv
  <2>3. used' = [used EXCEPT ![doing[e]] = bundle[doing[e]]]
    BY <1>16
      DEF PredictCached, Holding, WarmFor, New, PredictWith, ExecuteInv, WarmInv
  <2>4. UNCHANGED <<reads, seen, offered, bundle>>
    BY <1>16 DEF PredictCached, PredictWith, startUp
  <2>5. Promise!Predict(doing[e])
    BY <2>2, <2>3, <2>4 DEF Promise!Predict, Promise!files, Starting
  <2>6. QED
    BY <2>1, <2>5 DEF Promise!Next
<1>17. ASSUME NEW e \in Executors, PredictLoaded(e)
      PROVE  [Promise!Next]_(Promise!promised)
  <2>1. doing[e] \in RunIds /\ stage[doing[e]] = "active"
    BY <1>17 DEF PredictLoaded, Holding, ExecuteInv
  <2>2. bundle[doing[e]] # Null /\ used[doing[e]] = Null
    BY <2>1 DEF RunInv
  <2>3. used' = [used EXCEPT ![doing[e]] = bundle[doing[e]]]
    BY <1>17
      DEF PredictLoaded, Holding, WarmFor, New, PredictWith, ExecuteInv, WarmInv
  <2>4. UNCHANGED <<reads, seen, offered, bundle>>
    BY <1>17 DEF PredictLoaded, PredictWith, startUp
  <2>5. Promise!Predict(doing[e])
    BY <2>2, <2>3, <2>4 DEF Promise!Predict, Promise!files, Starting
  <2>6. QED
    BY <2>1, <2>5 DEF Promise!Next
<1>18. ASSUME NEW e \in Executors, LoadRaises(e)
      PROVE  [Promise!Next]_(Promise!promised)
  BY <1>18 DEF LoadRaises, EndRun, Promise!promised, Promise!files, startUp, Starting
<1>19. ASSUME NEW e \in Executors, PredictRaises(e)
      PROVE  [Promise!Next]_(Promise!promised)
  BY <1>19
    DEF PredictRaises, EndRun, Promise!promised, Promise!files, startUp, Starting
<1>20. CASE Edit
  <2>1. UNCHANGED <<reads, offered, bundle, used>>
    BY <1>20 DEF Edit, runs
  <2>2. CASE UNCHANGED seen
    BY <2>1, <2>2 DEF Starting, Promise!promised, Promise!files
  <2>3. CASE seen' # seen
    <3>1. Starting
      BY <1>20, <2>3 DEF Edit
    <3>2. PICK p \in Parts, d \in Contents : seen' = [seen EXCEPT ![p] = @ \cup {d}]
      BY <1>20, <2>3, <3>1 DEF Edit
    <3>3. Promise!Change(p)
      BY <2>1, <3>1, <3>2 DEF Promise!Change, Starting, Contents
    <3>4. QED
      BY <3>3 DEF Promise!Next
  <2>4. QED
    BY <2>2, <2>3
<1>21. CASE Tamper
  BY <1>21 DEF Tamper, runs, startUp, Starting, Promise!promised, Promise!files
<1>22. CASE Restart
  <2>1. (reads' < LastPart) = TRUE
    BY <1>22, TurnFacts DEF Restart
  <2>2. seen' \in Promise!Found
    BY <1>22 DEF Restart, Promise!Found, Contents
  <2>3. Promise!StartUp
    BY <1>22, <2>1, <2>2 DEF Restart, Promise!StartUp, Starting
  <2>4. QED
    BY <2>3 DEF Promise!Next
<1>23. ASSUME NEW p \in Parts, RegisterPart(p)
      PROVE  [Promise!Next]_(Promise!promised)
  <2>1. CASE p # Weights
    <3>1. (reads < LastPart) = TRUE /\ (reads' < LastPart) = TRUE
      <4>1. reads < LastPart /\ reads' = Turn(p)
        BY <1>23, RegisterStep DEF Starting
      <4>2. QED
        BY <2>1, <4>1, TurnFacts
    <3>2. UNCHANGED <<seen, offered, bundle, used>>
      BY <1>23, <2>1, RegisterStep
    <3>3. QED
      BY <3>1, <3>2 DEF Promise!promised, Promise!files, Starting
  <2>2. CASE p = Weights
    <3>1. Starting /\ (reads' < LastPart) = FALSE
      <4>1. Starting /\ reads' = LastPart
        BY <1>23, <2>2, RegisterStep, TurnFacts
      <4>2. QED
        BY <4>1, TurnFacts
    <3>2. UNCHANGED <<seen, bundle, used>>
      BY <1>23, RegisterStep
    <3>3. ASSUME ready'
          PROVE  registered \in Bundles /\ \A q \in Parts : registered[q] \in seen[q]
      <4>1. LastPart = reads + 1 /\ reads \in Nat
        <5>1. reads \in Nat
          BY TurnFacts DEF BundleTypeOK
        <5>2. QED
          BY <1>23, <2>2, <5>1, RegisterStep, TurnFacts
      <4>2. \A q \in Parts \ {Weights} : Turn(q) <= reads
        <5>1. \A q \in Parts \ {Weights} : Turn(q) \in Nat /\ Turn(q) < LastPart
          BY TurnFacts
        <5>2. QED
          BY <4>1, <5>1
      <4>3. registered \in Bundles /\ source[Weights] = registered[Weights]
        BY <1>23, <2>2, <3>3, RegisterStep
      <4>4. QED
        BY <3>1, <4>2, <4>3 DEF StartInv
    <3>4. \/ UNCHANGED offered
          \/ \E v \in Bundles : /\ \A q \in Parts : v[q] \in seen[q]
                                /\ offered' = offered \cup {v}
      BY <1>23, <2>2, <3>3, RegisterStep
    <3>5. Promise!Offer
      BY <3>1, <3>2, <3>4 DEF Promise!Offer, Promise!Versions, Bundles, Starting
    <3>6. QED
      BY <3>5 DEF Promise!Next
  <2>3. QED
    BY <2>1, <2>2
<1>24. QED
  BY <1>1, <1>2, <1>3, <1>4, <1>5, <1>6, <1>7, <1>8, <1>9, <1>10, <1>11,
    <1>12, <1>13, <1>14, <1>15, <1>16, <1>17, <1>18, <1>19, <1>20, <1>21,
    <1>22, <1>23 DEF BundleNext, Freezing, Predicting

\* Freezing a model implements FrozenModels.  What a start-up offers holds in each
\* part something that the part's file has held since the start-up began; a run is
\* accepted with one version that was offered, and predicts with that version only.
THEOREM PromiseTheorem == BundleSpec => KeepsPromise
<1>1. BundleInit => Promise!Init
  <2> SUFFICES ASSUME BundleInit
               PROVE  Promise!Init
    OBVIOUS
  <2>1. (reads < LastPart) = TRUE
    BY TurnFacts DEF BundleInit
  <2>2. source \in [Parts -> Digests \cup {Null}]
    BY DEF BundleInit
  <2>3. seen \in Promise!Found
    BY <2>2 DEF BundleInit, Promise!Found
  <2>4. QED
    BY <2>1, <2>3 DEF BundleInit, Promise!Init, Starting
<1>2. BundleInv /\ [BundleNext]_bundleVars => [Promise!Next]_(Promise!promised)
  BY PromiseStep
<1>3. QED
  BY BundleCorrect, <1>1, <1>2, PTL DEF BundleSpec, KeepsPromise, Promise!Spec

-----------------------------------------------------------------------------
(* QueryAudit: the inductive invariant.                                    *)

Snapshots == [ids : SUBSET Queries, selection : Selections \cup {"none"}]
MemberSets == [ids : SUBSET Queries, selection : Selections \cup {"none"},
               history : Seq(Queries), citations : Seq(Queries)]

\* Types, those of what an export holds included: it has read finitely many rows.
AuditShape ==
  /\ AuditTypeOK
  /\ IsFiniteSet(log)
  /\ summaries \in Snapshots
  /\ reading \in [Exports -> Snapshots]
  /\ \A e \in Exports : IsFiniteSet(reading[e].ids)
  /\ members \in [Exports -> MemberSets]

\* Each lock is held by whoever is inside.
LockedInv ==
  /\ \A q \in Queries : asking[q] \in WritingSteps => artifactLock = q
  /\ \A e \in Exports : exporting[e] \in ExportSteps \ {"read"} => exportLock = e

\* What an export has written and copied so far comes from its own reading.
OwnInv ==
  \A e \in Exports :
    /\ exporting[e] \in {"history", "citations", "copy", "copy citations", "publish"} =>
         summaries = reading[e]
    /\ exporting[e] \in {"copy citations", "publish"} => members[e].ids = reading[e].ids
    /\ exporting[e] = "publish" => members[e].selection = reading[e].selection

\* q has one line.
Once(q, lines) ==
  \E i \in DOMAIN lines : lines[i] = q /\ \A j \in DOMAIN lines : lines[j] = q => j = i

\* Before the first export, a file changes by the line of the query that holds
\* the lock only.
KeptFor(q) ==
  /\ asking[q] = "append" => asked[q] = history
  /\ asking[q] = "cite" => asked[q] = citations
  /\ asking[q] \in {"no", "committed", "history", "append"} => q \notin Ids(history)
  /\ asking[q] \in {"no", "committed"} \cup WritingSteps => q \notin Ids(citations)
  /\ asking[q] \in {"citations", "cite"} => Once(q, history)
  /\ asking[q] = "done" /\ q \notin degraded => Once(q, history) /\ Once(q, citations)

NoExportYet == \A e \in Exports : exporting[e] = "no"
KeptInv == NoExportYet => \A q \in Queries : KeptFor(q)

\* What an export without company has put into the files, and then copied.
RebuiltBy(e) ==
  /\ Working = {e}
  /\ exporting[e] \in {"citations", "copy"} => ListsOnce(reading[e].ids, history)
  /\ exporting[e] \in {"copy citations", "publish"} =>
       ListsOnce(reading[e].ids, members[e].history)
  /\ exporting[e] \in {"copy", "copy citations"} => ListsOnce(reading[e].ids, citations)
  /\ exporting[e] = "publish" => ListsOnce(reading[e].ids, members[e].citations)

RebuiltInv == \A e \in Exports : quiet[e] => RebuiltBy(e)

\* Whatever anybody writes down or has in hand comes from a committed row.
CommittedInv ==
  /\ Ids(history) \subseteq log /\ Ids(citations) \subseteq log /\ summaries.ids \subseteq log
  /\ \A q \in Queries : /\ Ids(asked[q]) \subseteq log
                        /\ asking[q] \in {"committed", "done"} \cup WritingSteps => q \in log
  /\ \A e \in Exports : /\ reading[e].ids \subseteq log /\ members[e].ids \subseteq log
                        /\ Ids(members[e].history) \subseteq log
                        /\ Ids(members[e].citations) \subseteq log

AuditInv ==
  /\ AuditShape /\ LockedInv /\ OwnInv /\ KeptInv /\ RebuiltInv
  /\ ArchiveIsOwn /\ QuietExportRebuilds

-----------------------------------------------------------------------------
(* Lines.                                                                  *)

\* Adding a line for p leaves every other query its lines.
LEMMA AppendedLine ==
  ASSUME NEW p \in Queries, NEW q \in Queries, NEW lines \in Seq(Queries)
  PROVE  /\ p # q /\ q \notin Ids(lines) => q \notin Ids(Append(lines, p))
         /\ p # q /\ Once(q, lines) => Once(q, Append(lines, p))
         /\ p = q /\ q \notin Ids(lines) => Once(q, Append(lines, p))
<1> DEFINE longer == Append(lines, p)
<1>1. /\ DOMAIN lines = 1..Len(lines) /\ DOMAIN longer = 1..(Len(lines) + 1)
      /\ Len(lines) \in Nat
      /\ \A i \in 1..Len(lines) : longer[i] = lines[i]
      /\ longer[Len(lines) + 1] = p
  OBVIOUS
<1>2. /\ DOMAIN longer = DOMAIN lines \cup {Len(lines) + 1}
      /\ Len(lines) + 1 \notin DOMAIN lines
  BY <1>1
<1> HIDE DEF longer
<1>3. \A i \in DOMAIN lines : longer[i] = lines[i]
  BY <1>1
<1>4. longer[Len(lines) + 1] = p
  BY <1>1
<1>5. p # q /\ q \notin Ids(lines) => q \notin Ids(longer)
  BY <1>2, <1>3, <1>4 DEF Ids
<1>6. p # q /\ Once(q, lines) => Once(q, longer)
  BY <1>2, <1>3, <1>4 DEF Once
<1>7. p = q /\ q \notin Ids(lines) => Once(q, longer)
  BY <1>2, <1>3, <1>4 DEF Once, Ids
<1> QED
  BY <1>5, <1>6, <1>7 DEF longer

LEMMA OnceIsOneTime ==
  ASSUME NEW q, NEW lines, Once(q, lines)
  PROVE  Times(q, lines) = 1
<1>1. PICK i \in DOMAIN lines : lines[i] = q /\ \A j \in DOMAIN lines : lines[j] = q => j = i
  BY DEF Once
<1>2. {j \in DOMAIN lines : lines[j] = q} = {i}
  BY <1>1
<1> QED
  BY <1>2, FS_Singleton DEF Times

\* The lines an export writes list the rows it has read, each once.
LEMMA WrittenLines ==
  ASSUME NEW S \in SUBSET Queries, IsFiniteSet(S), NEW lines \in LinesOf(S)
  PROVE  lines \in Seq(Queries) /\ ListsOnce(S, lines)
<1> DEFINE n == Cardinality(S)
<1>1. n \in Nat
  BY FS_CardinalityType
<1>2. lines \in [1..n -> S] /\ \A i, j \in 1..n : i # j => lines[i] # lines[j]
  BY DEF LinesOf, SetToSeqs
<1> HIDE DEF n
<1>3. lines \in Seq(Queries) /\ Len(lines) = n
  BY <1>1, <1>2
<1>4. lines \in Injection(1..n, S)
  BY <1>2 DEF Injection, IsInjective
<1>5. IsFiniteSet(1..n) /\ Cardinality(1..n) = n
  BY <1>1, FS_Interval
<1>6. lines \in Surjection(1..n, S)
  BY <1>4, <1>5, FS_Injection DEF n
<1>7. Ids(lines) = S
  BY <1>2, <1>6 DEF Ids, Surjection
<1> QED
  BY <1>3, <1>7 DEF ListsOnce, n

-----------------------------------------------------------------------------
(* The steps.  A query's step leaves the exports alone, but disturbs them; *)
(* an export's step leaves the queries alone.                              *)

QueryStep(q) ==
  \/ CommitQuery(q) \/ CommitQueryFails(q) \/ BeginWriting(q)
  \/ ReadHistory(q) \/ AppendHistory(q) \/ ReadCitations(q) \/ AppendCitations(q)
  \/ WritingFails(q)

ExportStep(e) ==
  \/ \E s \in Selections : TakeSnapshot(e, s)
  \/ BeginExport(e) \/ WriteSummaries(e) \/ RewriteHistory(e) \/ RewriteCitations(e)
  \/ CopyHistory(e) \/ CopyCitations(e) \/ Publish(e) \/ ExportFails(e)

LEMMA QueryFrame ==
  ASSUME AuditShape, NEW q \in Queries, QueryStep(q)
  PROVE  /\ UNCHANGED <<export, summaries>>
         /\ \A p \in Queries \ {q} : asking'[p] = asking[p] /\ asked'[p] = asked[p]
         /\ asking' \in [Queries -> {"no", "committed", "refused", "done"} \cup WritingSteps]
         /\ asked' \in [Queries -> Seq(Queries)]
         /\ history' \in Seq(Queries) /\ citations' \in Seq(Queries)
         /\ log' \in SUBSET Queries /\ IsFiniteSet(log') /\ degraded' \in SUBSET Queries
<1>1. /\ asking \in [Queries -> {"no", "committed", "refused", "done"} \cup WritingSteps]
      /\ asked \in [Queries -> Seq(Queries)] /\ IsFiniteSet(log)
      /\ history \in Seq(Queries) /\ citations \in Seq(Queries)
      /\ log \in SUBSET Queries /\ degraded \in SUBSET Queries
  BY DEF AuditShape, AuditTypeOK
<1>2. IsFiniteSet(log \cup {q})
  BY <1>1, FS_AddElement
<1>3. Append(asked[q], q) \in Seq(Queries)
  BY <1>1
<1>4. CASE CommitQuery(q)
  BY <1>1, <1>2, <1>4 DEF CommitQuery, AskGo, auditFiles, export
<1>5. CASE CommitQueryFails(q)
  BY <1>1, <1>5 DEF CommitQueryFails, AskGo, auditFiles, export
<1>6. CASE BeginWriting(q)
  BY <1>1, <1>6 DEF BeginWriting, AskGo, auditFiles, export, WritingSteps
<1>7. CASE ReadHistory(q)
  BY <1>1, <1>7 DEF ReadHistory, AskGo, auditFiles, export, WritingSteps
<1>8. CASE AppendHistory(q)
  BY <1>1, <1>3, <1>8 DEF AppendHistory, AskGo, export, WritingSteps
<1>9. CASE ReadCitations(q)
  BY <1>1, <1>9 DEF ReadCitations, AskGo, auditFiles, export, WritingSteps
<1>10. CASE AppendCitations(q)
  BY <1>1, <1>3, <1>10 DEF AppendCitations, AskGo, export
<1>11. CASE WritingFails(q)
  BY <1>1, <1>11 DEF WritingFails, AskGo, auditFiles, export
<1> QED
  BY <1>4, <1>5, <1>6, <1>7, <1>8, <1>9, <1>10, <1>11 DEF QueryStep

\* Only a query's owner of the lock has it taken, or given back.
LEMMA QueryLock ==
  ASSUME AuditShape, LockedInv, NEW q \in Queries, QueryStep(q)
  PROVE  LockedInv'
<1>1. /\ asking \in [Queries -> {"no", "committed", "refused", "done"} \cup WritingSteps]
      /\ Nobody \notin Queries
  BY AuditAssumptions DEF AuditShape, AuditTypeOK
<1>2. \A e \in Exports : exporting'[e] \in ExportSteps \ {"read"} => exportLock' = e
  BY QueryFrame DEF export, LockedInv
<1>3. \/ artifactLock' = artifactLock /\ (asking'[q] \in WritingSteps => asking[q] \in WritingSteps)
      \/ artifactLock = Nobody /\ artifactLock' = q
      \/ asking[q] \in WritingSteps /\ artifactLock' = Nobody /\ asking'[q] = "done"
  BY <1>1
    DEF QueryStep, CommitQuery, CommitQueryFails, BeginWriting, ReadHistory, AppendHistory,
     ReadCitations, AppendCitations, WritingFails, AskGo, WritingSteps
<1>4. \A p \in Queries \ {q} : asking'[p] = asking[p]
  BY QueryFrame
<1>5. \A p \in Queries : asking'[p] \in WritingSteps => artifactLock' = p
  BY <1>1, <1>3, <1>4 DEF LockedInv, WritingSteps
<1> QED
  BY <1>2, <1>5 DEF LockedInv

\* A query writes its line into each file once, and nobody else writes meanwhile.
LEMMA QueryKeeps ==
  ASSUME AuditShape, LockedInv, KeptInv, NEW q \in Queries, QueryStep(q)
  PROVE  KeptInv'
<1> SUFFICES ASSUME NoExportYet', NEW p \in Queries
             PROVE  KeptFor(p)'
  BY DEF KeptInv
<1>1. /\ asking \in [Queries -> {"no", "committed", "refused", "done"} \cup WritingSteps]
      /\ asked \in [Queries -> Seq(Queries)]
      /\ history \in Seq(Queries) /\ citations \in Seq(Queries)
      /\ \A r \in Queries \ {q} : asking'[r] = asking[r] /\ asked'[r] = asked[r]
  BY QueryFrame DEF AuditShape, AuditTypeOK
<1>2. NoExportYet
  BY QueryFrame DEF NoExportYet, export
<1>3. KeptFor(p) /\ KeptFor(q)
  BY <1>2 DEF KeptInv
<1>4. \A r \in Queries : asking[r] \in WritingSteps => artifactLock = r
  BY DEF LockedInv
<1>5. degraded \subseteq degraded' /\ (p # q /\ p \in degraded' => p \in degraded)
  BY
    DEF QueryStep, CommitQuery, CommitQueryFails, BeginWriting, ReadHistory, AppendHistory,
     ReadCitations, AppendCitations, WritingFails
<1>6. CASE AppendHistory(q)
  <2>1. /\ asking[q] = "append" /\ asking'[q] = "citations"
        /\ history' = Append(history, q) /\ UNCHANGED <<citations, degraded>>
    BY <1>1, <1>3, <1>6 DEF AppendHistory, AskGo, KeptFor
  <2>2. CASE p = q
    <3>1. Once(q, history')
      BY <1>1, <1>3, <2>1, AppendedLine DEF KeptFor
    <3> QED
      BY <1>3, <2>1, <2>2, <3>1 DEF KeptFor, WritingSteps
  <2>3. CASE p # q
    <3>1. asking[p] \notin WritingSteps /\ asking'[p] = asking[p]
      BY <1>1, <1>4, <2>1, <2>3 DEF WritingSteps
    <3>2. /\ p \notin Ids(history) => p \notin Ids(history')
          /\ Once(p, history) => Once(p, history')
      BY <1>1, <2>1, <2>3, AppendedLine
    <3> QED
      BY <1>3, <2>1, <3>1, <3>2 DEF KeptFor, WritingSteps
  <2> QED
    BY <2>2, <2>3
<1>7. CASE AppendCitations(q)
  <2>1. /\ asking[q] = "cite" /\ asking'[q] = "done"
        /\ citations' = Append(citations, q) /\ UNCHANGED <<history, degraded>>
    BY <1>1, <1>3, <1>7 DEF AppendCitations, AskGo, KeptFor
  <2>2. CASE p = q
    <3>1. Once(q, citations')
      BY <1>1, <1>3, <2>1, AppendedLine DEF KeptFor, WritingSteps
    <3> QED
      BY <1>3, <2>1, <2>2, <3>1 DEF KeptFor, WritingSteps
  <2>3. CASE p # q
    <3>1. asking[p] \notin WritingSteps /\ asking'[p] = asking[p]
      BY <1>1, <1>4, <2>1, <2>3 DEF WritingSteps
    <3>2. /\ p \notin Ids(citations) => p \notin Ids(citations')
          /\ Once(p, citations) => Once(p, citations')
      BY <1>1, <2>1, <2>3, AppendedLine
    <3> QED
      BY <1>3, <2>1, <3>1, <3>2 DEF KeptFor, WritingSteps
  <2> QED
    BY <2>2, <2>3
<1>8. CASE ~AppendHistory(q) /\ ~AppendCitations(q)
  <2>1. UNCHANGED <<history, citations>>
    BY <1>8 DEF QueryStep, CommitQuery, CommitQueryFails, BeginWriting, ReadHistory,
       ReadCitations, WritingFails, auditFiles
  <2>2. CASE p # q
    BY <1>1, <1>3, <1>5, <2>1, <2>2 DEF KeptFor
  <2>3. CASE p = q
    <3>1. \/ asking[q] = "no" /\ asking'[q] \in {"committed", "refused"}
          \/ asking[q] = "committed" /\ asking'[q] = "history"
          \/ asking[q] = "history" /\ asking'[q] = "append" /\ asked'[q] = history
          \/ asking[q] = "citations" /\ asking'[q] = "cite" /\ asked'[q] = citations
          \/ asking'[q] = "done" /\ q \in degraded'
      BY <1>1, <1>8
        DEF QueryStep, CommitQuery, CommitQueryFails, BeginWriting, ReadHistory,
         ReadCitations, WritingFails, AskGo
    <3> QED
      BY <1>3, <2>1, <2>3, <3>1 DEF KeptFor, WritingSteps
  <2> QED
    BY <2>2, <2>3
<1> QED
  BY <1>6, <1>7, <1>8

\* A query that changes a row or a file leaves no export by itself.
LEMMA QueryDisturbs ==
  ASSUME AuditShape, RebuiltInv, NEW q \in Queries, QueryStep(q)
  PROVE  RebuiltInv' /\ quiet' \in [Exports -> BOOLEAN]
<1>1. quiet \in [Exports -> BOOLEAN]
  BY DEF AuditShape, AuditTypeOK
<1>2. UNCHANGED <<exporting, reading, members>>
  BY QueryFrame DEF export
<1>3. CASE UNCHANGED <<quiet, history, citations>>
  BY <1>1, <1>2, <1>3 DEF RebuiltInv, RebuiltBy, Working
<1>4. CASE Disturb(Working)
  <2>1. quiet' \in [Exports -> BOOLEAN] /\ \A e \in Exports : ~quiet'[e]
    BY <1>1, <1>4 DEF Disturb, RebuiltInv, RebuiltBy
  <2> QED
    BY <2>1 DEF RebuiltInv
<1> QED
  BY <1>3, <1>4
    DEF QueryStep, CommitQuery, CommitQueryFails, BeginWriting, ReadHistory,
     AppendHistory, ReadCitations, AppendCitations, WritingFails, auditFiles

LEMMA QueryInv ==
  ASSUME AuditInv, NEW q \in Queries, QueryStep(q)
  PROVE  AuditInv'
<1>1. LockedInv' /\ KeptInv' /\ RebuiltInv' /\ quiet' \in [Exports -> BOOLEAN]
  BY QueryLock, QueryKeeps, QueryDisturbs DEF AuditInv
<1>2. UNCHANGED <<exporting, reading, members, exportLock, archives, summaries>>
  BY QueryFrame DEF export, AuditInv
<1>3. artifactLock' \in Queries \cup {Nobody}
  BY
    DEF QueryStep, CommitQuery, CommitQueryFails, BeginWriting, ReadHistory, AppendHistory,
     ReadCitations, AppendCitations, WritingFails, AuditInv, AuditShape, AuditTypeOK
<1>4. AuditShape'
  BY <1>1, <1>2, <1>3, QueryFrame DEF AuditInv, AuditShape, AuditTypeOK
<1>5. OwnInv' /\ ArchiveIsOwn' /\ QuietExportRebuilds'
  BY <1>2 DEF AuditInv, OwnInv, ArchiveIsOwn, QuietExportRebuilds
<1> QED
  BY <1>1, <1>4, <1>5 DEF AuditInv

LEMMA ExportFrame ==
  ASSUME AuditShape, NEW e \in Exports, ExportStep(e)
  PROVE  /\ UNCHANGED <<log, query>>
         /\ \A f \in Exports \ {e} : /\ exporting'[f] = exporting[f]
                                     /\ reading'[f] = reading[f] /\ members'[f] = members[f]
                                     /\ quiet'[f] => quiet[f]
         /\ exporting' \in [Exports -> {"no", "done", "failed"} \cup ExportSteps]
         /\ exporting'[e] # "no"
         /\ quiet' \in [Exports -> BOOLEAN]
<1>1. /\ exporting \in [Exports -> {"no", "done", "failed"} \cup ExportSteps]
      /\ reading \in [Exports -> Snapshots] /\ members \in [Exports -> MemberSets]
      /\ quiet \in [Exports -> BOOLEAN]
  BY DEF AuditShape, AuditTypeOK
<1>2. CASE \E s \in Selections : TakeSnapshot(e, s)
  BY <1>1, <1>2 DEF TakeSnapshot, ExportGo, ExportSteps
<1>3. CASE BeginExport(e) \/ WriteSummaries(e) \/ RewriteHistory(e) \/ RewriteCitations(e)
  BY <1>1, <1>3
    DEF BeginExport, WriteSummaries, RewriteHistory, RewriteCitations, ExportGo,
     ExportSteps
<1>4. CASE CopyHistory(e) \/ CopyCitations(e)
  BY <1>1, <1>4 DEF CopyHistory, CopyCitations, ExportGo, ExportSteps
<1>5. ASSUME NEW outcome \in {"done", "failed"}, Ended({e}, outcome), UNCHANGED <<log, query>>
      PROVE  /\ \A f \in Exports \ {e} : /\ exporting'[f] = exporting[f]
                                         /\ reading'[f] = reading[f] /\ members'[f] = members[f]
                                         /\ quiet'[f] => quiet[f]
             /\ exporting' \in [Exports -> {"no", "done", "failed"} \cup ExportSteps]
             /\ exporting'[e] # "no"
             /\ quiet' \in [Exports -> BOOLEAN]
  BY <1>1, <1>5 DEF Ended
<1>6. CASE Publish(e) \/ ExportFails(e)
  BY <1>5, <1>6 DEF Publish, ExportFails
<1> QED
  BY <1>2, <1>3, <1>4, <1>6 DEF ExportStep

LEMMA ExportShape ==
  ASSUME AuditShape, NEW e \in Exports, ExportStep(e)
  PROVE  AuditShape'
<1>1. /\ log \in SUBSET Queries /\ IsFiniteSet(log) /\ summaries \in Snapshots
      /\ history \in Seq(Queries) /\ citations \in Seq(Queries)
      /\ reading \in [Exports -> Snapshots] /\ \A f \in Exports : IsFiniteSet(reading[f].ids)
      /\ members \in [Exports -> MemberSets]
      /\ exportLock \in Exports \cup {Nobody}
  BY DEF AuditShape, AuditTypeOK
<1>2. LinesOf(reading[e].ids) \subseteq Seq(Queries)
  BY <1>1, WrittenLines DEF Snapshots
<1>3. /\ summaries' \in Snapshots /\ history' \in Seq(Queries) /\ citations' \in Seq(Queries)
      /\ exportLock' \in Exports \cup {Nobody}
  <2>1. CASE RewriteHistory(e) \/ RewriteCitations(e)
    BY <1>1, <1>2, <2>1 DEF RewriteHistory, RewriteCitations
  <2>2. CASE ~RewriteHistory(e) /\ ~RewriteCitations(e)
    BY <1>1, <2>2
      DEF ExportStep, TakeSnapshot, BeginExport, WriteSummaries, CopyHistory,
       CopyCitations, Publish, ExportFails, auditFiles
  <2> QED
    BY <2>1, <2>2
<1>4. reading' \in [Exports -> Snapshots] /\ \A f \in Exports : IsFiniteSet(reading'[f].ids)
  <2>1. NoSnapshot \in Snapshots /\ IsFiniteSet(NoSnapshot.ids)
    BY FS_EmptySet DEF NoSnapshot, Snapshots
  <2>2. CASE \E s \in Selections : TakeSnapshot(e, s)
    <3>1. PICK s \in Selections : TakeSnapshot(e, s)
      BY <2>2
    <3>2. [ids |-> log, selection |-> s] \in Snapshots
      BY <1>1 DEF Snapshots
    <3> QED
      BY <1>1, <3>1, <3>2 DEF TakeSnapshot
  <2>3. CASE Publish(e) \/ ExportFails(e)
    BY <1>1, <2>1, <2>3 DEF Publish, ExportFails, Ended
  <2>4. CASE UNCHANGED reading
    BY <1>1, <2>4
  <2> QED
    BY <2>2, <2>3, <2>4 DEF ExportStep, BeginExport, WriteSummaries, RewriteHistory,
       RewriteCitations, CopyHistory, CopyCitations
<1>5. members' \in [Exports -> MemberSets]
  <2>1. CASE CopyHistory(e)
    <3>1. [ids |-> summaries.ids, selection |-> "none", history |-> history,
           citations |-> <<>>] \in MemberSets
      BY <1>1 DEF Snapshots, MemberSets
    <3> QED
      BY <1>1, <2>1, <3>1 DEF CopyHistory
  <2>2. CASE CopyCitations(e)
    <3> DEFINE half == [members EXCEPT ![e].citations = citations]
    <3>1. members' = [half EXCEPT ![e].selection = summaries.selection]
      BY <2>2 DEF CopyCitations
    <3>2. half \in [Exports -> MemberSets]
      BY <1>1 DEF MemberSets
    <3>3. summaries.selection \in Selections \cup {"none"}
      BY <1>1 DEF Snapshots
    <3> HIDE DEF half
    <3> QED
      BY <3>1, <3>2, <3>3 DEF MemberSets
  <2>3. CASE Publish(e) \/ ExportFails(e)
    <3>1. NoMembers \in MemberSets
      BY DEF NoMembers, MemberSets
    <3> QED
      BY <1>1, <2>3, <3>1 DEF Publish, ExportFails, Ended
  <2>4. CASE UNCHANGED members
    BY <1>1, <2>4
  <2> QED
    BY <2>1, <2>2, <2>3, <2>4
      DEF ExportStep, TakeSnapshot, BeginExport, WriteSummaries,
       RewriteHistory, RewriteCitations
<1> QED
  BY <1>1, <1>3, <1>4, <1>5, ExportFrame DEF AuditShape, AuditTypeOK, query, Snapshots

\* Exports take turns, and the one whose turn it is writes what it has read.
LEMMA ExportOwns ==
  ASSUME AuditInv, NEW e \in Exports, ExportStep(e)
  PROVE  LockedInv' /\ OwnInv' /\ KeptInv'
<1>1. /\ exporting \in [Exports -> {"no", "done", "failed"} \cup ExportSteps]
      /\ reading \in [Exports -> Snapshots] /\ members \in [Exports -> MemberSets]
      /\ Nobody \notin Exports
  BY AuditAssumptions DEF AuditInv, AuditShape, AuditTypeOK
<1>2. /\ \A f \in Exports \ {e} : exporting'[f] = exporting[f] /\ reading'[f] = reading[f]
                                 /\ members'[f] = members[f]
      /\ UNCHANGED query /\ exporting'[e] # "no"
  BY ExportFrame DEF AuditInv
<1>3. \A f \in Exports : exporting[f] \in ExportSteps \ {"read"} => exportLock = f
  BY DEF AuditInv, LockedInv
<1>4. \/ exportLock' = exportLock /\ (exporting'[e] \in ExportSteps \ {"read"}
                                        => exporting[e] \in ExportSteps \ {"read"})
      \/ exportLock = Nobody /\ exportLock' = e
      \/ exporting[e] \in ExportSteps \ {"read"} /\ exporting'[e] \in {"done", "failed"}
         /\ exportLock' = Nobody
  BY <1>1 DEF ExportStep, TakeSnapshot, BeginExport, WriteSummaries, RewriteHistory,
     RewriteCitations, CopyHistory, CopyCitations, Publish, ExportFails, Ended, ExportGo,
     ExportSteps
<1>5. \A f \in Exports : exporting'[f] \in ExportSteps \ {"read"} => exportLock' = f
  BY <1>1, <1>2, <1>3, <1>4 DEF ExportSteps
<1>6. LockedInv'
  BY <1>2, <1>5 DEF AuditInv, LockedInv, query
<1>7. KeptInv'
  BY <1>2 DEF KeptInv, NoExportYet
<1> DEFINE OwnedBy(f) ==
    /\ exporting[f] \in {"history", "citations", "copy", "copy citations", "publish"} =>
         summaries = reading[f]
    /\ exporting[f] \in {"copy citations", "publish"} => members[f].ids = reading[f].ids
    /\ exporting[f] = "publish" => members[f].selection = reading[f].selection
<1>8. \A f \in Exports : OwnedBy(f)
  BY DEF AuditInv, OwnInv
<1>9. ASSUME NEW f \in Exports, f # e
      PROVE  OwnedBy(f)'
  <2>1. CASE exporting[f] \in ExportSteps \ {"read"}
    <3>1. exporting[e] \notin ExportSteps \ {"read"}
      BY <1>3, <1>9, <2>1
    <3>2. summaries' = summaries
      BY <3>1
        DEF ExportStep, TakeSnapshot, BeginExport, WriteSummaries, RewriteHistory,
         RewriteCitations, CopyHistory, CopyCitations, Publish, ExportFails, ExportSteps,
         auditFiles
    <3> QED
      BY <1>2, <1>8, <1>9, <3>2
  <2>2. CASE exporting[f] \notin ExportSteps \ {"read"}
    BY <1>2, <1>9, <2>2 DEF ExportSteps
  <2> QED
    BY <2>1, <2>2
<1>10. OwnedBy(e)'
  <2>1. CASE \/ \E s \in Selections : TakeSnapshot(e, s)
             \/ BeginExport(e) \/ Publish(e) \/ ExportFails(e)
    BY <1>1, <2>1 DEF TakeSnapshot, BeginExport, Publish, ExportFails, Ended, ExportGo
  <2>2. CASE WriteSummaries(e)
    BY <1>1, <2>2 DEF WriteSummaries, ExportGo
  <2>3. CASE RewriteHistory(e) \/ RewriteCitations(e)
    BY <1>1, <1>8, <2>3 DEF RewriteHistory, RewriteCitations, ExportGo
  <2>4. CASE CopyHistory(e)
    BY <1>1, <1>8, <2>4 DEF CopyHistory, ExportGo, auditFiles
  <2>5. CASE CopyCitations(e)
    <3>1. /\ exporting'[e] = "publish" /\ reading' = reading /\ summaries' = summaries
          /\ summaries = reading[e] /\ members[e].ids = reading[e].ids
      BY <1>1, <1>8, <2>5 DEF CopyCitations, ExportGo, auditFiles
    <3>2. members'[e].ids = members[e].ids /\ members'[e].selection = summaries.selection
      BY <1>1, <2>5 DEF CopyCitations, MemberSets
    <3> QED
      BY <3>1, <3>2
  <2> QED
    BY <2>1, <2>2, <2>3, <2>4, <2>5 DEF ExportStep
<1> QED
  BY <1>6, <1>7, <1>9, <1>10 DEF OwnInv

\* An export without company puts the rows it has read into the files, finds them
\* there again and copies them.
LEMMA ExportRebuilds ==
  ASSUME AuditInv, NEW e \in Exports, ExportStep(e)
  PROVE  RebuiltInv'
<1>1. /\ exporting \in [Exports -> {"no", "done", "failed"} \cup ExportSteps]
      /\ reading \in [Exports -> Snapshots] /\ members \in [Exports -> MemberSets]
      /\ quiet \in [Exports -> BOOLEAN]
      /\ \A f \in Exports : IsFiniteSet(reading[f].ids)
  BY DEF AuditInv, AuditShape, AuditTypeOK
<1>2. /\ \A f \in Exports \ {e} : exporting'[f] = exporting[f] /\ (quiet'[f] => quiet[f])
      /\ quiet' \in [Exports -> BOOLEAN]
  BY ExportFrame DEF AuditInv
<1>3. \A f \in Exports : quiet[f] => RebuiltBy(f)
  BY DEF AuditInv, RebuiltInv
<1>4. CASE \E s \in Selections : TakeSnapshot(e, s)
  <2>1. PICK s \in Selections : TakeSnapshot(e, s)
    BY <1>4
  <2>2. /\ exporting' = [exporting EXCEPT ![e] = "read"] /\ exporting[e] = "no"
        /\ \A f \in Exports : quiet'[f] =>
             \/ f = e /\ Working = {}
             \/ f # e /\ quiet[f] /\ f \notin Working
    BY <2>1 DEF TakeSnapshot, ExportGo
  <2>3. \A f \in Exports : quiet[f] => f \in Working
    BY <1>3 DEF RebuiltBy
  <2>4. Working = {} => Working' = {e}
    BY <1>1, <2>2 DEF Working
  <2>5. ASSUME NEW f \in Exports, quiet'[f]
        PROVE  RebuiltBy(f)'
    <3>1. f = e /\ Working' = {e} /\ exporting'[e] = "read"
      BY <1>1, <2>2, <2>3, <2>4, <2>5
    <3> QED
      BY <3>1 DEF RebuiltBy
  <2> QED
    BY <2>5 DEF RebuiltInv
<1>5. CASE Publish(e) \/ ExportFails(e)
  <2>1. /\ e \in Working /\ \A f \in Exports : quiet'[f] => quiet[f] /\ f # e
    BY <1>5 DEF Publish, ExportFails, Ended, Working, ExportSteps
  <2>2. \A f \in Exports : ~quiet'[f]
    BY <1>3, <2>1 DEF RebuiltBy
  <2> QED
    BY <2>2 DEF RebuiltInv
<1>6. CASE \/ BeginExport(e) \/ WriteSummaries(e) \/ RewriteHistory(e) \/ RewriteCitations(e)
           \/ CopyHistory(e) \/ CopyCitations(e)
  <2>1. /\ UNCHANGED <<quiet, reading>> /\ e \in Working
        /\ exporting[e] \in ExportSteps /\ exporting'[e] \in ExportSteps
    BY <1>1, <1>6
      DEF BeginExport, WriteSummaries, RewriteHistory, RewriteCitations, CopyHistory,
       CopyCitations, ExportGo, Working, ExportSteps
  <2>2. Working' = Working
    BY <1>2, <2>1 DEF Working, ExportSteps
  <2>3. ASSUME NEW f \in Exports, quiet'[f]
        PROVE  f = e /\ quiet[e] /\ Working' = {e} /\ RebuiltBy(e)
    BY <1>3, <2>1, <2>2, <2>3 DEF RebuiltBy
  <2>4. ASSUME RebuiltBy(e), Working' = {e}
        PROVE  RebuiltBy(e)'
    <3>1. CASE BeginExport(e) \/ WriteSummaries(e)
      BY <1>1, <2>4, <3>1 DEF BeginExport, WriteSummaries, ExportGo, RebuiltBy
    <3>2. CASE RewriteHistory(e)
      <4>1. ListsOnce(reading[e].ids, history')
        BY <1>1, <3>2, WrittenLines DEF RewriteHistory, Snapshots
      <4> QED
        BY <1>1, <2>4, <3>2, <4>1 DEF RewriteHistory, ExportGo, RebuiltBy
    <3>3. CASE RewriteCitations(e)
      <4>1. ListsOnce(reading[e].ids, citations')
        BY <1>1, <3>3, WrittenLines DEF RewriteCitations, Snapshots
      <4> QED
        BY <1>1, <2>4, <3>3, <4>1 DEF RewriteCitations, ExportGo, RebuiltBy
    <3>4. CASE CopyHistory(e)
      BY <1>1, <2>4, <3>4 DEF CopyHistory, ExportGo, auditFiles, RebuiltBy
    <3>5. CASE CopyCitations(e)
      <4>1. /\ members'[e].history = members[e].history
            /\ members'[e].citations = citations
        BY <1>1, <3>5 DEF CopyCitations, MemberSets
      <4> QED
        BY <1>1, <2>4, <3>5, <4>1 DEF CopyCitations, ExportGo, auditFiles, RebuiltBy
    <3> QED
      BY <1>6, <3>1, <3>2, <3>3, <3>4, <3>5
  <2> QED
    BY <2>3, <2>4 DEF RebuiltInv
<1> QED
  BY <1>4, <1>5, <1>6 DEF ExportStep

\* Only the publication adds an archive.
LEMMA ExportInv ==
  ASSUME AuditInv, NEW e \in Exports, ExportStep(e)
  PROVE  AuditInv'
<1>1. AuditShape' /\ LockedInv' /\ OwnInv' /\ KeptInv' /\ RebuiltInv'
  BY ExportShape, ExportOwns, ExportRebuilds DEF AuditInv
<1>2. CASE Publish(e)
  <2> DEFINE a == [of |-> e, asked |-> reading[e], quiet |-> quiet[e], has |-> members[e]]
  <2>1. archives' = archives \cup {a} /\ exporting[e] = "publish"
    BY <1>2 DEF Publish
  <2>2. a.has.ids = a.asked.ids /\ a.has.selection = a.asked.selection
    BY <2>1 DEF AuditInv, OwnInv
  <2>3. a.quiet => /\ ListsOnce(a.asked.ids, a.has.history)
                   /\ ListsOnce(a.asked.ids, a.has.citations)
    BY <2>1 DEF AuditInv, RebuiltInv, RebuiltBy
  <2> HIDE DEF a
  <2> QED
    BY <1>1, <2>1, <2>2, <2>3 DEF AuditInv, ArchiveIsOwn, QuietExportRebuilds
<1>3. CASE ~Publish(e)
  <2>1. archives' = archives
    BY <1>3 DEF ExportStep, TakeSnapshot, BeginExport, WriteSummaries, RewriteHistory,
       RewriteCitations, CopyHistory, CopyCitations, ExportFails
  <2> QED
    BY <1>1, <2>1 DEF AuditInv, ArchiveIsOwn, QuietExportRebuilds
<1> QED
  BY <1>2, <1>3

LEMMA CrashInv ==
  ASSUME AuditInv, AuditCrash
  PROVE  AuditInv'
<1>1. /\ UNCHANGED <<log, auditFiles, archives>>
      /\ artifactLock' = Nobody /\ exportLock' = Nobody
      /\ asked' = [q \in Queries |-> <<>>]
      /\ \A q \in Queries : asking'[q] \in {"no", "done", "refused"}
                            /\ (asking'[q] # "refused" => asking'[q] = asking[q])
      /\ asking' \in [Queries -> {"no", "committed", "refused", "done"} \cup WritingSteps]
      /\ degraded \subseteq degraded' /\ degraded' \subseteq Queries
  BY DEF AuditCrash, AuditInv, AuditShape, AuditTypeOK
<1>2. /\ exporting' \in [Exports -> {"no", "done", "failed"} \cup ExportSteps]
      /\ \A e \in Exports : exporting'[e] \in {"no", "done", "failed"}
                            /\ (exporting'[e] = "no" => exporting[e] = "no")
      /\ quiet' \in [Exports -> BOOLEAN]
  <2>1. exporting \in [Exports -> {"no", "done", "failed"} \cup ExportSteps]
    BY DEF AuditInv, AuditShape, AuditTypeOK
  <2> QED
    BY <2>1 DEF AuditCrash, Ended, Working, AuditInv, AuditShape, AuditTypeOK
<1>3. \A e \in Exports : ~quiet'[e]
  <2>1. \A e \in Exports : quiet[e] => e \in Working
    BY DEF AuditInv, RebuiltInv, RebuiltBy
  <2> QED
    BY <2>1 DEF AuditCrash, Ended
<1>4. /\ reading' \in [Exports -> Snapshots] /\ members' \in [Exports -> MemberSets]
      /\ \A e \in Exports : IsFiniteSet(reading'[e].ids)
  <2>1. NoSnapshot \in Snapshots /\ IsFiniteSet(NoSnapshot.ids) /\ NoMembers \in MemberSets
    BY FS_EmptySet DEF NoSnapshot, NoMembers, Snapshots, MemberSets
  <2> QED
    BY <2>1 DEF AuditCrash, Ended, AuditInv, AuditShape
<1>5. AuditShape'
  BY <1>1, <1>2, <1>4 DEF auditFiles, AuditInv, AuditShape, AuditTypeOK
<1>6. LockedInv' /\ OwnInv' /\ RebuiltInv'
  BY <1>1, <1>2, <1>3 DEF LockedInv, OwnInv, RebuiltInv, WritingSteps, ExportSteps
<1>7. KeptInv'
  <2>1. NoExportYet' => NoExportYet
    BY <1>2 DEF NoExportYet
  <2>2. ASSUME NEW q \in Queries, KeptFor(q)
        PROVE  KeptFor(q)'
    BY <1>1, <2>2 DEF KeptFor, auditFiles, WritingSteps
  <2> QED
    BY <2>1, <2>2 DEF AuditInv, KeptInv
<1>8. ArchiveIsOwn' /\ QuietExportRebuilds'
  BY <1>1 DEF AuditInv, ArchiveIsOwn, QuietExportRebuilds
<1> QED
  BY <1>5, <1>6, <1>7, <1>8 DEF AuditInv

-----------------------------------------------------------------------------
(* QueryAudit: the theorems.                                               *)

\* The invariant holds, for any queries, exports, selections and failures.
THEOREM AuditCorrect == AuditSpec => []AuditInv
<1>1. AuditInit => AuditInv
  <2> SUFFICES ASSUME AuditInit
               PROVE  AuditInv
    OBVIOUS
  <2>1. /\ <<>> \in Seq(Queries) /\ IsFiniteSet({})
        /\ NoSnapshot \in Snapshots /\ NoSummaries \in Snapshots /\ NoMembers \in MemberSets
        /\ NoSnapshot.ids = {} /\ NoSummaries.ids = {}
    BY FS_EmptySet DEF NoSummaries, NoSnapshot, NoMembers, Snapshots, MemberSets
  <2>2. AuditTypeOK
    BY <2>1 DEF AuditInit, AuditTypeOK
  <2>3. AuditShape
    BY <2>1, <2>2 DEF AuditInit, AuditShape
  <2>4. LockedInv /\ OwnInv /\ RebuiltInv /\ ArchiveIsOwn /\ QuietExportRebuilds
    BY
      DEF AuditInit, LockedInv, OwnInv, RebuiltInv, ArchiveIsOwn, QuietExportRebuilds,
       WritingSteps, ExportSteps
  <2>5. KeptInv
    BY DEF AuditInit, KeptInv, KeptFor, Ids, WritingSteps
  <2> QED
    BY <2>3, <2>4, <2>5 DEF AuditInv
<1>2. ASSUME AuditInv, UNCHANGED auditVars
      PROVE  AuditInv'
  BY <1>2
    DEF auditVars, auditFiles, query, export, AuditInv, AuditShape, AuditTypeOK, LockedInv,
     OwnInv, KeptInv, NoExportYet, KeptFor, RebuiltInv, RebuiltBy, Working, ArchiveIsOwn,
     QuietExportRebuilds
<1>3. AuditInv /\ [AuditNext]_auditVars => AuditInv'
  BY <1>2, QueryInv, ExportInv, CrashInv DEF AuditNext, QueryStep, ExportStep
<1> QED
  BY <1>1, <1>3, PTL DEF AuditSpec

\* The summaries in an archive are those of the export whose token names it, its
\* own selection of runs and its own reading of the rows, however many exports of
\* the job are asked for at once.
THEOREM OwnArchiveTheorem == AuditSpec => []ArchiveIsOwn
BY AuditCorrect, PTL DEF AuditInv

\* Queries that run at the same time keep each other's lines as long as nothing is
\* exported, and an export that has the files to itself rebuilds them from the rows,
\* whatever had been lost before.
THEOREM UndisturbedTheorem == AuditSpec => []UndisturbedFilesAreRight
<1>1. AuditInv => QueriesKeepEachOther
  BY OnceIsOneTime DEF AuditInv, KeptInv, NoExportYet, KeptFor, QueriesKeepEachOther
<1>2. AuditInv => UndisturbedFilesAreRight
  BY <1>1 DEF AuditInv, UndisturbedFilesAreRight
<1> QED
  BY <1>2, AuditCorrect, PTL

-----------------------------------------------------------------------------
(* The rows are the truth.                                                 *)

LEMMA QueryCommits ==
  ASSUME AuditShape, CommittedInv, NEW q \in Queries, QueryStep(q)
  PROVE  CommittedInv' /\ log \subseteq log'
<1>1. /\ asking \in [Queries -> {"no", "committed", "refused", "done"} \cup WritingSteps]
      /\ asked \in [Queries -> Seq(Queries)]
  BY DEF AuditShape, AuditTypeOK
<1>2. /\ UNCHANGED <<reading, members, summaries>>
      /\ \A p \in Queries \ {q} : asking'[p] = asking[p] /\ asked'[p] = asked[p]
  BY QueryFrame DEF export
<1>3. ASSUME NEW lines \in Seq(Queries)
      PROVE  Ids(Append(lines, q)) = Ids(lines) \cup {q}
  <2>1. /\ DOMAIN Append(lines, q) = DOMAIN lines \cup {Len(lines) + 1}
        /\ \A i \in DOMAIN lines : Append(lines, q)[i] = lines[i]
        /\ Append(lines, q)[Len(lines) + 1] = q
    OBVIOUS
  <2> QED
    BY <2>1 DEF Ids
<1>4. log' = log \/ log' = log \cup {q}
  BY
    DEF QueryStep, CommitQuery, CommitQueryFails, BeginWriting, ReadHistory, AppendHistory,
     ReadCitations, AppendCitations, WritingFails
<1>5. asking'[q] \in {"committed", "done"} \cup WritingSteps => q \in log'
  BY <1>1
    DEF QueryStep, CommitQuery, CommitQueryFails, BeginWriting, ReadHistory, AppendHistory,
     ReadCitations, AppendCitations, WritingFails, AskGo, WritingSteps, CommittedInv
<1>6. /\ Ids(asked'[q]) \subseteq log'
      /\ Ids(history') \subseteq log' /\ Ids(citations') \subseteq log'
  <2>1. CASE CommitQuery(q) \/ CommitQueryFails(q) \/ BeginWriting(q)
    BY <2>1 DEF CommitQuery, CommitQueryFails, BeginWriting, auditFiles, CommittedInv
  <2>2. CASE ReadHistory(q) \/ ReadCitations(q)
    BY <1>1, <2>2 DEF ReadHistory, ReadCitations, auditFiles, CommittedInv
  <2>3. CASE AppendHistory(q)
    BY <1>1, <1>3, <2>3 DEF AppendHistory, WritingSteps, CommittedInv
  <2>4. Ids(<<>>) = {}
    BY DEF Ids
  <2>5. CASE AppendCitations(q)
    BY <1>1, <1>3, <2>4, <2>5 DEF AppendCitations, WritingSteps, CommittedInv
  <2>6. CASE WritingFails(q)
    BY <1>1, <2>4, <2>6 DEF WritingFails, auditFiles, CommittedInv
  <2> QED
    BY <2>1, <2>2, <2>3, <2>5, <2>6 DEF QueryStep
<1> QED
  BY <1>2, <1>4, <1>5, <1>6 DEF CommittedInv

LEMMA ExportCommits ==
  ASSUME AuditShape, CommittedInv, NEW e \in Exports, ExportStep(e)
  PROVE  CommittedInv'
<1>1. /\ UNCHANGED <<log, asking, asked>>
      /\ \A f \in Exports \ {e} : reading'[f] = reading[f] /\ members'[f] = members[f]
  BY ExportFrame DEF query
<1>2. /\ reading \in [Exports -> Snapshots] /\ members \in [Exports -> MemberSets]
      /\ \A f \in Exports : IsFiniteSet(reading[f].ids)
  BY DEF AuditShape
<1>3. \A lines \in LinesOf(reading[e].ids) : Ids(lines) = reading[e].ids
  BY <1>2, WrittenLines DEF Snapshots, ListsOnce
<1>4. /\ Ids(history') \subseteq log /\ Ids(citations') \subseteq log
      /\ summaries'.ids \subseteq log
  BY <1>3 DEF ExportStep, TakeSnapshot, BeginExport, WriteSummaries, RewriteHistory,
     RewriteCitations, CopyHistory, CopyCitations, Publish, ExportFails, auditFiles, CommittedInv
<1>5. reading'[e].ids \subseteq log
  <2>1. CASE \E s \in Selections : TakeSnapshot(e, s)
    BY <1>2, <2>1 DEF TakeSnapshot
  <2>2. CASE Publish(e) \/ ExportFails(e)
    BY <2>2 DEF Publish, ExportFails, Ended, NoSnapshot
  <2>3. CASE UNCHANGED reading
    BY <2>3 DEF CommittedInv
  <2> QED
    BY <2>1, <2>2, <2>3 DEF ExportStep, BeginExport, WriteSummaries, RewriteHistory,
       RewriteCitations, CopyHistory, CopyCitations
<1>6. /\ members'[e].ids \subseteq log /\ Ids(members'[e].history) \subseteq log
      /\ Ids(members'[e].citations) \subseteq log
  <2>1. Ids(<<>>) = {}
    BY DEF Ids
  <2>2. CASE CopyHistory(e)
    BY <1>2, <2>1, <2>2 DEF CopyHistory, CommittedInv
  <2>3. CASE CopyCitations(e)
    <3>1. /\ members'[e].ids = members[e].ids /\ members'[e].history = members[e].history
          /\ members'[e].citations = citations
      BY <1>2, <2>3 DEF CopyCitations, MemberSets
    <3> QED
      BY <3>1 DEF CommittedInv
  <2>4. CASE Publish(e) \/ ExportFails(e)
    BY <2>1, <2>4 DEF Publish, ExportFails, Ended, NoMembers
  <2>5. CASE UNCHANGED members
    BY <2>5 DEF CommittedInv
  <2> QED
    BY <2>2, <2>3, <2>4, <2>5
      DEF ExportStep, TakeSnapshot, BeginExport, WriteSummaries,
       RewriteHistory, RewriteCitations
<1> QED
  BY <1>1, <1>4, <1>5, <1>6 DEF CommittedInv

\* No file and no archive names a query that is not committed, whatever is lost,
\* torn or left unwritten, and whoever has an answer has its row.
THEOREM RowsTheorem == AuditSpec => []FilesAreCommitted
<1> DEFINE Inv == CommittedInv /\ FilesAreCommitted
<1>1. AuditInit => Inv
  BY
    DEF AuditInit, CommittedInv, FilesAreCommitted, Ids, NoSummaries, NoSnapshot, NoMembers,
     WritingSteps
<1>2. ASSUME AuditInv, Inv, [AuditNext]_auditVars
      PROVE  Inv'
  <2>1. CASE \E q \in Queries : QueryStep(q)
    <3>1. PICK q \in Queries : QueryStep(q)
      BY <2>1
    <3>2. CommittedInv' /\ log \subseteq log' /\ archives' = archives
      BY <1>2, <3>1, QueryCommits, QueryFrame DEF AuditInv, export
    <3> QED
      BY <1>2, <3>2 DEF CommittedInv, FilesAreCommitted
  <2>2. CASE \E e \in Exports : ExportStep(e)
    <3>1. PICK e \in Exports : ExportStep(e)
      BY <2>2
    <3>2. CommittedInv' /\ UNCHANGED <<log, asking>>
      BY <1>2, <3>1, ExportCommits, ExportFrame DEF AuditInv, query
    <3>3. \A a \in archives' \ archives : a.has = members[e]
      <4>1. CASE Publish(e)
        BY <4>1 DEF Publish
      <4>2. CASE archives' = archives
        BY <4>2
      <4> QED
        BY <3>1, <4>1, <4>2 DEF ExportStep, TakeSnapshot, BeginExport, WriteSummaries,
           RewriteHistory, RewriteCitations, CopyHistory, CopyCitations, ExportFails
    <3> QED
      BY <1>2, <3>2, <3>3 DEF query, CommittedInv, FilesAreCommitted
  <2>3. CASE AuditCrash
    <3>1. Ids(<<>>) = {}
      BY DEF Ids
    <3>2. CommittedInv'
      BY <1>2, <2>3, <3>1
        DEF AuditCrash, Ended, auditFiles, NoSnapshot, NoMembers, WritingSteps,
         CommittedInv
    <3> QED
      BY <1>2, <2>3, <3>2 DEF AuditCrash, CommittedInv, FilesAreCommitted
  <2>4. CASE UNCHANGED auditVars
    BY <1>2, <2>4
      DEF auditVars, auditFiles, query, export, CommittedInv, FilesAreCommitted
  <2> QED
    BY <1>2, <2>1, <2>2, <2>3, <2>4 DEF AuditNext, QueryStep, ExportStep
<1>3. Inv => FilesAreCommitted
  OBVIOUS
<1> QED
  BY <1>1, <1>2, <1>3, AuditCorrect, PTL DEF AuditSpec
=============================================================================
