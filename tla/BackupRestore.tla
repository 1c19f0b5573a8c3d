--------------------------- MODULE BackupRestore ---------------------------
(***************************************************************************)
(* A backup of the state directory, and its restoration into a new root.   *)
(*                                                                         *)
(* A backup is meant for a stopped service, but nobody stops the service   *)
(* for it: it takes a lock that the service holds too, if both use the     *)
(* same directory, and otherwise relies on what it observes.  It lists the *)
(* files one directory after the other, copies the database, copies the    *)
(* files, and looks again.  The archive and its checksum are then linked,  *)
(* one after the other, at names that must be free.                        *)
(*                                                                         *)
(* The service stores a file before it commits the row that refers to it,  *)
(* and removes a file only after the row has been consumed.  A shutdown    *)
(* may give up waiting for a worker, whose daemon thread goes on without   *)
(* the lock.  A file stands for its name, inode, size and times, and the   *)
(* rows for the contents and times of the database's files.                *)
(***************************************************************************)
EXTENDS Naturals, Sequences

CONSTANTS
  Items,       \* what the service keeps: a file and a row that refers to it
  Directory,   \* the directory of each item's file, by its place in the walk
  Directories, \* the number of directories
  Backups,     \* processes that create a backup with the same destination
  Nothing,     \* "no value"
  MaxKills     \* bound on processes killed, and on archives replaced by others

\* Who made an archive ("no value" is somebody else), and its members: the items
\* that the database in it refers to, then the files of each directory.
Archives ==
  [by : Backups \cup {Nothing}, members : Seq(SUBSET Items)]

ASSUME BackupRestoreAssumptions ==
  /\ Directories \in Nat \ {0}
  /\ Directory \in [Items -> 1..Directories]
  /\ Nothing \notin Backups \cup Archives
  /\ MaxKills \in Nat

VARIABLES
  (* the service *)
  service,   \* "up" with its lock, "unlocked", or "down"
  item,      \* how far each item is
  (* the backups *)
  bpc, job,  \* each backup's next step and local variables
  archive,   \* the file at the destination
  sidecar,   \* the archive whose checksum is beside it
  reported,  \* backups that returned a result
  (* the restoration *)
  rpc,       \* its next step
  verified,  \* the archive that was verified
  staging,   \* the members extracted so far
  root,      \* the restored root
  kills      \* kills and replacements so far

serviceVars == <<service, item>>
published == <<archive, sidecar, reported>>
backupVars == <<bpc, job, published>>
restoreVars == <<rpc, verified, staging, root>>
outside == <<serviceVars, restoreVars, kills>>
archiveVars == <<backupVars, outside>>

-----------------------------------------------------------------------------
\* The files of a directory, and the rows with their past.
Files(d) ==
  {i \in Items :
     Directory[i] = d /\ item[i] \in {"stored", "active", "consumed"}}

Row(i) ==
  IF item[i] \in {"active", "consumed"} THEN item[i]
  ELSE IF item[i] = "removed" THEN "consumed"
  ELSE "none"

Rows == [i \in Items |-> Row(i)]

\* The items that the database refers to.
Active == {i \in Items : Row(i) = "active"}

NoJob == [held |-> FALSE, seen |-> <<>>, watch |-> Nothing,
          dump |-> {}, again |-> 0]

Members(b) == <<job[b].dump>> \o job[b].seen

At(b, from, to) ==
  /\ bpc[b] = from
  /\ bpc' = [bpc EXCEPT ![b] = to]

\* The lock is released however the backup ends.
Leave(b) ==
  /\ bpc' = [bpc EXCEPT ![b] = "done"]
  /\ job' = [job EXCEPT ![b] = NoJob]

ArchiveInit ==
  /\ service = "up"
  /\ item = [i \in Items |-> "new"]
  /\ bpc = [b \in Backups |-> "idle"]
  /\ job = [b \in Backups |-> NoJob]
  /\ archive = Nothing
  /\ sidecar = Nothing
  /\ reported = {}
  /\ rpc = "idle"
  /\ verified = Nothing
  /\ staging = <<>>
  /\ root = Nothing
  /\ kills = 0

-----------------------------------------------------------------------------
(* The service.                                                            *)

\* Bound: what the service does once there is an archive is not followed.
Becomes(i, from, to) ==
  /\ service # "down"
  /\ archive = Nothing
  /\ item[i] = from
  /\ item' = [item EXCEPT ![i] = to]
  /\ UNCHANGED <<service, backupVars, restoreVars, kills>>

\* A file is stored, and its row is committed; without the row it is removed.
Store(i) == Becomes(i, "new", "stored")
Commit(i) == Becomes(i, "stored", "active")
Discard(i) == Becomes(i, "stored", "discarded")

\* The row is consumed, and the file removed.
Consume(i) == Becomes(i, "active", "consumed")
RemoveFile(i) == Becomes(i, "consumed", "removed")

\* The lifespan ends, whether or not the workers have.
Stop ==
  /\ service = "up"
  /\ service' \in {"unlocked", "down"}
  /\ UNCHANGED <<item, backupVars, restoreVars, kills>>

Exit ==
  /\ service = "unlocked"
  /\ service' = "down"
  /\ UNCHANGED <<item, backupVars, restoreVars, kills>>

\* A service takes its lock, shared, unless a backup has it; a service whose
\* database is not directly in the backup's data root takes another lock.
Start ==
  /\ service = "down"
  /\ \/ service' = "up" /\ \A b \in Backups : ~job[b].held
     \/ service' = "unlocked"
  /\ UNCHANGED <<item, backupVars, restoreVars, kills>>

-----------------------------------------------------------------------------
(* create_backup.                                                          *)

\* The names are free.
Begin(b) ==
  /\ At(b, "idle", "acquire")
  /\ archive = Nothing /\ sidecar = Nothing
  /\ UNCHANGED <<outside, published, job>>

\* An exclusive lock on a file in the data root, or an error at once.
Acquire(b) ==
  /\ At(b, "acquire", "walk")
  /\ \A d \in Backups : ~job[d].held
  /\ service # "up"
  /\ job' = [job EXCEPT ![b].held = TRUE]
  /\ UNCHANGED <<outside, published>>

\* _build_inventory: each directory is read at a moment of its own.
Walk(b) ==
  LET d == Len(job[b].seen) + 1 IN
  /\ At(b, "walk", IF d = Directories THEN "watch" ELSE "walk")
  /\ job' = [job EXCEPT ![b].seen = Append(@, Files(d))]
  /\ UNCHANGED <<outside, published>>

\* _database_watch_states.
Watch(b) ==
  /\ At(b, "watch", "snapshot")
  /\ job' = [job EXCEPT ![b].watch = Rows]
  /\ UNCHANGED <<outside, published>>

\* SQLite's backup sees one committed state.
Snapshot(b) ==
  /\ At(b, "snapshot", "copy")
  /\ job' = [job EXCEPT ![b].dump = Active]
  /\ UNCHANGED <<outside, published>>

\* Every listed file is still the one that was listed, and is copied.
CopyMembers(b) ==
  /\ At(b, "copy", "recheck")
  /\ \A d \in 1..Directories : job[b].seen[d] \subseteq Files(d)
  /\ UNCHANGED <<outside, published, job>>

\* Faulty variant: only the files that were copied are looked at again.
Recheck_OnlyCopied(b) ==
  LET d == job[b].again + 1 IN
  /\ At(b, "recheck", IF d = Directories THEN "database" ELSE "recheck")
  /\ job[b].seen[d] \subseteq Files(d)
  /\ job' = [job EXCEPT ![b].again = d]
  /\ UNCHANGED <<outside, published>>

\* The inventory is built again, and is the same.
Recheck(b) ==
  LET d == job[b].again + 1 IN
  /\ At(b, "recheck", IF d = Directories THEN "database" ELSE "recheck")
  /\ Files(d) = job[b].seen[d]
  /\ job' = [job EXCEPT ![b].again = d]
  /\ UNCHANGED <<outside, published>>

\* _assert_database_watch_unchanged.
RecheckDatabase(b) ==
  /\ At(b, "database", "publish")
  /\ Rows = job[b].watch
  /\ UNCHANGED <<outside, published, job>>

\* Whatever changed, whatever raises: nothing is published.
GiveUp(b) ==
  /\ bpc[b] \in {"acquire", "walk", "watch", "snapshot", "copy", "recheck",
                 "database", "publish"}
  /\ Leave(b)
  /\ UNCHANGED <<outside, published>>

\* _publish_backup_pair: a link never replaces a file.
LinkArchive(b) ==
  /\ At(b, "publish", "checksum")
  /\ archive = Nothing
  /\ archive' = [by |-> b, members |-> Members(b)]
  /\ UNCHANGED <<outside, sidecar, reported, job>>

LinkChecksum(b) ==
  /\ At(b, "checksum", "sync")
  /\ sidecar = Nothing
  /\ sidecar' = b
  /\ UNCHANGED <<outside, archive, reported, job>>

\* Faulty variant: the result is there before the directory is synced.
Report_BeforeSync(b) ==
  /\ bpc[b] = "sync"
  /\ b \notin reported
  /\ reported' = reported \cup {b}
  /\ UNCHANGED <<outside, bpc, job, archive, sidecar>>

\* The result is returned after the directory has been synced.
Report(b) ==
  /\ bpc[b] = "sync"
  /\ reported' = reported \cup {b}
  /\ Leave(b)
  /\ UNCHANGED <<outside, archive, sidecar>>

\* A publication that fails removes the files it linked itself.
RollBack(b) ==
  /\ bpc[b] \in {"checksum", "sync"}
  /\ archive' = IF archive # Nothing /\ archive.by = b THEN Nothing ELSE archive
  /\ sidecar' = IF sidecar = b THEN Nothing ELSE sidecar
  /\ Leave(b)
  /\ UNCHANGED <<outside, reported>>

\* A killed process holds no lock, and what it linked stays.
KillBackup(b) ==
  /\ bpc[b] \notin {"idle", "done"}
  /\ kills < MaxKills
  /\ kills' = kills + 1
  /\ Leave(b)
  /\ UNCHANGED <<serviceVars, restoreVars, published>>

-----------------------------------------------------------------------------
(* restore_backup.                                                         *)

\* Somebody puts another archive in the place of the one that was published.
Replace ==
  /\ archive # Nothing
  /\ kills < MaxKills
  /\ kills' = kills + 1
  /\ archive' = [by |-> Nothing,
                 members |-> [n \in 1..(Directories + 1) |-> {}]]
  /\ UNCHANGED <<serviceVars, bpc, job, sidecar, reported, restoreVars>>

\* Faulty variant: the archive is good because it agrees with itself.
Verify_Alone ==
  /\ rpc = "idle"
  /\ root = Nothing /\ archive # Nothing
  /\ verified' = archive
  /\ rpc' = "extract"
  /\ UNCHANGED <<serviceVars, backupVars, staging, root, kills>>

\* The destination does not exist, and the checksum is the archive's.  Its digest
\* and its manifest are taken from one reading, where the code reads it twice.
Verify ==
  /\ rpc = "idle"
  /\ root = Nothing /\ archive # Nothing
  /\ sidecar # Nothing /\ sidecar = archive.by
  /\ verified' = archive
  /\ rpc' = "extract"
  /\ UNCHANGED <<serviceVars, backupVars, staging, root, kills>>

\* A member is extracted into a private directory, and its digest compared with
\* the manifest that was verified.
Extract ==
  LET n == Len(staging) + 1 IN
  /\ rpc = "extract"
  /\ archive # Nothing
  /\ archive.members[n] = verified.members[n]
  /\ staging' = Append(staging, archive.members[n])
  /\ rpc' = IF n = Len(verified.members) THEN "rehash" ELSE "extract"
  /\ UNCHANGED <<serviceVars, backupVars, verified, root, kills>>

\* The archive is still the one that was verified.
Rehash ==
  /\ rpc = "rehash"
  /\ archive = verified
  /\ rpc' = "rename"
  /\ UNCHANGED <<serviceVars, backupVars, verified, staging, root, kills>>

Rename ==
  /\ rpc = "rename"
  /\ root = Nothing
  /\ root' = staging
  /\ rpc' = "done"
  /\ staging' = <<>>
  /\ UNCHANGED <<serviceVars, backupVars, verified, kills>>

\* A failure, or a kill, leaves nothing at the destination.
RestoreFails ==
  /\ rpc \in {"extract", "rehash", "rename"}
  /\ rpc' = "done"
  /\ verified' = Nothing
  /\ staging' = <<>>
  /\ UNCHANGED <<serviceVars, backupVars, root, kills>>

-----------------------------------------------------------------------------
BackupNext(b) ==
  \/ Begin(b)
  \/ Acquire(b)
  \/ Walk(b)
  \/ Watch(b)
  \/ Snapshot(b)
  \/ CopyMembers(b)
  \/ Recheck(b)
  \/ RecheckDatabase(b)
  \/ GiveUp(b)
  \/ LinkArchive(b)
  \/ LinkChecksum(b)
  \/ Report(b)
  \/ RollBack(b)
  \/ KillBackup(b)

RestoreNext ==
  \/ Verify
  \/ Extract
  \/ Rehash
  \/ Rename
  \/ RestoreFails
  \/ Replace

ServiceNext ==
  \/ \E i \in Items :
       Store(i) \/ Commit(i) \/ Discard(i) \/ Consume(i) \/ RemoveFile(i)
  \/ Stop
  \/ Exit
  \/ Start

ArchiveNext ==
  \/ ServiceNext
  \/ \E b \in Backups : BackupNext(b)
  \/ RestoreNext

ArchiveSpec == ArchiveInit /\ [][ArchiveNext]_archiveVars
-----------------------------------------------------------------------------
(* Properties.                                                             *)

BackupSteps ==
  {"idle", "acquire", "walk", "watch", "snapshot", "copy", "recheck",
   "database", "publish", "checksum", "sync", "done"}

RowMaps == [Items -> {"none", "active", "consumed"}]

Jobs ==
  [held : BOOLEAN, seen : Seq(SUBSET Items), watch : RowMaps \cup {Nothing},
   dump : SUBSET Items, again : 0..Directories]

\* Type correctness of the whole state.
ArchiveTypeOK ==
  /\ service \in {"up", "unlocked", "down"}
  /\ item \in [Items -> {"new", "stored", "active", "consumed", "removed",
                        "discarded"}]
  /\ bpc \in [Backups -> BackupSteps]
  /\ job \in [Backups -> Jobs]
  /\ archive \in Archives \cup {Nothing}
  /\ sidecar \in Backups \cup {Nothing}
  /\ reported \in SUBSET Backups
  /\ rpc \in {"idle", "extract", "rehash", "rename", "done"}
  /\ verified \in Archives \cup {Nothing}
  /\ staging \in Seq(SUBSET Items)
  /\ root \in Seq(SUBSET Items) \cup {Nothing}
  /\ kills \in 0..MaxKills

\* The archive has every file that the database in it refers to, although the
\* files were listed before the database was copied, and the service, on another
\* lock, may have been storing and removing files all the while.
ArchiveHasItsFiles ==
  archive # Nothing /\ archive.by # Nothing =>
    \A i \in archive.members[1] : i \in archive.members[1 + Directory[i]]

\* A backup that reported success is there, archive and checksum, as long as
\* nobody outside replaces it: no other backup with the same destination, and
\* no roll-back, takes it away or completes it with a checksum of its own.
ReportedStays ==
  \A b \in reported :
    /\ sidecar = b
    /\ archive # Nothing /\ archive.by \in {b, Nothing}

\* The restored root is whole: member for member, an archive that a backup made
\* and whose checksum was beside it, in spite of failures and replacements
\* while members were being extracted.
RestoredIsWhole ==
  root # Nothing =>
    /\ verified # Nothing /\ verified.by \in Backups
    /\ root = verified.members
=============================================================================
