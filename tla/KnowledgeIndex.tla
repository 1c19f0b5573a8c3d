--------------------------- MODULE KnowledgeIndex ---------------------------
(***************************************************************************)
(* The knowledge base: content-addressed source files, the catalogue of    *)
(* documents in SQLite, and a vector index that is a projection of the     *)
(* catalogue, published as a file per generation behind a manifest.        *)
(* Uploads, switching documents on and off, reindexing and searches run    *)
(* at the same time; each change is committed first and projected later.   *)
(*                                                                         *)
(* A document is modelled with one chunk: the chunks of a document always  *)
(* change in one transaction.  A content stands for its SHA-256.  The      *)
(* index that is loaded in memory is the published one: a search compares  *)
(* the manifest's signature and loads it again if it differs.              *)
(***************************************************************************)
EXTENDS Naturals, FiniteSets

CONSTANTS
  Docs,        \* identifiers of documents
  Contents,    \* contents of source files; a source's path is its content's
  Callers,     \* requests that may be active at the same time
  Reindexers,  \* those of them that may reindex
  Generations, \* names of generation files
  None,        \* "no value"
  MaxEdits,    \* bound on changes of a source file behind the service's back
  MaxCrashes   \* bound on process crashes

ASSUME KnowledgeAssumptions ==
  /\ Reindexers \subseteq Callers
  /\ None \notin Docs \cup Contents \cup Callers \cup Generations
  /\ MaxEdits \in Nat
  /\ MaxCrashes \in Nat

VARIABLES
  (* the file system *)
  source,     \* content of the file at each content's path
  files,      \* the generation files: the text each document was embedded from
  manifest,   \* the published generation: its file and its entries
  (* the catalogue *)
  status,     \* knowledge_documents.status
  digest,     \* knowledge_documents.sha256
  path,       \* knowledge_documents.storage_path
  text,       \* the text of the document's chunks
  (* the process *)
  owner,      \* holder of the publisher's lock
  pc,         \* each caller's next step
  my,         \* each caller's local variables
  degraded,   \* the last rebuild failed or was cut off
  (* what a search has come across, and what was there to be found *)
  found, window,
  (* bounds *)
  edits, crashes

disk == <<source, files, manifest>>
catalogue == <<status, digest, path, text>>
searches == <<found, window>>
bounds == <<edits, crashes>>
vars == <<disk, catalogue, owner, pc, my, degraded, searches, bounds>>

-----------------------------------------------------------------------------
Texts == [Docs -> Contents \cup {None}]
Empty == [d \in Docs |-> None]
NoManifest == [file |-> None, entries |-> Empty]

\* Local variables of a call: the path or document it works on, the hash of its
\* source file, the text extracted from it, the rows it has read from the
\* catalogue, the documents its reindexing has not yet looked at, whether that
\* accepts changed sources, and the generation file it has written.
Locals ==
  [target : Docs \cup Contents \cup {None}, hash : Contents \cup {None},
   extract : Contents \cup {None}, seen : Texts, left : SUBSET Docs,
   force : BOOLEAN, generation : Generations \cup {None}]

Blank ==
  [target |-> None, hash |-> None, extract |-> None, seen |-> Empty,
   left |-> {}, force |-> FALSE, generation |-> None]

\* What ready documents have: of their chunks, this is what rebuild projects and
\* search validates.
CorpusOf(st, tx) == [d \in Docs |-> IF st[d] = "ready" THEN tx[d] ELSE None]
Corpus == CorpusOf(status, text)

\* Documents with their text, as a set.
Pairs(corpus) == {<<d, corpus[d]>> : d \in {e \in Docs : corpus[e] # None}}

Present == {d \in Docs : status[d] # "absent"}
Known(x) == \E d \in Present : digest[d] = x

SearchSteps == {"vector", "fetch", "return"}
PublishSteps == {"manifest", "clean"}
RebuildSteps == {"rebuild", "read", "embed"} \cup PublishSteps

\* The store's lock is free: publish holds it from the first file to the last.
StoreIsFree == \A c \in Callers : pc[c] \notin PublishSteps

Goto(c, from, to) ==
  /\ pc[c] = from
  /\ pc' = [pc EXCEPT ![c] = to]

\* A committed change of the catalogue is something searches may now see.
Commit(st, tx) ==
  /\ status' = st
  /\ text' = tx
  /\ window' = [c \in Callers |->
                  IF pc[c] \in SearchSteps
                  THEN window[c] \cup Pairs(CorpusOf(st, tx)) ELSE window[c]]
  /\ UNCHANGED found

Init ==
  /\ source = [x \in Contents |-> None]
  /\ files = [g \in Generations |-> Empty]
  /\ manifest = NoManifest
  /\ status = [d \in Docs |-> "absent"]
  /\ digest = Empty
  /\ path = Empty
  /\ text = Empty
  /\ owner = None
  /\ pc = [c \in Callers |-> "idle"]
  /\ my = [c \in Callers |-> Blank]
  /\ degraded = FALSE
  /\ found = [c \in Callers |-> {}]
  /\ window = [c \in Callers |-> {}]
  /\ edits = 0
  /\ crashes = 0

-----------------------------------------------------------------------------
(* Ingestion.                                                              *)

\* save: the file is put at its content's path, unless a file is there; one with
\* another content is refused.
Upload(c, x) ==
  /\ Goto(c, "idle", "ingest")
  /\ source[x] \in {None, x}
  /\ source' = [source EXCEPT ![x] = x]
  /\ my' = [my EXCEPT ![c].target = x]
  /\ UNCHANGED <<files, manifest, catalogue, owner, degraded, searches,
                 bounds>>

\* ingest_document hashes the source and looks for a document with that hash.
LookUp(c) ==
  /\ Goto(c, "ingest", "prepare")
  /\ ~Known(source[my[c].target])
  /\ my' = [my EXCEPT ![c].hash = source[my[c].target]]
  /\ UNCHANGED <<disk, catalogue, owner, degraded, searches, bounds>>

\* A document with that content exists: with equal metadata the request is a
\* repetition and refreshes the index, otherwise it is a conflict.
Duplicate(c) ==
  /\ \/ /\ pc[c] = "ingest"
        /\ Known(source[my[c].target])
     \/ /\ pc[c] = "persist"
        /\ Known(my[c].hash)
  /\ \E next \in {"rebuild", "idle"} : pc' = [pc EXCEPT ![c] = next]
  /\ my' = [my EXCEPT ![c] = Blank]
  /\ UNCHANGED <<disk, catalogue, owner, degraded, searches, bounds>>

\* The text is extracted...
Prepare(c) ==
  /\ Goto(c, "prepare", "compare")
  /\ my' = [my EXCEPT ![c].extract = source[my[c].target]]
  /\ UNCHANGED <<disk, catalogue, owner, degraded, searches, bounds>>

\* ...and the source hashed again: it must still have the hash it had.
Compare(c) ==
  /\ Goto(c, "compare", "persist")
  /\ source[my[c].target] = my[c].hash
  /\ UNCHANGED <<disk, catalogue, owner, my, degraded, searches, bounds>>

\* Faulty variant: the request cleans up the file of a failed ingestion.
IngestFails_DeletesSource(c) ==
  /\ pc[c] \in {"prepare", "compare", "persist"}
  /\ pc' = [pc EXCEPT ![c] = "idle"]
  /\ source' = [source EXCEPT ![my[c].target] = None]
  /\ my' = [my EXCEPT ![c] = Blank]
  /\ UNCHANGED <<files, manifest, catalogue, owner, degraded, searches,
                 bounds>>

\* The source has changed or has no text, or the insertion raises.  The file
\* stays: another request may be about to refer to it.
IngestFails(c) ==
  /\ pc[c] \in {"prepare", "compare", "persist"}
  /\ pc' = [pc EXCEPT ![c] = "idle"]
  /\ my' = [my EXCEPT ![c] = Blank]
  /\ UNCHANGED <<disk, catalogue, owner, degraded, searches, bounds>>

\* The document and its chunks are inserted; the unique hash decides a race.
Persist(c, d) ==
  /\ Goto(c, "persist", "rebuild")
  /\ ~Known(my[c].hash)
  /\ status[d] = "absent"
  /\ digest' = [digest EXCEPT ![d] = my[c].hash]
  /\ path' = [path EXCEPT ![d] = my[c].target]
  /\ Commit([status EXCEPT ![d] = "ready"],
            [text EXCEPT ![d] = my[c].extract])
  /\ my' = [my EXCEPT ![c] = Blank]
  /\ UNCHANGED <<disk, owner, degraded, bounds>>

-----------------------------------------------------------------------------
(* Switching documents, and reindexing.                                    *)

\* set_document_enabled, including a switch to the status the document has.
Toggle(c, d, st) ==
  /\ Goto(c, "idle", "rebuild")
  /\ d \in Present
  /\ Commit([status EXCEPT ![d] = st], text)
  /\ UNCHANGED <<disk, digest, path, owner, my, degraded, bounds>>

\* reindex reads the whole catalogue first and skips disabled documents.
BeginReindex(c, f) ==
  /\ c \in Reindexers
  /\ Goto(c, "idle", "reindex")
  /\ my' = [my EXCEPT ![c].seen = CorpusOf(status, digest),
                       ![c].left = {d \in Docs : status[d] = "ready"},
                       ![c].force = f]
  /\ UNCHANGED <<disk, catalogue, owner, degraded, searches, bounds>>

\* The document has been dealt with.
Done(c, d) ==
  my' = [my EXCEPT ![c] = [Blank EXCEPT !.seen = [my[c].seen EXCEPT ![d] = None],
                                        !.left = my[c].left \ {d},
                                        !.force = my[c].force]]

\* The text of the next document's source is extracted again...
Extract(c, d) ==
  /\ Goto(c, "reindex", "hash")
  /\ d \in my[c].left
  /\ my' = [my EXCEPT ![c].target = d, ![c].extract = source[path[d]]]
  /\ UNCHANGED <<disk, catalogue, owner, degraded, searches, bounds>>

\* ...and the source hashed afterwards.  A source with another hash than the row
\* had is accepted only by force.
Hash(c) ==
  LET d == my[c].target IN
  /\ Goto(c, "hash", "replace")
  /\ my[c].force \/ source[path[d]] = my[c].seen[d]
  /\ my' = [my EXCEPT ![c].hash = source[path[d]]]
  /\ UNCHANGED <<disk, catalogue, owner, degraded, searches, bounds>>

\* One document that cannot be reindexed does not stop the others.
Skip(c, d) ==
  /\ \/ pc[c] = "reindex" /\ d \in my[c].left
     \/ pc[c] \in {"hash", "replace"} /\ d = my[c].target
  /\ pc' = [pc EXCEPT ![c] = "reindex"]
  /\ Done(c, d)
  /\ UNCHANGED <<disk, catalogue, owner, degraded, searches, bounds>>

\* Faulty variant: replacing the chunks makes the document ready.
Replace_Enables(c, d) ==
  /\ Goto(c, "replace", "reindex")
  /\ d = my[c].target
  /\ my[c].hash = my[c].seen[d]
  /\ Done(c, d)
  /\ Commit([status EXCEPT ![d] = "ready"],
            [text EXCEPT ![d] = my[c].extract])
  /\ UNCHANGED <<disk, digest, path, owner, degraded, bounds>>

\* _replace_chunks.  The hash is updated if the source differs from the row as
\* it was READ AT THE START; a hash that another document has is refused.  The
\* row's status stays: it is assigned only where it would not change.
Replace(c, d) ==
  /\ Goto(c, "replace", "reindex")
  /\ d = my[c].target
  /\ IF my[c].hash = my[c].seen[d] THEN UNCHANGED digest
     ELSE /\ \A e \in Present \ {d} : digest[e] # my[c].hash
          /\ digest' = [digest EXCEPT ![d] = my[c].hash]
  /\ Done(c, d)
  /\ Commit(status, [text EXCEPT ![d] = my[c].extract])
  /\ UNCHANGED <<disk, path, owner, degraded, bounds>>

EndReindex(c) ==
  /\ Goto(c, "reindex", "rebuild")
  /\ my[c].left = {}
  /\ my' = [my EXCEPT ![c] = Blank]
  /\ UNCHANGED <<disk, catalogue, owner, degraded, searches, bounds>>

-----------------------------------------------------------------------------
(* Rebuilding the index, under the publisher's lock.                       *)

\* Faulty variant: the rows are read without the lock.
Acquire_Unlocked(c) ==
  /\ Goto(c, "rebuild", "read")
  /\ owner' = c
  /\ UNCHANGED <<disk, catalogue, my, degraded, searches, bounds>>

Acquire(c) ==
  /\ Goto(c, "rebuild", "read")
  /\ owner = None
  /\ owner' = c
  /\ UNCHANGED <<disk, catalogue, my, degraded, searches, bounds>>

ReadRows(c) ==
  /\ Goto(c, "read", "embed")
  /\ my' = [my EXCEPT ![c].seen = Corpus]
  /\ UNCHANGED <<disk, catalogue, owner, degraded, searches, bounds>>

\* The call returns and gives the lock back.
Leave(c, failed) ==
  /\ pc' = [pc EXCEPT ![c] = "idle"]
  /\ owner' = None
  /\ my' = [my EXCEPT ![c] = Blank]
  /\ degraded' = failed

\* Reading, embedding or writing raises: the failure is reported as degradation,
\* and nothing of it stays on disk.
RebuildRaises(c) ==
  /\ pc[c] \in {"read", "embed"}
  /\ Leave(c, TRUE)
  /\ UNCHANGED <<disk, catalogue, searches, bounds>>

FreeNames == {g \in Generations : files[g] = Empty /\ manifest.file # g}

\* Faulty variant: older generations are removed before the new one is published.
WriteGeneration_CleansFirst(c, g) ==
  /\ Goto(c, "embed", "manifest")
  /\ StoreIsFree
  /\ my[c].seen # Empty
  /\ g \in FreeNames
  /\ files' = [f \in Generations |-> IF f = g THEN my[c].seen ELSE Empty]
  /\ my' = [my EXCEPT ![c].generation = g]
  /\ UNCHANGED <<source, manifest, catalogue, owner, degraded, searches,
                 bounds>>

\* publish: a file of its own for the new generation, read back and validated.
WriteGeneration(c, g) ==
  /\ Goto(c, "embed", "manifest")
  /\ StoreIsFree
  /\ my[c].seen # Empty
  /\ g \in FreeNames
  /\ files' = [files EXCEPT ![g] = my[c].seen]
  /\ my' = [my EXCEPT ![c].generation = g]
  /\ UNCHANGED <<source, manifest, catalogue, owner, degraded, searches,
                 bounds>>

\* The manifest is replaced.  An empty corpus has a manifest and no file.
WriteManifest(c) ==
  /\ \/ pc[c] = "manifest"
     \/ pc[c] = "embed" /\ my[c].seen = Empty /\ StoreIsFree
  /\ pc' = [pc EXCEPT ![c] = "clean"]
  /\ manifest' = [file |-> my[c].generation, entries |-> my[c].seen]
  /\ UNCHANGED <<source, files, catalogue, owner, my, degraded, searches,
                 bounds>>

\* An exception while publishing: the file is removed unless the manifest names
\* it already, which it does if only the directory could not be synced.
PublishRaises(c) ==
  /\ pc[c] \in PublishSteps
  /\ files' = [g \in Generations |->
                 IF g = my[c].generation /\ manifest.file # g
                 THEN Empty ELSE files[g]]
  /\ Leave(c, TRUE)
  /\ UNCHANGED <<source, manifest, catalogue, searches, bounds>>

\* Other generations are removed, those that can be.
CleanUp(c) ==
  /\ pc[c] = "clean"
  /\ \E S \in SUBSET (Generations \ {my[c].generation}) :
       files' = [g \in Generations |-> IF g \in S THEN Empty ELSE files[g]]
  /\ Leave(c, FALSE)
  /\ UNCHANGED <<source, manifest, catalogue, searches, bounds>>

-----------------------------------------------------------------------------
(* retrieve_with_report: keyword search, vector search, missing chunks, each *)
(* a read of its own.                                                      *)

SearchKeywords(c, S) ==
  /\ Goto(c, "idle", "vector")
  /\ S \subseteq Pairs(Corpus)
  /\ found' = [found EXCEPT ![c] = S]
  /\ window' = [window EXCEPT ![c] = Pairs(Corpus)]
  /\ UNCHANGED <<disk, catalogue, owner, my, degraded, bounds>>

\* Faulty variant: the manifest is not compared with the catalogue.
SearchVectors_Trusting(c, S) ==
  /\ Goto(c, "vector", "fetch")
  /\ StoreIsFree
  /\ manifest.file # None
  /\ S \subseteq Pairs(files[manifest.file])
  /\ found' = [found EXCEPT ![c] = @ \cup S]
  /\ UNCHANGED <<disk, catalogue, owner, my, degraded, window, bounds>>

\* The published index is used only if its entries are the catalogue's.
SearchVectors(c, S) ==
  /\ Goto(c, "vector", "fetch")
  /\ StoreIsFree
  /\ manifest.file # None
  /\ manifest.entries = Corpus
  /\ files[manifest.file] = manifest.entries
  /\ S \subseteq Pairs(files[manifest.file])
  /\ found' = [found EXCEPT ![c] = @ \cup S]
  /\ UNCHANGED <<disk, catalogue, owner, my, degraded, window, bounds>>

\* Vectors are unavailable: the keyword hits are the answer.
SkipVectors(c) ==
  /\ Goto(c, "vector", "return")
  /\ UNCHANGED <<disk, catalogue, owner, my, degraded, searches, bounds>>

\* get_many: chunks found by their vector only are read, if they are ready.
Fetch(c) ==
  /\ Goto(c, "fetch", "return")
  /\ found' = [found EXCEPT ![c] =
                 @ \cup {p \in Pairs(Corpus) : \E q \in found[c] : q[1] = p[1]}]
  /\ UNCHANGED <<disk, catalogue, owner, my, degraded, window, bounds>>

Answer(c) ==
  /\ Goto(c, "return", "idle")
  /\ found' = [found EXCEPT ![c] = {}]
  /\ window' = [window EXCEPT ![c] = {}]
  /\ UNCHANGED <<disk, catalogue, owner, my, degraded, bounds>>

-----------------------------------------------------------------------------
(* The world.                                                              *)

\* Somebody changes a stored source file.
EditSource(x, y) ==
  /\ edits < MaxEdits
  /\ source[x] \notin {None, y}
  /\ source' = [source EXCEPT ![x] = y]
  /\ edits' = edits + 1
  /\ UNCHANGED <<files, manifest, catalogue, owner, pc, my, degraded,
                 searches, crashes>>

\* The process ends.  Nothing rebuilds the index at the next start.
Crash ==
  /\ crashes < MaxCrashes
  /\ crashes' = crashes + 1
  /\ owner' = None
  /\ pc' = [c \in Callers |-> "idle"]
  /\ my' = [c \in Callers |-> Blank]
  /\ found' = [c \in Callers |-> {}]
  /\ window' = [c \in Callers |-> {}]
  /\ degraded' = TRUE
  /\ UNCHANGED <<disk, catalogue, edits>>

IngestNext(c) ==
  \/ \E x \in Contents : Upload(c, x)
  \/ LookUp(c)
  \/ Duplicate(c)
  \/ Prepare(c)
  \/ Compare(c)
  \/ IngestFails(c)
  \/ \E d \in Docs : Persist(c, d)

MaintenanceNext(c) ==
  \/ \E d \in Docs, st \in {"ready", "disabled"} : Toggle(c, d, st)
  \/ \E f \in BOOLEAN : BeginReindex(c, f)
  \/ \E d \in Docs : Extract(c, d)
  \/ Hash(c)
  \/ \E d \in Docs : Skip(c, d)
  \/ \E d \in Docs : Replace(c, d)
  \/ EndReindex(c)

RebuildNext(c) ==
  \/ Acquire(c)
  \/ ReadRows(c)
  \/ \E g \in Generations : WriteGeneration(c, g)
  \/ WriteManifest(c)
  \/ CleanUp(c)

SearchNext(c) ==
  \/ \E S \in SUBSET Pairs(Corpus) : SearchKeywords(c, S)
  \/ \E S \in SUBSET (Docs \X Contents) : SearchVectors(c, S)
  \/ SkipVectors(c)
  \/ Fetch(c)
  \/ Answer(c)

Next ==
  \/ \E c \in Callers : IngestNext(c)
  \/ \E c \in Callers : MaintenanceNext(c)
  \/ \E c \in Callers : RebuildNext(c)
  \/ \E c \in Callers : RebuildRaises(c)
  \/ \E c \in Callers : PublishRaises(c)
  \/ \E c \in Callers : SearchNext(c)
  \/ \E x, y \in Contents : EditSource(x, y)
  \/ Crash

Spec == Init /\ [][Next]_vars
-----------------------------------------------------------------------------
(* Properties.                                                             *)

\* Type correctness of the whole state.
TypeOK ==
  /\ source \in [Contents -> Contents \cup {None}]
  /\ files \in [Generations -> Texts]
  /\ manifest \in [file : Generations \cup {None}, entries : Texts]
  /\ status \in [Docs -> {"absent", "ready", "disabled"}]
  /\ digest \in Texts
  /\ path \in Texts
  /\ text \in Texts
  /\ owner \in Callers \cup {None}
  /\ pc \in [Callers -> {"idle", "ingest", "prepare", "compare", "persist",
                         "reindex", "hash", "replace"} \cup RebuildSteps \cup SearchSteps]
  /\ my \in [Callers -> Locals]
  /\ degraded \in BOOLEAN
  /\ found \in [Callers -> SUBSET (Docs \X Contents)]
  /\ window \in [Callers -> SUBSET (Docs \X Contents)]
  /\ edits \in 0..MaxEdits
  /\ crashes \in 0..MaxCrashes

\* Whatever a search has used, by word or by vector, was the text of a ready
\* document at some moment of that search: three reads beside every kind of
\* change never bring up a chunk that was switched off or replaced before.
FoundWasCurrent == \A c \in Callers : found[c] \subseteq window[c]

\* When nobody is between a committed change and its projection, and the last
\* rebuild did not fail, the published index is the catalogue's: an older view
\* of the catalogue never overwrites a newer one.
Projecting == {"reindex", "hash", "replace"} \cup RebuildSteps
IndexFollowsCatalogue ==
  (~degraded /\ \A c \in Callers : pc[c] \notin Projecting) =>
    manifest.entries = Corpus

\* Whenever the process ends, the manifest on disk names a file that is there
\* and holds what the manifest says, so that the next process can load it.
PublishedIsWhole ==
  manifest.file # None => files[manifest.file] = manifest.entries

\* A source file stays as long as a document refers to it, although requests
\* for the same content share it and some of them fail.
SourceKept == \A d \in Present : source[path[d]] # None

\* A document's chunks are those of the content whose hash its row shows.
ChunksMatchDigest == \A d \in Docs : text[d] = digest[d]

\* A disabled document comes back only by being enabled: a reindexing that began
\* before it was disabled does not bring it back.
DisabledStaysDisabled ==
  [][\A d \in Docs :
       status[d] = "disabled" /\ status'[d] = "ready" =>
         \E c \in Callers : pc[c] = "idle" /\ pc'[c] = "rebuild"]_vars
=============================================================================
