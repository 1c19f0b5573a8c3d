------------------------ MODULE KnowledgeIndexProofs ------------------------
(***************************************************************************)
(* Theorems about KnowledgeIndex, for every set of documents, contents,    *)
(* requests and generation files, and any number of edits and crashes.     *)
(***************************************************************************)
EXTENDS KnowledgeIndex, TLAPS

-----------------------------------------------------------------------------
(* The inductive invariant.                                                *)

IngestSteps == {"ingest", "prepare", "compare", "persist"}

\* The steps at which a call has still to read the rows it will project.
Duty == {"reindex", "hash", "replace", "rebuild", "read"}

\* The steps at which a call holds the publisher's lock.
Held == {"read", "embed"} \cup PublishSteps

LockInv == \A c \in Callers : pc[c] \in Held <=> owner = c

\* A source file that a document or an ingestion is about is there, and what is
\* left to reindex are documents.
SourceInv ==
  /\ \A d \in Present : path[d] \in Contents /\ source[path[d]] # None
  /\ \A c \in Callers :
       /\ pc[c] \in IngestSteps =>
            my[c].target \in Contents /\ source[my[c].target] # None
       /\ pc[c] \in {"reindex", "hash", "replace"} => my[c].left \subseteq Present
       /\ pc[c] \in {"hash", "replace"} => my[c].target \in my[c].left

\* Only a publication has a generation: before the manifest is replaced, a whole
\* file that the manifest does not name, and then the published one.
GenerationInv ==
  \A c \in Callers :
    /\ pc[c] \notin PublishSteps => my[c].generation = None
    /\ pc[c] = "manifest" =>
         /\ my[c].generation \in Generations
         /\ files[my[c].generation] = my[c].seen
    /\ pc[c] = "clean" => manifest.file = my[c].generation

\* Unless somebody will read the catalogue again, the rows that are about to be
\* published, or were published last, are the catalogue's.
IndexInv ==
  (\A c \in Callers : pc[c] \notin Duty) =>
    /\ \A c \in Callers : pc[c] \in {"embed", "manifest"} => my[c].seen = Corpus
    /\ \A c \in Callers : pc[c] = "clean" => manifest.entries = Corpus
    /\ (~degraded /\ \A c \in Callers : pc[c] \notin Held) =>
         manifest.entries = Corpus

\* A search has had the present catalogue before it.
WindowInv ==
  \A c \in Callers : pc[c] \in SearchSteps => Pairs(Corpus) \subseteq window[c]

KnowledgeInv ==
  /\ TypeOK
  /\ LockInv
  /\ SourceInv
  /\ GenerationInv
  /\ PublishedIsWhole
  /\ IndexInv
  /\ WindowInv
  /\ FoundWasCurrent

-----------------------------------------------------------------------------
(* What the steps do to local variables.                                   *)

Steps ==
  {"idle", "ingest", "prepare", "compare", "persist", "reindex", "hash",
   "replace"} \cup RebuildSteps \cup SearchSteps
Targets == Docs \cup Contents \cup {None}
Hashes == Contents \cup {None}

\* What the types say of each caller.
LEMMA Types ==
  ASSUME TypeOK
  PROVE  /\ my \in [Callers -> Locals] /\ pc \in [Callers -> Steps]
         /\ \A c \in Callers : /\ my[c].target \in Targets
                               /\ my[c].hash \in Hashes
                               /\ my[c].extract \in Hashes
                               /\ my[c].seen \in Texts
                               /\ my[c].left \subseteq Docs
                               /\ my[c].force \in BOOLEAN
                               /\ my[c].generation \in Generations \cup {None}
<1>1. my \in [Callers -> Locals] /\ pc \in [Callers -> Steps]
  BY DEF TypeOK, Steps
<1>2. \A l \in Locals : /\ l.target \in Targets /\ l.hash \in Hashes
                        /\ l.extract \in Hashes /\ l.seen \in Texts
                        /\ l.left \subseteq Docs /\ l.force \in BOOLEAN
                        /\ l.generation \in Generations \cup {None}
  BY DEF Locals, Targets, Hashes
<1> QED
  BY <1>1, <1>2

\* Assigning to one field changes no other.
LEMMA AssignTarget ==
  ASSUME NEW l \in Locals, NEW v \in Targets, NEW k, k = [l EXCEPT !.target = v]
  PROVE  /\ k \in Locals /\ k.target = v
         /\ k.hash = l.hash /\ k.extract = l.extract /\ k.seen = l.seen
         /\ k.left = l.left /\ k.force = l.force /\ k.generation = l.generation
BY DEF Locals, Targets, Hashes

LEMMA AssignHash ==
  ASSUME NEW l \in Locals, NEW v \in Hashes, NEW k, k = [l EXCEPT !.hash = v]
  PROVE  /\ k \in Locals /\ k.hash = v
         /\ k.target = l.target /\ k.extract = l.extract /\ k.seen = l.seen
         /\ k.left = l.left /\ k.force = l.force /\ k.generation = l.generation
BY DEF Locals, Targets, Hashes

LEMMA AssignExtract ==
  ASSUME NEW l \in Locals, NEW v \in Hashes, NEW k, k = [l EXCEPT !.extract = v]
  PROVE  /\ k \in Locals /\ k.extract = v
         /\ k.target = l.target /\ k.hash = l.hash /\ k.seen = l.seen
         /\ k.left = l.left /\ k.force = l.force /\ k.generation = l.generation
BY DEF Locals, Targets, Hashes

LEMMA AssignSeen ==
  ASSUME NEW l \in Locals, NEW v \in Texts, NEW k, k = [l EXCEPT !.seen = v]
  PROVE  /\ k \in Locals /\ k.seen = v
         /\ k.target = l.target /\ k.hash = l.hash /\ k.extract = l.extract
         /\ k.left = l.left /\ k.force = l.force /\ k.generation = l.generation
BY DEF Locals, Targets, Hashes

LEMMA AssignLeft ==
  ASSUME NEW l \in Locals, NEW v \in SUBSET Docs, NEW k, k = [l EXCEPT !.left = v]
  PROVE  /\ k \in Locals /\ k.left = v
         /\ k.target = l.target /\ k.hash = l.hash /\ k.extract = l.extract
         /\ k.seen = l.seen /\ k.force = l.force /\ k.generation = l.generation
BY DEF Locals, Targets, Hashes

LEMMA AssignForce ==
  ASSUME NEW l \in Locals, NEW v \in BOOLEAN, NEW k, k = [l EXCEPT !.force = v]
  PROVE  /\ k \in Locals /\ k.force = v
         /\ k.target = l.target /\ k.hash = l.hash /\ k.extract = l.extract
         /\ k.seen = l.seen /\ k.left = l.left /\ k.generation = l.generation
BY DEF Locals, Targets, Hashes

LEMMA AssignGeneration ==
  ASSUME NEW l \in Locals, NEW v \in Generations, NEW k, k = [l EXCEPT !.generation = v]
  PROVE  /\ k \in Locals /\ k.generation = v
         /\ k.target = l.target /\ k.hash = l.hash /\ k.extract = l.extract
         /\ k.seen = l.seen /\ k.left = l.left /\ k.force = l.force
BY DEF Locals, Targets, Hashes

\* The empty local variables.
LEMMA BlankType == Blank \in Locals
BY DEF Blank, Locals, Empty, Texts

\* A step that assigns to one caller's variables.
LEMMA Assigned ==
  ASSUME TypeOK, NEW c \in Callers, NEW l \in Locals, my' = [my EXCEPT ![c] = l]
  PROVE  /\ my' \in [Callers -> Locals] /\ my'[c] = l
         /\ \A d \in Callers \ {c} : my'[d] = my[d]
BY Types

\* A call that returns forgets everything.
LEMMA Returned ==
  ASSUME TypeOK, NEW c \in Callers, my' = [my EXCEPT ![c] = Blank]
  PROVE  /\ my' \in [Callers -> Locals] /\ my'[c].generation = None
         /\ \A d \in Callers \ {c} : my'[d] = my[d]
BY BlankType, Assigned DEF Blank

\* The variables of the other callers stay.
Alone(c) ==
  /\ my' \in [Callers -> Locals] /\ pc' \in [Callers -> Steps]
  /\ \A d \in Callers \ {c} : pc'[d] = pc[d] /\ my'[d] = my[d]

\* The rows that are read are texts of documents.
LEMMA CorpusType ==
  ASSUME TypeOK
  PROVE  Corpus \in Texts /\ CorpusOf(status, digest) \in Texts
BY DEF TypeOK, Corpus, CorpusOf, Texts

\* An upload puts a file at its content's path and touches no other.
LEMMA UploadEffect ==
  ASSUME TypeOK, NEW c \in Callers, NEW x \in Contents, Upload(c, x)
  PROVE  /\ pc[c] = "idle" /\ pc'[c] = "ingest" /\ Alone(c)
         /\ my'[c].target = x /\ my'[c].generation = my[c].generation
         /\ source' \in [Contents -> Contents \cup {None}] /\ source'[x] # None
         /\ \A y \in Contents \ {x} : source'[y] = source[y]
         /\ UNCHANGED <<files, manifest, catalogue, owner, degraded, searches, bounds>>
<1> DEFINE l == [my[c] EXCEPT !.target = x]
<1>1. /\ pc[c] = "idle" /\ pc' = [pc EXCEPT ![c] = "ingest"]
      /\ my' = [my EXCEPT ![c] = l]
      /\ source' = [source EXCEPT ![x] = x]
      /\ UNCHANGED <<files, manifest, catalogue, owner, degraded, searches, bounds>>
  BY DEF Upload, Goto
<1>2. my[c] \in Locals /\ x \in Targets
  BY Types DEF Targets
<1>3. /\ l \in Locals
      /\ l.target = x /\ l.generation = my[c].generation
  BY <1>2, AssignTarget
<1> HIDE DEF l
<1>4. /\ my' \in [Callers -> Locals] /\ \A d \in Callers \ {c} : my'[d] = my[d]
      /\ my'[c].target = x /\ my'[c].generation = my[c].generation
  BY <1>1, <1>3, Assigned
<1>5. /\ source' \in [Contents -> Contents \cup {None}] /\ source'[x] # None
      /\ \A y \in Contents \ {x} : source'[y] = source[y]
  BY <1>1, KnowledgeAssumptions DEF TypeOK
<1> QED
  BY <1>1, <1>4, <1>5, Types
  DEF Alone, Steps, RebuildSteps, PublishSteps, SearchSteps

\* Hashing and extracting a source.
LEMMA LookUpEffect ==
  ASSUME TypeOK, SourceInv, NEW c \in Callers, LookUp(c)
  PROVE  /\ pc[c] = "ingest" /\ pc'[c] = "prepare" /\ Alone(c)
         /\ my'[c].target = my[c].target /\ my'[c].generation = my[c].generation
<1> DEFINE h == source[my[c].target]
           l == [my[c] EXCEPT !.hash = h]
<1>1. /\ pc[c] = "ingest" /\ pc' = [pc EXCEPT ![c] = "prepare"]
      /\ my' = [my EXCEPT ![c] = l]
  BY DEF LookUp, Goto
<1>2. h \in Hashes /\ my[c] \in Locals
  BY <1>1, Types DEF TypeOK, SourceInv, IngestSteps, Hashes
<1> HIDE DEF h
<1>3. /\ l \in Locals
      /\ l.target = my[c].target /\ l.generation = my[c].generation
  BY <1>2, AssignHash
<1> HIDE DEF l
<1>4. /\ my' \in [Callers -> Locals] /\ \A d \in Callers \ {c} : my'[d] = my[d]
      /\ my'[c].target = my[c].target /\ my'[c].generation = my[c].generation
  BY <1>1, <1>3, Assigned
<1> QED
  BY <1>1, <1>4, Types
  DEF Alone, Steps, RebuildSteps, PublishSteps, SearchSteps

LEMMA PrepareEffect ==
  ASSUME TypeOK, SourceInv, NEW c \in Callers, Prepare(c)
  PROVE  /\ pc[c] = "prepare" /\ pc'[c] = "compare" /\ Alone(c)
         /\ my'[c].target = my[c].target /\ my'[c].generation = my[c].generation
<1> DEFINE e == source[my[c].target]
           l == [my[c] EXCEPT !.extract = e]
<1>1. /\ pc[c] = "prepare" /\ pc' = [pc EXCEPT ![c] = "compare"]
      /\ my' = [my EXCEPT ![c] = l]
  BY DEF Prepare, Goto
<1>2. e \in Hashes /\ my[c] \in Locals
  BY <1>1, Types DEF TypeOK, SourceInv, IngestSteps, Hashes
<1> HIDE DEF e
<1>3. /\ l \in Locals
      /\ l.target = my[c].target /\ l.generation = my[c].generation
  BY <1>2, AssignExtract
<1> HIDE DEF l
<1>4. /\ my' \in [Callers -> Locals] /\ \A d \in Callers \ {c} : my'[d] = my[d]
      /\ my'[c].target = my[c].target /\ my'[c].generation = my[c].generation
  BY <1>1, <1>3, Assigned
<1> QED
  BY <1>1, <1>4, Types
  DEF Alone, Steps, RebuildSteps, PublishSteps, SearchSteps

LEMMA HashEffect ==
  ASSUME TypeOK, SourceInv, NEW c \in Callers, Hash(c)
  PROVE  /\ pc[c] = "hash" /\ pc'[c] = "replace" /\ Alone(c)
         /\ my'[c].target = my[c].target /\ my'[c].left = my[c].left
         /\ my'[c].generation = my[c].generation
<1> DEFINE h == source[path[my[c].target]]
           l == [my[c] EXCEPT !.hash = h]
<1>1. /\ pc[c] = "hash" /\ pc' = [pc EXCEPT ![c] = "replace"]
      /\ my' = [my EXCEPT ![c] = l]
  BY DEF Hash, Goto
<1>2. my[c].target \in Present
  BY <1>1 DEF SourceInv
<1>3. h \in Hashes /\ my[c] \in Locals
  BY <1>2, Types DEF TypeOK, SourceInv, Hashes
<1> HIDE DEF h
<1>4. /\ l \in Locals
      /\ l.target = my[c].target /\ l.left = my[c].left
      /\ l.generation = my[c].generation
  BY <1>3, AssignHash
<1> HIDE DEF l
<1>5. /\ my' \in [Callers -> Locals] /\ \A d \in Callers \ {c} : my'[d] = my[d]
      /\ my'[c].target = my[c].target /\ my'[c].left = my[c].left
      /\ my'[c].generation = my[c].generation
  BY <1>1, <1>4, Assigned
<1> QED
  BY <1>1, <1>5, Types
  DEF Alone, Steps, RebuildSteps, PublishSteps, SearchSteps

\* Reading the catalogue for a reindexing.
LEMMA BeginReindexEffect ==
  ASSUME TypeOK, NEW c \in Callers, NEW f \in BOOLEAN, BeginReindex(c, f)
  PROVE  /\ pc[c] = "idle" /\ pc'[c] = "reindex" /\ Alone(c)
         /\ my'[c].left \subseteq Present
         /\ my'[c].generation = my[c].generation
<1> DEFINE s == CorpusOf(status, digest)
           ready == {d \in Docs : status[d] = "ready"}
           l == [my[c] EXCEPT !.seen = s]
           k == [l EXCEPT !.left = ready]
           n == [k EXCEPT !.force = f]
<1>1. /\ pc[c] = "idle" /\ pc' = [pc EXCEPT ![c] = "reindex"]
      /\ my' = [my EXCEPT ![c].seen = s, ![c].left = ready, ![c].force = f]
  BY DEF BeginReindex, Goto
<1>2. my' = [my EXCEPT ![c] = n]
  BY <1>1, Types
<1>3. s \in Texts /\ ready \in SUBSET Docs /\ ready \subseteq Present
  BY CorpusType DEF Present
<1> HIDE DEF s, ready
<1>4. l \in Locals /\ l.generation = my[c].generation
  BY <1>3, Types, AssignSeen
<1> HIDE DEF l
<1>5. k \in Locals /\ k.left = ready /\ k.generation = my[c].generation
  BY <1>3, <1>4, AssignLeft
<1> HIDE DEF k
<1>6. n \in Locals /\ n.left = ready /\ n.generation = my[c].generation
  BY <1>5, AssignForce
<1> HIDE DEF n
<1>7. /\ my' \in [Callers -> Locals] /\ my'[c] = n
      /\ \A d \in Callers \ {c} : my'[d] = my[d]
  BY <1>2, <1>6, Assigned
<1> QED
  BY <1>1, <1>3, <1>6, <1>7, Types
  DEF Alone, Steps, RebuildSteps, PublishSteps, SearchSteps

\* Beginning with a document: it is one of those that are left.
LEMMA ExtractEffect ==
  ASSUME TypeOK, SourceInv, NEW c \in Callers, NEW d \in Docs, Extract(c, d)
  PROVE  /\ pc[c] = "reindex" /\ pc'[c] = "hash" /\ Alone(c)
         /\ d \in my[c].left /\ my'[c].target = d /\ my'[c].left = my[c].left
         /\ my'[c].generation = my[c].generation
<1> DEFINE e == source[path[d]]
           l == [my[c] EXCEPT !.target = d]
           k == [l EXCEPT !.extract = e]
<1>1. /\ pc[c] = "reindex" /\ pc' = [pc EXCEPT ![c] = "hash"] /\ d \in my[c].left
      /\ my' = [my EXCEPT ![c].target = d, ![c].extract = e]
  BY DEF Extract, Goto
<1>2. my' = [my EXCEPT ![c] = k]
  BY <1>1, Types
<1>3. e \in Hashes
  BY <1>1 DEF TypeOK, SourceInv, Hashes
<1> HIDE DEF e
<1>4. /\ l \in Locals /\ l.target = d /\ l.left = my[c].left
      /\ l.generation = my[c].generation
  BY Types, AssignTarget DEF Targets
<1> HIDE DEF l
<1>5. /\ k \in Locals /\ k.target = d /\ k.left = my[c].left
      /\ k.generation = my[c].generation
  BY <1>3, <1>4, AssignExtract
<1> HIDE DEF k
<1>6. /\ my' \in [Callers -> Locals] /\ my'[c] = k
      /\ \A o \in Callers \ {c} : my'[o] = my[o]
  BY <1>2, <1>5, Assigned
<1> QED
  BY <1>1, <1>5, <1>6, Types
  DEF Alone, Steps, RebuildSteps, PublishSteps, SearchSteps

\* A document that has been dealt with is no longer left.
LEMMA DoneEffect ==
  ASSUME TypeOK, NEW c \in Callers, NEW d \in Docs, Done(c, d)
  PROVE  /\ my' \in [Callers -> Locals] /\ my'[c].left = my[c].left \ {d}
         /\ my'[c].generation = None
         /\ \A o \in Callers \ {c} : my'[o] = my[o]
<1> DEFINE s == [my[c].seen EXCEPT ![d] = None]
           left == my[c].left \ {d}
           l == [Blank EXCEPT !.seen = s]
           k == [l EXCEPT !.left = left]
           n == [k EXCEPT !.force = my[c].force]
<1>1. my' = [my EXCEPT ![c] = n]
  BY DEF Done
<1>2. s \in Texts /\ left \in SUBSET Docs /\ my[c].force \in BOOLEAN
  BY Types DEF Texts
<1> HIDE DEF s, left
<1>3. l \in Locals /\ l.generation = None
  BY <1>2, BlankType, AssignSeen DEF Blank
<1> HIDE DEF l
<1>4. k \in Locals /\ k.left = left /\ k.generation = None
  BY <1>2, <1>3, AssignLeft
<1> HIDE DEF k
<1>5. n \in Locals /\ n.left = left /\ n.generation = None
  BY <1>2, <1>4, AssignForce
<1> HIDE DEF n
<1>6. /\ my' \in [Callers -> Locals] /\ my'[c] = n
      /\ \A o \in Callers \ {c} : my'[o] = my[o]
  BY <1>1, <1>5, Assigned
<1> QED
  BY <1>5, <1>6 DEF left

\* Reading the rows that will be projected.
LEMMA ReadRowsEffect ==
  ASSUME TypeOK, NEW c \in Callers, ReadRows(c)
  PROVE  /\ pc[c] = "read" /\ pc'[c] = "embed" /\ Alone(c)
         /\ my'[c].seen = Corpus /\ my'[c].generation = my[c].generation
         /\ UNCHANGED <<disk, catalogue, owner, degraded, searches, bounds>>
<1> DEFINE l == [my[c] EXCEPT !.seen = Corpus]
<1>1. /\ pc[c] = "read" /\ pc' = [pc EXCEPT ![c] = "embed"]
      /\ my' = [my EXCEPT ![c] = l]
      /\ UNCHANGED <<disk, catalogue, owner, degraded, searches, bounds>>
  BY DEF ReadRows, Goto
<1>2. my[c] \in Locals /\ Corpus \in Texts
  BY Types, CorpusType
<1>3. /\ l \in Locals
      /\ l.seen = Corpus /\ l.generation = my[c].generation
  BY <1>2, AssignSeen
<1> HIDE DEF l
<1>4. /\ my' \in [Callers -> Locals] /\ \A d \in Callers \ {c} : my'[d] = my[d]
      /\ my'[c].seen = Corpus /\ my'[c].generation = my[c].generation
  BY <1>1, <1>3, Assigned
<1> QED
  BY <1>1, <1>4, Types
  DEF Alone, Steps, RebuildSteps, PublishSteps, SearchSteps

\* A generation goes into a file the manifest does not name.
LEMMA WriteGenerationEffect ==
  ASSUME TypeOK, NEW c \in Callers, NEW g \in Generations, WriteGeneration(c, g)
  PROVE  /\ pc[c] = "embed" /\ pc'[c] = "manifest" /\ Alone(c)
         /\ my'[c].generation = g /\ my'[c].seen = my[c].seen
         /\ manifest.file # g
         /\ files' = [files EXCEPT ![g] = my[c].seen]
         /\ files' \in [Generations -> Texts]
         /\ UNCHANGED <<source, manifest, catalogue, owner, degraded, searches, bounds>>
<1> DEFINE l == [my[c] EXCEPT !.generation = g]
<1>1. /\ pc[c] = "embed" /\ pc' = [pc EXCEPT ![c] = "manifest"]
      /\ my' = [my EXCEPT ![c] = l]
      /\ manifest.file # g /\ files' = [files EXCEPT ![g] = my[c].seen]
      /\ UNCHANGED <<source, manifest, catalogue, owner, degraded, searches, bounds>>
  BY DEF WriteGeneration, Goto, FreeNames
<1>2. my[c] \in Locals /\ my[c].seen \in Texts /\ files \in [Generations -> Texts]
  BY Types DEF TypeOK
<1>3. /\ l \in Locals
      /\ l.generation = g /\ l.seen = my[c].seen
  BY <1>2, AssignGeneration
<1> HIDE DEF l
<1>4. /\ my' \in [Callers -> Locals] /\ \A d \in Callers \ {c} : my'[d] = my[d]
      /\ my'[c].generation = g /\ my'[c].seen = my[c].seen
  BY <1>1, <1>3, Assigned
<1> QED
  BY <1>1, <1>2, <1>4, Types
  DEF Alone, Steps, RebuildSteps, PublishSteps, SearchSteps

\* A call that ends a rebuild gives the lock back and forgets everything.
LEMMA LeaveEffect ==
  ASSUME TypeOK, NEW c \in Callers, NEW failed \in BOOLEAN, Leave(c, failed)
  PROVE  /\ pc'[c] = "idle" /\ owner' = None /\ degraded' = failed /\ Alone(c)
         /\ my'[c].generation = None
<1>1. /\ pc' = [pc EXCEPT ![c] = "idle"] /\ owner' = None /\ degraded' = failed
      /\ my' = [my EXCEPT ![c] = Blank]
  BY DEF Leave
<1> QED
  BY <1>1, Returned, Types DEF Alone, Steps, RebuildSteps, PublishSteps, SearchSteps

-----------------------------------------------------------------------------
(* Kinds of steps.  What a step does to the invariant depends on its kind.  *)

\* Steps of a caller that change nothing but the caller: it neither holds the
\* lock nor searches, and it keeps its duty to read the catalogue.
Quiet(c) ==
  /\ Alone(c)
  /\ UNCHANGED <<disk, catalogue, owner, degraded, searches, bounds>>
  /\ pc[c] \notin Held \cup SearchSteps
  /\ pc'[c] \notin Held \cup SearchSteps
  /\ pc[c] \in Duty => pc'[c] \in Duty
  /\ my'[c].generation = None
  /\ pc'[c] \in IngestSteps =>
       pc[c] \in IngestSteps /\ my'[c].target = my[c].target
  /\ pc'[c] \in {"reindex", "hash", "replace"} => my'[c].left \subseteq Present
  /\ pc'[c] \in {"hash", "replace"} => my'[c].target \in my'[c].left

\* Steps that commit a change of the catalogue; a projection is then due.
Committed(c) ==
  /\ Alone(c)
  /\ UNCHANGED <<disk, owner, degraded, found, bounds>>
  /\ status' \in [Docs -> {"absent", "ready", "disabled"}]
  /\ digest' \in Texts /\ path' \in Texts /\ text' \in Texts
  /\ window' = [o \in Callers |->
                  IF pc[o] \in SearchSteps
                  THEN window[o] \cup Pairs(Corpus') ELSE window[o]]
  /\ pc[c] \notin Held \cup SearchSteps
  /\ pc'[c] \in {"rebuild", "reindex"}
  /\ my'[c].generation = None
  /\ Present \subseteq Present' /\ my'[c].left \subseteq Docs
  /\ pc'[c] = "reindex" => my'[c].left \subseteq Present
  /\ \A d \in Present' : path'[d] \in Contents /\ source[path'[d]] # None

\* Steps of a search.
Searched(c) ==
  /\ Alone(c)
  /\ UNCHANGED <<disk, catalogue, owner, my, degraded, bounds>>
  /\ pc[c] \in {"idle"} \cup SearchSteps /\ pc'[c] \in {"idle"} \cup SearchSteps
  /\ found' \in [Callers -> SUBSET (Docs \X Contents)]
  /\ window' \in [Callers -> SUBSET (Docs \X Contents)]
  /\ \A o \in Callers \ {c} : found'[o] = found[o] /\ window'[o] = window[o]
  /\ found'[c] \subseteq window'[c]
  /\ pc'[c] \in SearchSteps => Pairs(Corpus) \subseteq window'[c]

\* Steps at which a publisher gives the lock back.
Released(c) ==
  /\ Alone(c)
  /\ UNCHANGED <<source, manifest, catalogue, searches, bounds>>
  /\ pc[c] \in Held /\ pc'[c] = "idle" /\ owner' = None
  /\ degraded' \in BOOLEAN
  /\ degraded' \/ pc[c] = "clean"
  /\ my'[c].generation = None
  /\ files' \in [Generations -> Texts]
  /\ manifest.file # None => files'[manifest.file] = files[manifest.file]

\* Hashing, extracting, comparing and giving up are quiet.
LEMMA QuietSteps ==
  ASSUME KnowledgeInv, NEW c \in Callers,
         \/ LookUp(c) \/ Duplicate(c) \/ Prepare(c) \/ Compare(c)
         \/ IngestFails(c) \/ \E f \in BOOLEAN : BeginReindex(c, f)
         \/ \E d \in Docs : Extract(c, d)
         \/ \E d \in Docs : Skip(c, d)
         \/ Hash(c) \/ EndReindex(c)
  PROVE  Quiet(c)
<1> USE DEF Held, Duty, SearchSteps, PublishSteps, IngestSteps
<1>0. TypeOK /\ SourceInv /\ my[c].generation \in Generations \cup {None}
      /\ (pc[c] \notin PublishSteps => my[c].generation = None)
  BY Types DEF KnowledgeInv, GenerationInv
<1>1. CASE LookUp(c)
  <2>1. UNCHANGED <<disk, catalogue, owner, degraded, searches, bounds>>
    BY <1>1 DEF LookUp
  <2> QED
    BY <1>0, <1>1, <2>1, LookUpEffect DEF Quiet
<1>2. CASE Duplicate(c)
  <2>1. /\ pc[c] \in {"ingest", "persist"} /\ my' = [my EXCEPT ![c] = Blank]
        /\ \E next \in {"rebuild", "idle"} : pc' = [pc EXCEPT ![c] = next]
        /\ UNCHANGED <<disk, catalogue, owner, degraded, searches, bounds>>
    BY <1>2 DEF Duplicate
  <2>2. /\ pc' \in [Callers -> Steps] /\ pc'[c] \in {"rebuild", "idle"}
        /\ \A o \in Callers \ {c} : pc'[o] = pc[o]
    BY <1>0, <2>1, Types DEF Steps, RebuildSteps
  <2> QED
    BY <1>0, <2>1, <2>2, Returned DEF Quiet, Alone
<1>3. CASE Prepare(c)
  <2>1. UNCHANGED <<disk, catalogue, owner, degraded, searches, bounds>>
    BY <1>3 DEF Prepare
  <2> QED
    BY <1>0, <1>3, <2>1, PrepareEffect DEF Quiet
<1>4. CASE Compare(c)
  <2>1. /\ pc[c] = "compare" /\ pc' = [pc EXCEPT ![c] = "persist"]
        /\ UNCHANGED <<disk, catalogue, owner, my, degraded, searches, bounds>>
    BY <1>4 DEF Compare, Goto
  <2> QED
    BY <1>0, <2>1, Types DEF Quiet, Alone, Steps
<1>5. CASE IngestFails(c)
  <2>1. /\ pc[c] \in {"prepare", "compare", "persist"}
        /\ pc' = [pc EXCEPT ![c] = "idle"] /\ my' = [my EXCEPT ![c] = Blank]
        /\ UNCHANGED <<disk, catalogue, owner, degraded, searches, bounds>>
    BY <1>5 DEF IngestFails
  <2> QED
    BY <1>0, <2>1, Types, Returned DEF Quiet, Alone, Steps
<1>6. ASSUME NEW f \in BOOLEAN, BeginReindex(c, f)
      PROVE  Quiet(c)
  <2>1. UNCHANGED <<disk, catalogue, owner, degraded, searches, bounds>>
    BY <1>6 DEF BeginReindex
  <2> QED
    BY <1>0, <1>6, <2>1, BeginReindexEffect DEF Quiet
<1>7. ASSUME NEW d \in Docs, Extract(c, d)
      PROVE  Quiet(c)
  <2>1. UNCHANGED <<disk, catalogue, owner, degraded, searches, bounds>>
    BY <1>7 DEF Extract
  <2>2. pc[c] = "reindex" => my[c].left \subseteq Present
    BY <1>0 DEF SourceInv
  <2> QED
    BY <1>0, <1>7, <2>1, <2>2, ExtractEffect DEF Quiet
<1>8. CASE Hash(c)
  <2>1. UNCHANGED <<disk, catalogue, owner, degraded, searches, bounds>>
    BY <1>8 DEF Hash
  <2>2. pc[c] = "hash" => my[c].left \subseteq Present /\ my[c].target \in my[c].left
    BY <1>0 DEF SourceInv
  <2> QED
    BY <1>0, <1>8, <2>1, <2>2, HashEffect DEF Quiet
<1>9. ASSUME NEW d \in Docs, Skip(c, d)
      PROVE  Quiet(c)
  <2>1. /\ pc[c] \in {"reindex", "hash", "replace"} /\ Done(c, d)
        /\ pc' = [pc EXCEPT ![c] = "reindex"]
        /\ UNCHANGED <<disk, catalogue, owner, degraded, searches, bounds>>
    BY <1>9 DEF Skip
  <2>2. my[c].left \subseteq Present
    BY <1>0, <2>1 DEF SourceInv
  <2> QED
    BY <1>0, <2>1, <2>2, Types, DoneEffect DEF Quiet, Alone, Steps
<1>10. CASE EndReindex(c)
  <2>1. /\ pc[c] = "reindex" /\ pc' = [pc EXCEPT ![c] = "rebuild"]
        /\ my' = [my EXCEPT ![c] = Blank]
        /\ UNCHANGED <<disk, catalogue, owner, degraded, searches, bounds>>
    BY <1>10 DEF EndReindex, Goto
  <2> QED
    BY <1>0, <2>1, Types, Returned DEF Quiet, Alone, Steps, RebuildSteps
<1> QED
  BY <1>1, <1>2, <1>3, <1>4, <1>5, <1>6, <1>7, <1>8, <1>9, <1>10

\* Inserting, switching and replacing commit, and leave a projection due.
LEMMA CommittedSteps ==
  ASSUME KnowledgeInv, NEW c \in Callers, NEW d \in Docs,
         \/ Persist(c, d) \/ Replace(c, d)
         \/ \E st \in {"ready", "disabled"} : Toggle(c, d, st)
  PROVE  Committed(c)
<1> USE DEF Held, SearchSteps, PublishSteps, IngestSteps
<1>0. /\ TypeOK /\ SourceInv
      /\ pc[c] \notin PublishSteps => my[c].generation = None
      /\ my[c] \in Locals /\ my[c].left \subseteq Docs
      /\ my[c].hash \in Hashes /\ my[c].extract \in Hashes
  BY Types DEF KnowledgeInv, GenerationInv
<1>1. ASSUME NEW st, NEW tx, Commit(st, tx)
      PROVE  /\ status' = st /\ text' = tx /\ found' = found
             /\ window' = [o \in Callers |->
                             IF pc[o] \in SearchSteps
                             THEN window[o] \cup Pairs(Corpus') ELSE window[o]]
  BY <1>1 DEF Commit, Corpus, CorpusOf, Pairs
<1>2. CASE Persist(c, d)
  <2> DEFINE st == [status EXCEPT ![d] = "ready"]
             tx == [text EXCEPT ![d] = my[c].extract]
             x == my[c].target
  <2>1. /\ pc[c] = "persist" /\ pc' = [pc EXCEPT ![c] = "rebuild"]
        /\ digest' = [digest EXCEPT ![d] = my[c].hash]
        /\ path' = [path EXCEPT ![d] = x] /\ Commit(st, tx)
        /\ my' = [my EXCEPT ![c] = Blank] /\ UNCHANGED <<disk, owner, degraded, bounds>>
    BY <1>2 DEF Persist, Goto
  <2>2. x \in Contents /\ source[x] # None
    BY <1>0, <2>1 DEF SourceInv
  <2>3. status' = st /\ text' = tx
    BY <1>1, <2>1
  <2> HIDE DEF x
  <2>4. /\ status' \in [Docs -> {"absent", "ready", "disabled"}] /\ digest' \in Texts
        /\ path' \in Texts /\ text' \in Texts
    BY <1>0, <2>1, <2>2, <2>3 DEF TypeOK, Texts, Hashes
  <2>5. Present' = Present \cup {d}
    BY <1>0, <2>3 DEF TypeOK, Present
  <2>6. \A e \in Present' : path'[e] \in Contents /\ source[path'[e]] # None
    BY <1>0, <2>1, <2>2, <2>5 DEF SourceInv, TypeOK, Texts, Present
  <2>7. /\ Alone(c) /\ pc'[c] = "rebuild" /\ my'[c].generation = None
        /\ my'[c].left \subseteq Docs
    BY <1>0, <2>1, Types, BlankType, Assigned DEF Alone, Steps, RebuildSteps, Blank
  <2> QED
    BY <1>1, <2>1, <2>4, <2>5, <2>6, <2>7 DEF Committed
<1>3. CASE Replace(c, d)
  <2> DEFINE tx == [text EXCEPT ![d] = my[c].extract]
  <2>1. /\ pc[c] = "replace" /\ pc' = [pc EXCEPT ![c] = "reindex"]
        /\ digest' = digest \/ digest' = [digest EXCEPT ![d] = my[c].hash]
        /\ Done(c, d) /\ Commit(status, tx)
        /\ UNCHANGED <<disk, path, owner, degraded, bounds>>
    BY <1>3 DEF Replace, Goto
  <2>2. status' = status /\ text' = tx
    BY <1>1, <2>1
  <2>3. /\ status' \in [Docs -> {"absent", "ready", "disabled"}] /\ digest' \in Texts
        /\ path' \in Texts /\ text' \in Texts
    BY <1>0, <2>1, <2>2 DEF TypeOK, Texts, Hashes
  <2>4. Present' = Present
    BY <2>2 DEF Present
  <2>5. \A e \in Present' : path'[e] \in Contents /\ source[path'[e]] # None
    BY <1>0, <2>1, <2>4 DEF SourceInv
  <2>6. /\ Alone(c) /\ pc'[c] = "reindex" /\ my'[c].generation = None
        /\ my'[c].left \subseteq my[c].left
    BY <1>0, <2>1, Types, DoneEffect DEF Alone, Steps
  <2>7. my[c].left \subseteq Present
    BY <1>0, <2>1 DEF SourceInv
  <2> QED
    BY <1>0, <1>1, <2>1, <2>3, <2>4, <2>5, <2>6, <2>7 DEF Committed
<1>4. ASSUME NEW st \in {"ready", "disabled"}, Toggle(c, d, st)
      PROVE  Committed(c)
  <2> DEFINE s == [status EXCEPT ![d] = st]
  <2>1. /\ pc[c] = "idle" /\ pc' = [pc EXCEPT ![c] = "rebuild"] /\ d \in Present
        /\ Commit(s, text)
        /\ UNCHANGED <<disk, digest, path, owner, my, degraded, bounds>>
    BY <1>4 DEF Toggle, Goto
  <2>2. status' = s /\ text' = text
    BY <1>1, <2>1
  <2>3. /\ status' \in [Docs -> {"absent", "ready", "disabled"}] /\ digest' \in Texts
        /\ path' \in Texts /\ text' \in Texts
    BY <1>0, <2>1, <2>2 DEF TypeOK
  <2>4. Present' = Present
    BY <1>0, <2>1, <2>2 DEF TypeOK, Present
  <2>5. \A e \in Present' : path'[e] \in Contents /\ source[path'[e]] # None
    BY <1>0, <2>1, <2>4 DEF SourceInv
  <2>6. Alone(c) /\ pc'[c] = "rebuild"
    BY <1>0, <2>1, Types DEF Alone, Steps, RebuildSteps
  <2> QED
    BY <1>0, <1>1, <2>1, <2>3, <2>4, <2>5, <2>6 DEF Committed
<1> QED
  BY <1>2, <1>3, <1>4

\* What can be found are documents with a text.
LEMMA PairsType ==
  ASSUME NEW corpus \in Texts
  PROVE  Pairs(corpus) \subseteq Docs \X Contents
BY DEF Pairs, Texts

\* Each step of a search finds what it has had before it.
LEMMA SearchedSteps ==
  ASSUME KnowledgeInv, NEW c \in Callers, SearchNext(c)
  PROVE  Searched(c)
<1> USE DEF SearchSteps
<1>0. /\ TypeOK
      /\ found \in [Callers -> SUBSET (Docs \X Contents)]
      /\ window \in [Callers -> SUBSET (Docs \X Contents)]
      /\ found[c] \subseteq window[c]
      /\ pc[c] \in SearchSteps => Pairs(Corpus) \subseteq window[c]
      /\ Pairs(Corpus) \subseteq Docs \X Contents
  BY Types, CorpusType, PairsType DEF KnowledgeInv, TypeOK, FoundWasCurrent, WindowInv
<1>1. ASSUME NEW S, SearchKeywords(c, S)
      PROVE  Searched(c)
  <2>1. /\ pc[c] = "idle" /\ pc' = [pc EXCEPT ![c] = "vector"]
        /\ S \subseteq Pairs(Corpus)
        /\ found' = [found EXCEPT ![c] = S]
        /\ window' = [window EXCEPT ![c] = Pairs(Corpus)]
        /\ UNCHANGED <<disk, catalogue, owner, my, degraded, bounds>>
    BY <1>1 DEF SearchKeywords, Goto
  <2> QED
    BY <1>0, <2>1, Types DEF Searched, Alone, Steps
<1>2. ASSUME NEW S, SearchVectors(c, S)
      PROVE  Searched(c)
  <2>1. /\ pc[c] = "vector" /\ pc' = [pc EXCEPT ![c] = "fetch"]
        /\ found' = [found EXCEPT ![c] = found[c] \cup S] /\ window' = window
        /\ UNCHANGED <<disk, catalogue, owner, my, degraded, bounds>>
    BY <1>2 DEF SearchVectors, Goto
  <2>2. S \subseteq Pairs(Corpus)
    BY <1>2 DEF SearchVectors
  <2>3. /\ found' \in [Callers -> SUBSET (Docs \X Contents)]
        /\ found'[c] = found[c] \cup S
        /\ \A o \in Callers \ {c} : found'[o] = found[o]
    BY <1>0, <2>1, <2>2
  <2>4. found'[c] \subseteq window'[c]
    BY <1>0, <2>1, <2>2, <2>3
  <2>5. Alone(c) /\ pc'[c] = "fetch"
    BY <1>0, <2>1, Types DEF Alone, Steps
  <2> QED
    BY <1>0, <2>1, <2>3, <2>4, <2>5 DEF Searched
<1>3. CASE SkipVectors(c)
  <2>1. /\ pc[c] = "vector" /\ pc' = [pc EXCEPT ![c] = "return"]
        /\ UNCHANGED <<disk, catalogue, owner, my, degraded, searches, bounds>>
    BY <1>3 DEF SkipVectors, Goto
  <2> QED
    BY <1>0, <2>1, Types DEF Searched, Alone, Steps, searches
<1>4. CASE Fetch(c)
  <2> DEFINE S == {p \in Pairs(Corpus) : \E q \in found[c] : q[1] = p[1]}
  <2>1. /\ pc[c] = "fetch" /\ pc' = [pc EXCEPT ![c] = "return"]
        /\ found' = [found EXCEPT ![c] = found[c] \cup S] /\ window' = window
        /\ UNCHANGED <<disk, catalogue, owner, my, degraded, bounds>>
    BY <1>4 DEF Fetch, Goto
  <2>2. S \subseteq Pairs(Corpus)
    OBVIOUS
  <2> HIDE DEF S
  <2>3. /\ found' \in [Callers -> SUBSET (Docs \X Contents)]
        /\ found'[c] = found[c] \cup S
        /\ \A o \in Callers \ {c} : found'[o] = found[o]
    BY <1>0, <2>1, <2>2
  <2>4. found'[c] \subseteq window'[c]
    BY <1>0, <2>1, <2>2, <2>3
  <2>5. Alone(c) /\ pc'[c] = "return"
    BY <1>0, <2>1, Types DEF Alone, Steps
  <2> QED
    BY <1>0, <2>1, <2>3, <2>4, <2>5 DEF Searched
<1>5. CASE Answer(c)
  <2>1. /\ pc[c] = "return" /\ pc' = [pc EXCEPT ![c] = "idle"]
        /\ found' = [found EXCEPT ![c] = {}] /\ window' = [window EXCEPT ![c] = {}]
        /\ UNCHANGED <<disk, catalogue, owner, my, degraded, bounds>>
    BY <1>5 DEF Answer, Goto
  <2> QED
    BY <1>0, <2>1, Types DEF Searched, Alone, Steps
<1> QED
  BY <1>1, <1>2, <1>3, <1>4, <1>5 DEF SearchNext

\* A publisher that ends leaves the published file as it is.
LEMMA ReleasedSteps ==
  ASSUME KnowledgeInv, NEW c \in Callers,
         RebuildRaises(c) \/ PublishRaises(c) \/ CleanUp(c)
  PROVE  Released(c)
<1> USE DEF Held, PublishSteps
<1>0. /\ TypeOK /\ files \in [Generations -> Texts] /\ Empty \in Texts
      /\ manifest.file \in Generations \cup {None}
      /\ pc[c] = "clean" => manifest.file = my[c].generation
  BY DEF KnowledgeInv, TypeOK, GenerationInv, Texts, Empty
<1>1. CASE RebuildRaises(c)
  <2>1. /\ pc[c] \in {"read", "embed"} /\ Leave(c, TRUE)
        /\ UNCHANGED <<disk, catalogue, searches, bounds>>
    BY <1>1 DEF RebuildRaises
  <2> QED
    BY <1>0, <2>1, LeaveEffect DEF Released, disk
<1>2. CASE PublishRaises(c)
  <2>1. /\ pc[c] \in PublishSteps /\ Leave(c, TRUE)
        /\ files' = [g \in Generations |->
                       IF g = my[c].generation /\ manifest.file # g
                       THEN Empty ELSE files[g]]
        /\ UNCHANGED <<source, manifest, catalogue, searches, bounds>>
    BY <1>2 DEF PublishRaises
  <2>2. /\ files' \in [Generations -> Texts]
        /\ manifest.file # None => files'[manifest.file] = files[manifest.file]
    BY <1>0, <2>1
  <2> QED
    BY <1>0, <2>1, <2>2, LeaveEffect DEF Released
<1>3. CASE CleanUp(c)
  <2>1. /\ pc[c] = "clean" /\ Leave(c, FALSE)
        /\ UNCHANGED <<source, manifest, catalogue, searches, bounds>>
    BY <1>3 DEF CleanUp
  <2>2. PICK S \in SUBSET (Generations \ {my[c].generation}) :
          files' = [g \in Generations |-> IF g \in S THEN Empty ELSE files[g]]
    BY <1>3 DEF CleanUp
  <2>3. /\ files' \in [Generations -> Texts]
        /\ manifest.file # None => files'[manifest.file] = files[manifest.file]
    BY <1>0, <2>1, <2>2
  <2> QED
    BY <1>0, <2>1, <2>3, LeaveEffect DEF Released
<1> QED
  BY <1>1, <1>2, <1>3

-----------------------------------------------------------------------------
(* Each kind of step preserves the invariant.                              *)

\* Without a commit the corpus stays.
LEMMA CorpusKept ==
  ASSUME UNCHANGED catalogue
  PROVE  /\ status' = status /\ digest' = digest /\ path' = path /\ text' = text
         /\ Corpus' = Corpus /\ Present' = Present /\ Pairs(Corpus)' = Pairs(Corpus)
BY DEF catalogue, Corpus, CorpusOf, Present, Pairs

LEMMA QuietKeeps ==
  ASSUME KnowledgeInv, NEW c \in Callers, Quiet(c)
  PROVE  KnowledgeInv'
<1> USE DEF KnowledgeInv, Quiet, Alone
<1>0. /\ source' = source /\ files' = files /\ manifest' = manifest
      /\ found' = found /\ window' = window /\ edits' = edits /\ crashes' = crashes
  BY DEF disk, searches, bounds
<1>1. TypeOK'
  BY <1>0, CorpusKept DEF TypeOK, Steps
<1>2. LockInv'
  BY DEF LockInv
<1>3. SourceInv'
  BY <1>0, CorpusKept DEF SourceInv
<1>4. GenerationInv'
  BY <1>0 DEF GenerationInv, Held, PublishSteps
<1>5. PublishedIsWhole'
  BY <1>0 DEF PublishedIsWhole
<1>6. IndexInv'
  BY <1>0, CorpusKept DEF IndexInv, Held, PublishSteps
<1>7. WindowInv'
  BY <1>0, CorpusKept DEF WindowInv
<1>8. FoundWasCurrent'
  BY <1>0 DEF FoundWasCurrent
<1> QED
  BY <1>1, <1>2, <1>3, <1>4, <1>5, <1>6, <1>7, <1>8

LEMMA CommittedKeeps ==
  ASSUME KnowledgeInv, NEW c \in Callers, Committed(c)
  PROVE  KnowledgeInv'
<1> USE DEF KnowledgeInv, Committed, Alone
<1>0. /\ source' = source /\ files' = files /\ manifest' = manifest
      /\ found' = found /\ edits' = edits /\ crashes' = crashes
  BY DEF disk, bounds
<1>1. TypeOK'
  <2>1. Corpus' \in Texts
    BY DEF Corpus, CorpusOf, Texts
  <2>2. Pairs(Corpus') \subseteq Docs \X Contents
    BY <2>1, PairsType
  <2>3. window' \in [Callers -> SUBSET (Docs \X Contents)]
    BY <2>2 DEF TypeOK
  <2> QED
    BY <1>0, <2>3 DEF TypeOK, Steps
<1>2. LockInv'
  BY DEF LockInv, Held, PublishSteps
<1>3. SourceInv'
  BY <1>0 DEF SourceInv, IngestSteps
<1>4. GenerationInv'
  BY <1>0 DEF GenerationInv, Held, PublishSteps
<1>5. PublishedIsWhole'
  BY <1>0 DEF PublishedIsWhole
<1>6. IndexInv'
  BY DEF IndexInv, Duty
<1>7. WindowInv'
  BY DEF WindowInv, SearchSteps, Pairs
<1>8. FoundWasCurrent'
  BY <1>0 DEF FoundWasCurrent
<1> QED
  BY <1>1, <1>2, <1>3, <1>4, <1>5, <1>6, <1>7, <1>8

LEMMA SearchedKeeps ==
  ASSUME KnowledgeInv, NEW c \in Callers, Searched(c)
  PROVE  KnowledgeInv'
<1> USE DEF KnowledgeInv, Searched, Alone
<1>0. /\ source' = source /\ files' = files /\ manifest' = manifest
      /\ edits' = edits /\ crashes' = crashes
      /\ pc[c] \notin Held \cup Duty \cup IngestSteps
      /\ pc'[c] \notin Held \cup Duty \cup IngestSteps
  BY DEF disk, bounds, Held, Duty, IngestSteps, PublishSteps, SearchSteps
<1>1. TypeOK'
  BY <1>0, CorpusKept DEF TypeOK, Steps
<1>2. LockInv'
  BY <1>0 DEF LockInv
<1>3. SourceInv'
  BY <1>0, CorpusKept DEF SourceInv, Duty
<1>4. GenerationInv'
  BY <1>0 DEF GenerationInv, Held, PublishSteps
<1>5. PublishedIsWhole'
  BY <1>0 DEF PublishedIsWhole
<1>6. IndexInv'
  BY <1>0, CorpusKept DEF IndexInv, Held, PublishSteps
<1>7. WindowInv'
  BY <1>0, CorpusKept DEF WindowInv
<1>8. FoundWasCurrent'
  BY DEF FoundWasCurrent
<1> QED
  BY <1>1, <1>2, <1>3, <1>4, <1>5, <1>6, <1>7, <1>8

LEMMA ReleasedKeeps ==
  ASSUME KnowledgeInv, NEW c \in Callers, Released(c)
  PROVE  KnowledgeInv'
<1> USE DEF KnowledgeInv, Released, Alone
<1>0. /\ found' = found /\ window' = window /\ edits' = edits /\ crashes' = crashes
      /\ \A o \in Callers \ {c} : pc[o] \notin Held
      /\ pc'[c] \notin Held \cup SearchSteps \cup Duty \cup IngestSteps
      /\ pc[c] \notin SearchSteps
  BY DEF searches, bounds, LockInv, Held, Duty, IngestSteps, PublishSteps, SearchSteps
<1>1. TypeOK'
  BY <1>0, CorpusKept DEF TypeOK, Steps
<1>2. LockInv'
  BY <1>0, KnowledgeAssumptions DEF LockInv
<1>3. SourceInv'
  BY <1>0, CorpusKept DEF SourceInv, Duty
<1>4. GenerationInv'
  BY <1>0 DEF GenerationInv, Held, PublishSteps
<1>5. PublishedIsWhole'
  BY <1>0 DEF PublishedIsWhole
<1>6. IndexInv'
  <2>1. SUFFICES ASSUME \A o \in Callers : pc'[o] \notin Duty
                 PROVE  ~degraded' => manifest'.entries = Corpus'
    BY <1>0 DEF IndexInv, Held, PublishSteps
  <2>2. SUFFICES ASSUME pc[c] = "clean"
                 PROVE  manifest'.entries = Corpus'
    BY <2>1
  <2>3. \A o \in Callers : pc[o] \notin Duty
    BY <2>1, <2>2 DEF Duty
  <2> QED
    BY <2>2, <2>3, CorpusKept DEF IndexInv
<1>7. WindowInv'
  BY <1>0, CorpusKept DEF WindowInv
<1>8. FoundWasCurrent'
  BY <1>0 DEF FoundWasCurrent
<1> QED
  BY <1>1, <1>2, <1>3, <1>4, <1>5, <1>6, <1>7, <1>8

\* An upload only adds a source.
LEMMA UploadKeeps ==
  ASSUME KnowledgeInv, NEW c \in Callers, NEW x \in Contents, Upload(c, x)
  PROVE  KnowledgeInv'
<1> USE DEF KnowledgeInv, Alone
<1>0. /\ pc[c] = "idle" /\ pc'[c] = "ingest" /\ Alone(c)
      /\ my'[c].target = x /\ my'[c].generation = my[c].generation
      /\ source' \in [Contents -> Contents \cup {None}] /\ source'[x] # None
      /\ \A y \in Contents \ {x} : source'[y] = source[y]
      /\ UNCHANGED catalogue
      /\ files' = files /\ manifest' = manifest /\ owner' = owner
      /\ degraded' = degraded
      /\ found' = found /\ window' = window /\ edits' = edits /\ crashes' = crashes
  BY UploadEffect DEF searches, bounds
<1>1. TypeOK'
  BY <1>0, CorpusKept DEF TypeOK, Steps
<1>2. LockInv'
  BY <1>0 DEF LockInv, Held, PublishSteps
<1>3. SourceInv'
  <2>1. \A y \in Contents : source[y] # None => source'[y] # None
    BY <1>0
  <2> QED
    BY <1>0, <2>1, CorpusKept DEF SourceInv
<1>4. GenerationInv'
  BY <1>0 DEF GenerationInv, PublishSteps
<1>5. PublishedIsWhole'
  BY <1>0 DEF PublishedIsWhole
<1>6. IndexInv'
  BY <1>0, CorpusKept DEF IndexInv, Duty, Held, PublishSteps
<1>7. WindowInv'
  BY <1>0, CorpusKept DEF WindowInv, SearchSteps
<1>8. FoundWasCurrent'
  BY <1>0 DEF FoundWasCurrent
<1> QED
  BY <1>1, <1>2, <1>3, <1>4, <1>5, <1>6, <1>7, <1>8

\* Whoever takes the lock is the only one to hold it.
LEMMA AcquireKeeps ==
  ASSUME KnowledgeInv, NEW c \in Callers, Acquire(c)
  PROVE  KnowledgeInv'
<1> USE DEF KnowledgeInv
<1>0. /\ pc[c] = "rebuild" /\ pc' = [pc EXCEPT ![c] = "read"]
      /\ owner = None /\ owner' = c
      /\ UNCHANGED <<source, files, manifest, my, degraded, found, window>>
      /\ edits' = edits /\ crashes' = crashes
      /\ UNCHANGED catalogue
  BY DEF Acquire, Goto, disk, searches, bounds
<1>a. /\ pc' \in [Callers -> Steps] /\ pc'[c] = "read"
      /\ \A o \in Callers \ {c} : pc'[o] = pc[o]
  BY <1>0, Types DEF Steps, RebuildSteps
<1>1. TypeOK'
  BY <1>0, <1>a, CorpusKept DEF TypeOK, Steps
<1>2. LockInv'
  BY <1>0, <1>a, KnowledgeAssumptions DEF LockInv, Held
<1>3. SourceInv'
  BY <1>0, <1>a, CorpusKept DEF SourceInv, IngestSteps
<1>4. GenerationInv'
  BY <1>0, <1>a DEF GenerationInv, PublishSteps
<1>5. PublishedIsWhole'
  BY <1>0 DEF PublishedIsWhole
<1>6. IndexInv'
  BY <1>0, <1>a DEF IndexInv, Duty
<1>7. WindowInv'
  BY <1>0, <1>a, CorpusKept DEF WindowInv, SearchSteps
<1>8. FoundWasCurrent'
  BY <1>0 DEF FoundWasCurrent
<1> QED
  BY <1>1, <1>2, <1>3, <1>4, <1>5, <1>6, <1>7, <1>8

\* The rows are read after every change that is due.
LEMMA ReadRowsKeeps ==
  ASSUME KnowledgeInv, NEW c \in Callers, ReadRows(c)
  PROVE  KnowledgeInv'
<1> USE DEF KnowledgeInv, Alone
<1>0. /\ pc[c] = "read" /\ pc'[c] = "embed" /\ Alone(c)
      /\ my'[c].seen = Corpus /\ my'[c].generation = my[c].generation
      /\ UNCHANGED catalogue
      /\ UNCHANGED <<source, files, manifest, owner, degraded, found, window>>
      /\ edits' = edits /\ crashes' = crashes
  BY ReadRowsEffect DEF disk, searches, bounds
<1>a. \A o \in Callers \ {c} : pc[o] \notin Held
  BY <1>0 DEF LockInv, Held
<1>1. TypeOK'
  BY <1>0, CorpusKept DEF TypeOK, Steps
<1>2. LockInv'
  BY <1>0 DEF LockInv, Held
<1>3. SourceInv'
  BY <1>0, CorpusKept DEF SourceInv, IngestSteps
<1>4. GenerationInv'
  BY <1>0 DEF GenerationInv, PublishSteps
<1>5. PublishedIsWhole'
  BY <1>0 DEF PublishedIsWhole
<1>6. IndexInv'
  BY <1>0, <1>a, CorpusKept DEF IndexInv, Held, PublishSteps
<1>7. WindowInv'
  BY <1>0, CorpusKept DEF WindowInv, SearchSteps
<1>8. FoundWasCurrent'
  BY <1>0 DEF FoundWasCurrent
<1> QED
  BY <1>1, <1>2, <1>3, <1>4, <1>5, <1>6, <1>7, <1>8

\* The published file is not the one that is written.
LEMMA WriteGenerationKeeps ==
  ASSUME KnowledgeInv, NEW c \in Callers, NEW g \in Generations, WriteGeneration(c, g)
  PROVE  KnowledgeInv'
<1> USE DEF KnowledgeInv, Alone
<1>0. /\ pc[c] = "embed" /\ pc'[c] = "manifest" /\ Alone(c)
      /\ my'[c].generation = g /\ my'[c].seen = my[c].seen
      /\ manifest.file # g
      /\ files' = [files EXCEPT ![g] = my[c].seen] /\ files' \in [Generations -> Texts]
      /\ UNCHANGED catalogue
      /\ UNCHANGED <<source, manifest, owner, degraded, found, window>>
      /\ edits' = edits /\ crashes' = crashes
  BY WriteGenerationEffect DEF searches, bounds
<1>a. \A o \in Callers \ {c} : pc[o] \notin Held
  BY <1>0 DEF LockInv, Held
<1>b. /\ files'[g] = my[c].seen
      /\ \A h \in Generations \ {g} : files'[h] = files[h]
  BY <1>0 DEF TypeOK
<1>1. TypeOK'
  BY <1>0, CorpusKept DEF TypeOK, Steps
<1>2. LockInv'
  BY <1>0 DEF LockInv, Held, PublishSteps
<1>3. SourceInv'
  BY <1>0, CorpusKept DEF SourceInv, IngestSteps
<1>4. GenerationInv'
  BY <1>0, <1>a, <1>b DEF GenerationInv, Held, PublishSteps
<1>5. PublishedIsWhole'
  BY <1>0, <1>b DEF PublishedIsWhole, TypeOK
<1>6. IndexInv'
  BY <1>0, <1>a, CorpusKept DEF IndexInv, Duty, Held, PublishSteps
<1>7. WindowInv'
  BY <1>0, CorpusKept DEF WindowInv, SearchSteps
<1>8. FoundWasCurrent'
  BY <1>0 DEF FoundWasCurrent
<1> QED
  BY <1>1, <1>2, <1>3, <1>4, <1>5, <1>6, <1>7, <1>8

\* The manifest names the file that has just been written.
LEMMA WriteManifestKeeps ==
  ASSUME KnowledgeInv, NEW c \in Callers, WriteManifest(c)
  PROVE  KnowledgeInv'
<1> USE DEF KnowledgeInv
<1>0. /\ pc[c] \in {"embed", "manifest"} /\ pc' = [pc EXCEPT ![c] = "clean"]
      /\ manifest' = [file |-> my[c].generation, entries |-> my[c].seen]
      /\ UNCHANGED catalogue
      /\ UNCHANGED <<source, files, my, owner, degraded, found, window>>
      /\ edits' = edits /\ crashes' = crashes
  BY DEF WriteManifest, searches, bounds
<1>a. /\ pc' \in [Callers -> Steps] /\ pc'[c] = "clean"
      /\ \A o \in Callers \ {c} : pc'[o] = pc[o]
      /\ my[c].generation \in Generations \cup {None} /\ my[c].seen \in Texts
  BY <1>0, Types DEF Steps, RebuildSteps, PublishSteps
<1>b. \A o \in Callers \ {c} : pc[o] \notin Held
  BY <1>0 DEF LockInv, Held, PublishSteps
<1>c. manifest'.file = my[c].generation /\ manifest'.entries = my[c].seen
  BY <1>0
<1>1. TypeOK'
  BY <1>0, <1>a, CorpusKept DEF TypeOK, Steps
<1>2. LockInv'
  BY <1>0, <1>a DEF LockInv, Held, PublishSteps
<1>3. SourceInv'
  BY <1>0, <1>a, CorpusKept DEF SourceInv, IngestSteps
<1>4. GenerationInv'
  BY <1>0, <1>a, <1>b, <1>c DEF GenerationInv, Held, PublishSteps
<1>5. PublishedIsWhole'
  BY <1>0, <1>c DEF PublishedIsWhole, GenerationInv, PublishSteps
<1>6. IndexInv'
  BY <1>0, <1>a, <1>b, <1>c, CorpusKept DEF IndexInv, Duty, Held, PublishSteps
<1>7. WindowInv'
  BY <1>0, <1>a, CorpusKept DEF WindowInv, SearchSteps
<1>8. FoundWasCurrent'
  BY <1>0 DEF FoundWasCurrent
<1> QED
  BY <1>1, <1>2, <1>3, <1>4, <1>5, <1>6, <1>7, <1>8

\* An edit of a source does not remove it.
LEMMA EditSourceKeeps ==
  ASSUME KnowledgeInv, NEW x \in Contents, NEW y \in Contents, EditSource(x, y)
  PROVE  KnowledgeInv'
<1> USE DEF KnowledgeInv
<1>0. /\ source' = [source EXCEPT ![x] = y]
      /\ edits < MaxEdits /\ edits' = edits + 1 /\ crashes' = crashes
      /\ UNCHANGED catalogue
      /\ UNCHANGED <<files, manifest, owner, pc, my, degraded, found, window>>
  BY DEF EditSource, searches
<1>1. TypeOK'
  <2>1. edits' \in 0..MaxEdits
    BY <1>0, KnowledgeAssumptions DEF TypeOK
  <2> QED
    BY <1>0, <2>1, CorpusKept DEF TypeOK
<1>2. LockInv'
  BY <1>0 DEF LockInv
<1>3. SourceInv'
  <2>1. \A z \in Contents : source[z] # None => source'[z] # None
    BY <1>0, KnowledgeAssumptions DEF TypeOK
  <2> QED
    BY <1>0, <2>1, CorpusKept DEF SourceInv
<1>4. GenerationInv'
  BY <1>0 DEF GenerationInv
<1>5. PublishedIsWhole'
  BY <1>0 DEF PublishedIsWhole
<1>6. IndexInv'
  BY <1>0, CorpusKept DEF IndexInv
<1>7. WindowInv'
  BY <1>0, CorpusKept DEF WindowInv
<1>8. FoundWasCurrent'
  BY <1>0 DEF FoundWasCurrent
<1> QED
  BY <1>1, <1>2, <1>3, <1>4, <1>5, <1>6, <1>7, <1>8

\* A crash leaves the published index, which is then degraded.
LEMMA CrashKeeps ==
  ASSUME KnowledgeInv, Crash
  PROVE  KnowledgeInv'
<1> USE DEF KnowledgeInv
<1>0. /\ crashes < MaxCrashes /\ crashes' = crashes + 1 /\ edits' = edits
      /\ owner' = None /\ degraded' = TRUE
      /\ pc' = [c \in Callers |-> "idle"] /\ my' = [c \in Callers |-> Blank]
      /\ found' = [c \in Callers |-> {}] /\ window' = [c \in Callers |-> {}]
      /\ UNCHANGED catalogue /\ UNCHANGED <<source, files, manifest>>
  BY DEF Crash, disk
<1>a. /\ my' \in [Callers -> Locals] /\ \A c \in Callers : my'[c].generation = None
      /\ pc' \in [Callers -> Steps] /\ \A c \in Callers : pc'[c] = "idle"
  BY <1>0, BlankType DEF Blank, Steps
<1>1. TypeOK'
  <2>1. crashes' \in 0..MaxCrashes
    BY <1>0, KnowledgeAssumptions DEF TypeOK
  <2>2. /\ found' \in [Callers -> SUBSET (Docs \X Contents)]
        /\ window' \in [Callers -> SUBSET (Docs \X Contents)]
    BY <1>0
  <2> QED
    BY <1>0, <1>a, <2>1, <2>2, CorpusKept DEF TypeOK, Steps
<1>2. LockInv'
  BY <1>0, KnowledgeAssumptions DEF LockInv, Held, PublishSteps
<1>3. SourceInv'
  BY <1>0, <1>a, CorpusKept DEF SourceInv, IngestSteps
<1>4. GenerationInv'
  BY <1>a DEF GenerationInv
<1>5. PublishedIsWhole'
  BY <1>0 DEF PublishedIsWhole
<1>6. IndexInv'
  BY <1>0, <1>a DEF IndexInv
<1>7. WindowInv'
  BY <1>a DEF WindowInv, SearchSteps
<1>8. FoundWasCurrent'
  BY <1>0 DEF FoundWasCurrent
<1> QED
  BY <1>1, <1>2, <1>3, <1>4, <1>5, <1>6, <1>7, <1>8

\* The invariant holds initially...
LEMMA InitKnowledge ==
  ASSUME Init
  PROVE  KnowledgeInv
<1> USE DEF Init
<1>a. /\ \A c \in Callers : my[c].generation = None
      /\ my \in [Callers -> Locals] /\ Empty \in Texts
      /\ \A c \in Callers : pc[c] = "idle"
  BY BlankType DEF Blank, Empty, Texts
<1>1. TypeOK
  <2>1. edits \in 0..MaxEdits /\ crashes \in 0..MaxCrashes
    BY KnowledgeAssumptions
  <2>2. /\ files \in [Generations -> Texts] /\ digest \in Texts /\ path \in Texts
        /\ text \in Texts
        /\ manifest \in [file : Generations \cup {None}, entries : Texts]
    BY <1>a DEF NoManifest
  <2> QED
    BY <1>a, <2>1, <2>2 DEF TypeOK
<1>2. LockInv
  BY KnowledgeAssumptions DEF LockInv, Held, PublishSteps
<1>3. SourceInv
  BY <1>a DEF SourceInv, Present, IngestSteps
<1>4. GenerationInv
  BY <1>a DEF GenerationInv
<1>5. PublishedIsWhole
  BY DEF PublishedIsWhole, NoManifest
<1>6. IndexInv
  BY <1>a DEF IndexInv, NoManifest, Corpus, CorpusOf, Empty
<1>7. WindowInv
  BY <1>a DEF WindowInv, SearchSteps
<1>8. FoundWasCurrent
  BY DEF FoundWasCurrent
<1> QED
  BY <1>1, <1>2, <1>3, <1>4, <1>5, <1>6, <1>7, <1>8 DEF KnowledgeInv

\* ...a stuttering step keeps it...
LEMMA StutterKnowledge ==
  ASSUME KnowledgeInv, UNCHANGED vars
  PROVE  KnowledgeInv'
<1>1. /\ UNCHANGED <<source, files, manifest, owner, pc, my, degraded, found, window>>
      /\ UNCHANGED catalogue /\ edits' = edits /\ crashes' = crashes
  BY DEF vars, disk, searches, bounds
<1> QED
  BY <1>1, CorpusKept
  DEF KnowledgeInv, TypeOK, LockInv, SourceInv, GenerationInv, PublishedIsWhole,
      IndexInv, WindowInv, FoundWasCurrent

\* ...and so does every step.
LEMMA NextKnowledge ==
  ASSUME KnowledgeInv, [Next]_vars
  PROVE  KnowledgeInv'
<1>1. ASSUME NEW c \in Callers, IngestNext(c)
      PROVE  KnowledgeInv'
  BY <1>1, UploadKeeps, QuietSteps, QuietKeeps, CommittedSteps, CommittedKeeps
  DEF IngestNext
<1>2. ASSUME NEW c \in Callers, MaintenanceNext(c)
      PROVE  KnowledgeInv'
  BY <1>2, QuietSteps, QuietKeeps, CommittedSteps, CommittedKeeps
  DEF MaintenanceNext
<1>3. ASSUME NEW c \in Callers, RebuildNext(c)
      PROVE  KnowledgeInv'
  BY <1>3, AcquireKeeps, ReadRowsKeeps, WriteGenerationKeeps, WriteManifestKeeps,
     ReleasedSteps, ReleasedKeeps
  DEF RebuildNext
<1>4. ASSUME NEW c \in Callers, RebuildRaises(c) \/ PublishRaises(c)
      PROVE  KnowledgeInv'
  BY <1>4, ReleasedSteps, ReleasedKeeps
<1>5. ASSUME NEW c \in Callers, SearchNext(c)
      PROVE  KnowledgeInv'
  BY <1>5, SearchedSteps, SearchedKeeps
<1> QED
  BY <1>1, <1>2, <1>3, <1>4, <1>5, EditSourceKeeps, CrashKeeps, StutterKnowledge
  DEF Next

-----------------------------------------------------------------------------
(* Theorems.                                                               *)

\* The invariant holds in every behaviour: types, one holder of the publisher's
\* lock, sources that stay, whole generation files and the index's duty.
THEOREM KnowledgeCorrect == Spec => []KnowledgeInv
<1>1. Init => KnowledgeInv
  BY InitKnowledge
<1>2. KnowledgeInv /\ [Next]_vars => KnowledgeInv'
  BY NextKnowledge
<1> QED
  BY <1>1, <1>2, PTL DEF Spec

\* A search brings up only text that was a ready document's at some moment of
\* that search, whatever commits and publications fall between its three reads.
THEOREM SearchTheorem == Spec => []FoundWasCurrent
<1>1. KnowledgeInv => FoundWasCurrent
  BY DEF KnowledgeInv
<1> QED
  BY <1>1, KnowledgeCorrect, PTL

\* When nobody has a projection to make and the last rebuild succeeded, the
\* published index is the catalogue's: projections of older rows come first.
THEOREM ProjectionTheorem == Spec => []IndexFollowsCatalogue
<1>1. ASSUME KnowledgeInv
      PROVE  IndexFollowsCatalogue
  <2>1. Duty \cup Held \subseteq Projecting
    BY DEF Duty, Held, Projecting, RebuildSteps
  <2> QED
    BY <1>1, <2>1 DEF KnowledgeInv, IndexInv, IndexFollowsCatalogue
<1> QED
  BY <1>1, KnowledgeCorrect, PTL

\* Whenever the process ends, the published manifest names a whole file.
THEOREM PublicationTheorem == Spec => []PublishedIsWhole
<1>1. KnowledgeInv => PublishedIsWhole
  BY DEF KnowledgeInv
<1> QED
  BY <1>1, KnowledgeCorrect, PTL

\* The source file of a document stays, although requests for the same content
\* share it and some of them fail.
THEOREM SourceTheorem == Spec => []SourceKept
<1>1. KnowledgeInv => SourceKept
  BY DEF KnowledgeInv, SourceInv, SourceKept
<1> QED
  BY <1>1, KnowledgeCorrect, PTL

\* A disabled document comes back only by a step of a caller that switches it
\* on or inserts it: no reindexing, however old its view, enables it.
THEOREM DisabledTheorem == Spec => DisabledStaysDisabled
<1> DEFINE Back == \A d \in Docs :
                     status[d] = "disabled" /\ status'[d] = "ready" =>
                       \E c \in Callers : pc[c] = "idle" /\ pc'[c] = "rebuild"
<1>1. ASSUME KnowledgeInv, [Next]_vars, NEW d \in Docs,
             status[d] = "disabled", status'[d] = "ready"
      PROVE  \E c \in Callers : pc[c] = "idle" /\ pc'[c] = "rebuild"
  <2>0. TypeOK
    BY <1>1 DEF KnowledgeInv
  <2>1. status' # status
    BY <1>1
  <2>2. ASSUME NEW c \in Callers,
               IngestNext(c) \/ MaintenanceNext(c)
        PROVE  \E o \in Callers : pc[o] = "idle" /\ pc'[o] = "rebuild"
    <3>1. ~Quiet(c)
      BY <2>1, CorpusKept DEF Quiet
    <3>2. ~\E x \in Contents : Upload(c, x)
      BY <2>1 DEF Upload, catalogue
    <3>3. \A e \in Docs : ~Persist(c, e)
      <4>1. SUFFICES ASSUME NEW e \in Docs, Persist(c, e)
                     PROVE  FALSE
        OBVIOUS
      <4>2. status[e] = "absent" /\ status' = [status EXCEPT ![e] = "ready"]
        BY <4>1 DEF Persist, Commit
      <4> QED
        BY <1>1, <2>0, <4>2 DEF TypeOK
    <3>4. \A e \in Docs : ~Replace(c, e)
      BY <2>1 DEF Replace, Commit
    <3>5. PICK e \in Docs, st \in {"ready", "disabled"} : Toggle(c, e, st)
      BY <1>1, <2>2, <3>1, <3>2, <3>3, <3>4, QuietSteps DEF IngestNext, MaintenanceNext
    <3> QED
      BY <2>0, <3>5, Types DEF Toggle, Goto
  <2>3. ASSUME NEW c \in Callers,
               \/ RebuildNext(c) \/ RebuildRaises(c) \/ PublishRaises(c)
               \/ SearchNext(c)
        PROVE  UNCHANGED catalogue
    BY <2>3
    DEF RebuildNext, Acquire, ReadRows, WriteGeneration, WriteManifest, CleanUp,
        RebuildRaises, PublishRaises, SearchNext, SearchKeywords, SearchVectors,
        SkipVectors, Fetch, Answer
  <2>4. ASSUME Crash \/ (\E x, y \in Contents : EditSource(x, y)) \/ UNCHANGED vars
        PROVE  UNCHANGED catalogue
    BY <2>4 DEF Crash, EditSource, vars
  <2> QED
    BY <1>1, <2>1, <2>2, <2>3, <2>4, CorpusKept DEF Next
<1>2. KnowledgeInv /\ [Next]_vars => [Back]_vars
  BY <1>1
<1> HIDE DEF Back
<1>3. Spec => [][Back]_vars
  BY <1>2, KnowledgeCorrect, PTL DEF Spec
<1> QED
  BY <1>3 DEF Back, DisabledStaysDisabled
=============================================================================
