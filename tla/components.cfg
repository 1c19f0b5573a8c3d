SPECIFICATION ComponentsSpec
CONSTANTS
  Runs = {r1, r2, r3}
  Masks = {m1}
  Callers = {c1, c2}
  Items = {1}
  Directory <- First
  Directories = 2
  Backups = {c1, c2}
  None = None
  Nothing = Nothing
  MaxRevision = 1
  MaxRequests = 1
  MaxMishaps = 1
  MaxKills = 2
  RunIds = {q1, q2}
  Creators = {c0}
  Executors = {e1}
  LastPart = 2
  Digests = {d1, d2}
  Null = Null
  MaxWarm = 1
  MaxEdits = 1
  MaxTampers = 1
  MaxRestarts = 1
  t1 = t1
  p1 = p1
  k1 = k1
  k2 = k2
  Tenants <- OneTenant
  Principals <- OnePrincipal
  Credentials <- TwoCredentials
  ParentOf <- Parents
  Expiry <- Expiries
  Requests = {a1}
  MaxTime = 1
  MaxEvents = 3
  Keys = {x, y, z}
  Threads = {u, v}
  Capacity = 2
  Window = 3
  TicksPerSecond = 2
  MaxBuckets = 2
  MaxTicks = 3
  MaxDecisions = 5
  Queries = {g, h}
  Exports = {l, m}
  Selections = {all, some}
  Nobody = nobody
  MaxFailures = 1
  MaxCalls = 3
  MaxEpisode = 7
INVARIANTS
  BoxesAreOneEdit
  MasksFollowRows
  TokenWorksOnce
  OneReplacement
  ArchiveHasItsFiles
  ReportedStays
  RestoredIsWhole
  FrozenIsWhole
  VerdictIsJustified
  ReportIsTrue
  TrailTellsState
  RateIsExact
  RetryIsHonest
  ArchiveIsOwn
  UndisturbedFilesAreRight
PROPERTIES
  KeepsPromise
CHECK_DEADLOCK FALSE
