SPECIFICATION FairSpec
CONSTANTS
  Keys = {1, 2, 3}
  Threads = {t1, t2}
  Nobody = Nobody
  MaxSize = 2
  Calls = {"lease", "probe", "unload", "clear"}
  Serialised = TRUE
  LoadFails = TRUE
INVARIANTS
  UsedIsLoaded
  OneAdapterPerKey
  NothingLeaks
PROPERTIES
  CallsEnd
