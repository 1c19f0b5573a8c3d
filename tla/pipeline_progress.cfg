SPECIFICATION FairSpec
CONSTANTS
  r1 = r1
  r2 = r2
  j1 = j1
  w1 = w1
  w2 = w2
  c1 = c1
  Runs = {r1, r2}
  Jobs = {j1}
  JobOf <- OneJob
  Workers = {w1}
  Clients = {c1}
  Capacity = 1
  NoRun = NoRun
  MaxCrashes = 1
  Faults = {"work_error"}
PROPERTIES
  AcceptedRunFinishes
CHECK_DEADLOCK FALSE
