CONSTANTS
  r1 = r1
  r2 = r2
  r3 = r3
  loop = loop
  http = http
  Requests = {r1}
  Urgent = {}
  Foreign = {}
  Pullers = {loop}
  PostReqs = {}
  Outcomes = {"ok"}
  Workers = 1
  Limit = 2
  FaultyCalls = {"resultMetric"}
  MaxMessages = 2
  MaxTasks = 2
  MaxFaults = 1
  MaxCrashes = 0
SPECIFICATION Spec
INVARIANT SameResult
CHECK_DEADLOCK FALSE
