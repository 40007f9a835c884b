CONSTANTS
  r1 = r1
  r2 = r2
  r3 = r3
  loop = loop
  http = http
  Requests = {r1, r3}
  Urgent = {}
  Foreign = {r3}
  Pullers = {loop}
  PostReqs = {r3}
  Outcomes = {"ok", "deferred"}
  Workers = 1
  Limit = 3
  FaultyCalls = {"introspect", "receivedMetric", "rejectSend", "acceptMetric", "ack"}
  MaxMessages = 2
  MaxTasks = 3
  MaxFaults = 1
  MaxCrashes = 0
SPECIFICATION FairSpec
INVARIANT SameResult
PROPERTIES QueuedFinishes MessageHandled
CHECK_DEADLOCK FALSE
