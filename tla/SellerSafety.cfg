CONSTANTS
  r1 = r1
  r2 = r2
  r3 = r3
  loop = loop
  http = http
  Requests = {r1, r2, r3}
  Urgent = {r2}
  Foreign = {}
  Pullers = {loop}
  PostReqs = {r2}
  Outcomes = {"ok", "throw"}
  Workers = 1
  Limit = 2
  FaultyCalls = {"introspect", "rejectSend", "acceptMetric", "ack", "resultSend", "resultMetric"}
  MaxMessages = 2
  MaxTasks = 2
  MaxFaults = 1
  MaxCrashes = 1
SYMMETRY SamePriority
SPECIFICATION Spec
INVARIANTS TypeOK SchedulerConsistent WorkConserving NoSilentLoss ReportsTruthful AtMostOnce
PROPERTY NoOvertaking ImplementsService
CHECK_DEADLOCK FALSE
