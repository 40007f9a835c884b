CONSTANTS
  r1 = r1
  r2 = r2
  s1 = s1
  s2 = s2
  loop = loop
  http = http
  Requests = {r1}
  Slots = {s1}
  Kinds = {"remote", "dispatch", "push"}
  Pollers = {loop}
  Deadlines = {"ack", "hard"}
  Packages = {"ok", "garbled"}
  AutoFinalize = TRUE
  DefaultKey = FALSE
  Limit = 10
  FaultyCalls = {"meta", "batch", "metric"}
  MaxCreates = 1
  MaxSends = 1
  MaxMessages = 1
  MaxTails = 1
  MaxFaults = 1
  MaxCrashes = 1
SPECIFICATION Spec
PROPERTIES DurableOutcome ImplementsOutcomes
CHECK_DEADLOCK FALSE
