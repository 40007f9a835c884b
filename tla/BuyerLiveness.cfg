CONSTANTS
  r1 = r1
  r2 = r2
  s1 = s1
  s2 = s2
  loop = loop
  http = http
  Requests = {r1}
  Slots = {s1}
  Kinds = {"dispatch"}
  Pollers = {loop}
  Deadlines = {"soft", "hard"}
  Packages = {"invalid", "blank"}
  AutoFinalize = TRUE
  DefaultKey = TRUE
  Limit = 10
  FaultyCalls = {"batch"}
  MaxCreates = 1
  MaxSends = 1
  MaxMessages = 1
  MaxTails = 1
  MaxFaults = 1
  MaxCrashes = 0
SPECIFICATION FairSpec
PROPERTIES HardDeadlineEnforced AckObserved ResultConsumed OutcomeSaved
CHECK_DEADLOCK FALSE
