CONSTANTS
  r1 = r1
  r2 = r2
  s1 = s1
  s2 = s2
  loop = loop
  http = http
  Requests = {r1}
  Slots = {s1}
  Kinds = {"prepare", "dispatch", "sync", "push"}
  Pollers = {loop}
  Deadlines = {"ack"}
  Packages = {"ok", "error"}
  AutoFinalize = TRUE
  DefaultKey = FALSE
  Limit = 10
  FaultyCalls = {}
  MaxCreates = 2
  MaxSends = 1
  MaxMessages = 1
  MaxTails = 1
  MaxFaults = 0
  MaxCrashes = 0
SPECIFICATION Spec
INVARIANTS TypeOK ResultNotLost OutcomeConsistent
PROPERTIES OnlyPushOverwrites NoFalseDeliveryTimeout
CHECK_DEADLOCK FALSE
