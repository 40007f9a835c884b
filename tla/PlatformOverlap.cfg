CONSTANTS
  r1 = r1
  r2 = r2
  b1 = b1
  b2 = b2
  a1 = a1
  a2 = a2
  h1 = h1
  h2 = h2
  h3 = h3
  Requests = {r1}
  Buyers = {b1}
  Subagents = {a1}
  Handlers = {h1, h2}
  Store = "postgres"
  Limit = 3
  MaxEvents = 3
  MaxModerations = 1
  MaxFaults = 0
  MaxCrashes = 1
SPECIFICATION Spec
INVARIANT SavedSurvives
CHECK_DEADLOCK FALSE
