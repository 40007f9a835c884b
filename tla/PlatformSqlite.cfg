CONSTANTS
  r1 = r1
  r2 = r2
  b1 = b1
  b2 = b2
  a1 = a1
  a2 = a2
  h1 = h1
  h2 = h2
  h3 = h3
  Requests = {r1, r2}
  Buyers = {b1, b2}
  Subagents = {a1, a2}
  Handlers = {h1}
  Store = "sqlite"
  Limit = 2
  MaxEvents = 3
  MaxModerations = 1
  MaxFaults = 1
  MaxCrashes = 1
SYMMETRY Interchangeable
SPECIFICATION Spec
INVARIANTS TypeOK PromisesKept OncePerKind
PROPERTY ImplementsLedger
CHECK_DEADLOCK FALSE
