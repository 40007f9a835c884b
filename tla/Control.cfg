CONSTANTS
  u1 = u1
  s1 = s1
  a1 = a1
  a2 = a2
  p1 = p1
  p2 = p2
  t1 = t1
  w1 = w1
  w2 = w2
  o1 = o1
  Users = {u1}
  Sellers = {s1}
  Subagents = {a1, a2}
  Pems = {p1, p2}
  BootSeller = s1
  BootSubagent = a1
  BootPem = p1
  Quota = 2
  MaxKeys = 4
  MaxSubmissions = 1
  MaxSaveFaults = 1
  MaxRestarts = 1
  Tests = {t1}
  Tested = {a1, a2}
  MaxRuns = 2
  MaxRelayFaults = 1
  MaxLostSaves = 2
  MaxExits = 1
  Passphrases = {w1, w2}
  MaxValues = 2
  MaxSessions = 1
  MaxReboots = 1
  Offered = {o1}
  MaxDefinitions = 2
  MaxSpawns = 2
  MaxTurns = 1
  MaxBoots = 1
  MaxCommands = 1
  MaxAttempts = 4
  MaxFailures = 3
SPECIFICATION FairSpec
INVARIANTS TypesOK PublicOnlyAsApproved RevokedStaysDead AccountsAgree PassEarned MarkedMeansReceived SellerAsConfigured  SecretsKept RerunGetsThrough
PROPERTIES PassStands TestEnds
CHECK_DEADLOCK FALSE
