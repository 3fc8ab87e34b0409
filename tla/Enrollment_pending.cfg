SPECIFICATION MCSpec
CONSTANTS
  d1 = d1  d2 = d2  d3 = d3
  k1 = k1  k2 = k2  k3 = k3  k4 = k4
  i1 = i1  i2 = i2  token = token  a = a  b = b
  Sessions = {s1, s2, s3}
  Devices = {d1, d2, d3}
  Keys = {k1, k2, k3}
  Claims <- MCClaims
  MaxPending = 2
  PendingTTL = 1
  ChallengeTTL = 1
  MaxTime = 1
  MaxCrashes = 1
  None = None
  Scenarios = {{"tick", "crash"}, {"file", "crash"}}
  Callers <- MCCallers
  Requests = {r1, r2}
  Ips = {i1, i2}
  Loopback = {i1}
  Accounts = {k1, k2, k3, k4}
  KeyKind <- MCKeyKind
  SessionIds = {token}
  Tickets = {t1, t2}
  Terminals = {a, b}
  Limit = 2
  BanAt = 4
  Minute = 1
  TenMinutes = 2
  BanTime = 3
  Quota = 2
  SessionTtl = 2
  TicketTtl = 1
  ApiKeys = {s1, s2, s3}
  Verifiers = {v1}
  KeyTime = 1
  MaxGrace = 1
  NoKey = NoKey
  Never = Never
  Unsure = Unsure
  Chances = {{"crash", "diskError"}, {"crash", "erase", "noBootstrap", "reinit"}}
INVARIANTS IdentityUnique CapacityHolds HeldWhileGranted WithinLimits AcknowledgedHolds BannerHolds
PROPERTIES RightsEnd AdminRemains
SYMMETRY Symmetry
CHECK_DEADLOCK FALSE
