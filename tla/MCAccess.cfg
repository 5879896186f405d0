SPECIFICATION AccessSpec
CONSTANTS
  r1 = r1
  r2 = r2
  g1 = g1
  g2 = g2
  c1 = c1
  c2 = c2
  LetterCodes = {c2}
  None = None
  Requests = {r1, r2}
  GoogleIds = {g1, g2}
  Codes = {c1, c2}
  MaxAttempts = 2
  admin = admin
  viewer = viewer
  view = view
  w1 = w1
  k1 = k1
  s1 = s1
  s2 = s2
  NoEntry = NoEntry
  Roles = {viewer}
  AdminRole = admin
  Perms = {view}
  Writers = {w1}
  Checks = {k1}
  SignIns = {s1, s2}
  FailureThreshold = 2
  ResetTimeout = 2
INVARIANT RedirectedIsConfirmed
INVARIANT UnverifiedStaysAlone
INVARIANT EveryUserCanSignIn
INVARIANT StaleNeedsRace
PROPERTY ClickingConfirms
PROPERTY CacheHeals
PROPERTY BreakerRecovers
CHECK_DEADLOCK FALSE
