SPECIFICATION AuthSpec
CONSTANTS
  h1 = h1
  h2 = h2
  Requests = {h1, h2}
  MaxSessions = 2
  MaxTokens = 4
  MaxPasswords = 1
  admin = admin
  viewer = viewer
  view = view
  w1 = w1
  NoEntry = NoEntry
  Roles = {viewer}
  AdminRole = admin
  Perms = {view}
  Writers = {w1}
  Checks = {}
  SignIns = {h1, h2}
  FailureThreshold = 1
  ResetTimeout = 1
SYMMETRY Symmetry
INVARIANT ExchangedOnce
INVARIANT RevokeAllIsComplete
INVARIANT MirrorWasTold
PROPERTY RevokedStaysDead
CHECK_DEADLOCK FALSE
