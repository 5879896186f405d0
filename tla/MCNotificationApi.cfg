SPECIFICATION ApiSpec
CONSTANTS
  w1 = w1
  w2 = w2
  n1 = n1
  bad = bad
  t1 = t1
  t2 = t2
  a1 = a1
  NoAttempt = NoAttempt
  NoDraft = NoDraft
  Workers = {w1, w2}
  Notifications = {n1}
  Malformed = {bad}
  OtherChannel = {}
  Records = {n1, bad}
  Texts = {t1, t2}
  Attempts = {a1}
  HandlerSteps = {"resume", "profile", "template", "save", "skip", "publish", "reject", "rejectLog"}
  RetryMax = 0
  MaxPause = 1
  MaxRequests = 1
  s1 = s1
  s2 = s2
  u1 = u1
  u2 = u2
  c1 = c1
  c2 = c2
  Sockets = {s1, s2}
  Users = {u1, u2}
  Owner <- Tabs
  Calls = {c1, c2}
SYMMETRY Symmetry
INVARIANT CommittedIsAnswered
INVARIANT PublishedIsSaved
INVARIANT OpenIsReached
PROPERTY WorkerStatusStays
CHECK_DEADLOCK FALSE
