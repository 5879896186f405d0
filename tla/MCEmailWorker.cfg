SPECIFICATION WorkerSpec
CONSTANTS
  w1 = w1
  n1 = n1
  bad = bad
  sms = sms
  a1 = a1
  a2 = a2
  NoAttempt = NoAttempt
  Workers = {w1}
  Notifications = {n1}
  Malformed = {bad}
  OtherChannel = {sms}
  Records = {n1, bad, sms}
  Attempts = {a1, a2}
  HandlerSteps = {"smtp", "confirm", "record", "recordFailed", "reject", "flag", "flagLog"}
  RetryMax = 1
  MaxPause = 1
  MaxRecords = 2
  t1 = t1
  t2 = t2
  c1 = c1
  c2 = c2
  c3 = c3
  None = None
  Tasks = {t1, t2}
  Conns = {c1, c2, c3}
  Size = 2
INVARIANT Exclusive
PROPERTY RowsMoveForward
PROPERTY ImplementsMailQueue
PROPERTY EverySettles
PROPERTY AcquireEnds
CHECK_DEADLOCK FALSE
