SPECIFICATION MCSpec
CONSTANTS
  w1 = w1
  w2 = w2
  n1 = n1
  a1 = a1
  a2 = a2
  a3 = a3
  NoAttempt = NoAttempt
  Workers = {w1, w2}
  Notifications = {n1}
  bad = bad
  sms = sms
  Malformed = {bad}
  OtherChannel = {sms}
  Records = {n1, bad, sms}
  Attempts = {a1, a2, a3}
  HandlerSteps = {"smtp", "confirm", "record", "recordFailed", "reject", "flag", "flagLog"}
  RetryMax = 0
  MaxPause = 1
  MaxRecords = 2
SYMMETRY Symmetry
INVARIANT NoDuplicateEmail
INVARIANT CommittedIsRecorded
INVARIANT OneSender
INVARIANT SentWasAccepted
INVARIANT DeliveredIsTraced
INVARIANT LogAgrees
CHECK_DEADLOCK FALSE
