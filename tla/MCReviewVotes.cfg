SPECIFICATION Spec
CONSTANTS
  NoReview = NoReview
  Idle = Idle
  NoRating = NoRating
  NoStats = NoStats
  NoWork = NoWork
  NoEntry = NoEntry
  Waiting = Waiting
  NoCard = NoCard
  NoProfile = NoProfile
  NoView = NoView
  u1 = u1
  u2 = u2
  Authors = {u1}
  Voters = {u1, u2}
  Calls = {1}
  MaxReviews = 1
  MaxCalls = 2
  Raters = {u1}
  Scores = {2, 8}
  Writers = {1, 2}
  Readers = {1, 2}
  Cards = {1, 2}
  Ttl <- CacheTtl
  Patience = 1
  MaxEdits = 2
  People = {u1, u2}
  Phones = {1, 2}
  Views = {1, 2}
  Parts = {"reviews"}
CHECK_DEADLOCK FALSE
INVARIANT CountsMatchVotes
