SPECIFICATION FairSpec
CONSTANTS
  c1 = c1
  t1 = t1
  t2 = t2
  NoRun = NoRun
  NoJob = NoJob
  Campaigns = {c1}
  Tasks = {t1, t2}
  MaxEdits = 0
  MaxPresses = 1
  MaxRuns = 1
CHECK_DEADLOCK FALSE
PROPERTY EveryCampaignIsSent
PROPERTY CancelledStops
