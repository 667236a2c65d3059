SPECIFICATION FairSpec
CONSTANTS
  w1 = w1
  w2 = w2
  c1 = c1
  sync = sync
  verify = verify
  j1 = j1
  j2 = j2
  v1 = v1
  NoJob = NoJob
  Clients = {c1}
  Workers = {w1, w2}
  JobIds = {j1, v1}
  SlotOf <- TwoSlots
  Slots = {sync, verify}
  VerifySlots = {verify}
  MaxFailures = 1
  MaxLockTimeouts = 1
  Priorities = {FALSE}
  RunsOutliveStale = FALSE
PROPERTIES
  ServedOrLost
  WedgeIsForever
  RefinesCoalescingQueue
