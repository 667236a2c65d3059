SPECIFICATION RetrySpec
CONSTANTS
  w1 = w1
  w2 = w2
  c1 = c1
  sync = sync
  j1 = j1
  j2 = j2
  j3 = j3
  NoJob = NoJob
  Clients = {c1}
  Workers = {w1, w2}
  JobIds = {j1, j2, j3}
  SlotOf <- OneSlot
  Slots = {sync}
  VerifySlots = {}
  MaxFailures = 2
  MaxLockTimeouts = 2
  Priorities = {FALSE}
  RunsOutliveStale = FALSE
SYMMETRY Sym
INVARIANT RetriedOnce
