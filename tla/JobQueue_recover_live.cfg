SPECIFICATION Spec
CONSTANTS
  w1 = w1
  w2 = w2
  c1 = c1
  sync = sync
  verify = verify
  j1 = j1
  j2 = j2
  v1 = v1
  NoJob = NoJob
  Clients = {c1}
  Workers = {w1, w2}
  JobIds = {j1, j2}
  SlotOf <- OneSlot
  Slots = {sync}
  VerifySlots = {}
  MaxFailures = 0
  MaxLockTimeouts = 0
  Priorities = {FALSE}
  RunsOutliveStale = FALSE
PROPERTY RecoversOnlyCrashed
