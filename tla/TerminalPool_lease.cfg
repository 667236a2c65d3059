SPECIFICATION FairSpec
CONSTANTS
  w1 = w1
  w2 = w2
  t1 = t1
  t2 = t2
  a1 = a1
  a2 = a2
  Workers = {w1, w2}
  Terminals = {t1}
  Accounts = {a1, a2}
  Preferred <- BothPreferFirst
  SlotList <- OnePool
  Kinds = {"verify", "sync"}
  NoTerminal = NoTerminal
  NoAccount = NoAccount
  Nobody = Nobody
  Stale = Stale
  MaxOverruns = 1
  MaxFailures = 1
PROPERTIES
  RefinesTerminalLease
  LocksAreFreed
  JobsEnd
