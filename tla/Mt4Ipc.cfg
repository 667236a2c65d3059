SPECIFICATION FairSpec
CONSTANTS
  w1 = w1
  w2 = w2
  t1 = t1
  a1 = a1
  a2 = a2
  Workers = {w1, w2}
  Terminals = {t1}
  Accounts = {a1, a2}
  NoTerminal = NoTerminal
  NoAccount = NoAccount
  Nobody = Nobody
  NoFile = NoFile
  MaxFaults = 1
INVARIANTS
  TypeOK
  AnswersAreFresh
  HistoryIsOwn
  UnansweredIsDisturbed
PROPERTIES
  JobsEnd
