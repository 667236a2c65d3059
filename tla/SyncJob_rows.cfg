SPECIFICATION Spec
CONSTANTS
  w1 = w1
  w2 = w2
  Workers = {w1}
  Deals = {1, 2}
  Kind <- InOut
  Position <- OnePosition
  Order <- TwoOrders
  Overlap = 1
  Lookback = 3
  Backfill = 3
  Chunk = 1
  SettleDelay = 0
  MaxSpan = 0
  NoRow = NoRow
  MaxTime = 3
  LastDeal = 3
  MaxFaults = 0
INVARIANTS
  OneRowPerExit
