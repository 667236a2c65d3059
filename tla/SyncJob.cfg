SPECIFICATION Spec
CONSTANTS
  w1 = w1
  w2 = w2
  Workers = {w1, w2}
  Deals = {1, 2, 3, 4}
  Kind <- ReopenKind
  Position <- ReopenPosition
  Order <- ReopenOrder
  Overlap = 2
  Lookback = 3
  Backfill = 3
  Chunk = 1
  SettleDelay = 0
  MaxSpan = 1
  NoRow = NoRow
  MaxTime = 3
  LastDeal = 2
  MaxFaults = 1
SYMMETRY Sym
INVARIANTS
  TypeOK
  NoHole
