SPECIFICATION Spec
CONSTANTS
  c1 = c1
  c2 = c2
  t1 = t1
  t2 = t2
  PendingTask = pending_task
  Nobody = Nobody
  NoUid = NoUid
  Consensus = {c1, c2}
  Ticker = {t1, t2}
  TickerOf <- TwoTickers
  Uid = {u1, u2}
  ApiThread = {api1, api2}
  ManualThread = {}
  Syncer = {}
  MaxOpenPositions = 1
  MaxCrashes = 0
  Faults = {}
SYMMETRY UidSymmetry
INVARIANTS LimitRespected
