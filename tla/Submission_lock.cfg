SPECIFICATION Spec
CONSTANTS
  c1 = c1
  c2 = c2
  t1 = t1
  t2 = t2
  PendingTask = pending_task
  Nobody = Nobody
  NoUid = NoUid
  Consensus = {c1}
  Ticker = {t1}
  TickerOf <- OneRow
  Uid = {u1, u2}
  ApiThread = {api1}
  ManualThread = {man1}
  Syncer = {}
  MaxOpenPositions = 2
  MaxCrashes = 1
  Faults = {"lost_reply"}
SYMMETRY UidSymmetry
INVARIANTS TypeOK OneQueuedPerTicker SavedBeforePlaced SubmittedIsReal
