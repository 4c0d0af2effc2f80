SPECIFICATION FairSpec
CONSTANTS
  c1 = c1
  c2 = c2
  t1 = t1
  t2 = t2
  PendingTask = pending_task
  Nobody = Nobody
  NoUid = NoUid
  Consensus = {c1}
  Ticker = {t1}
  TickerOf <- OneRow
  Uid = {u1}
  ApiThread = {}
  ManualThread = {}
  Syncer = {sync1}
  MaxOpenPositions = 2
  MaxCrashes = 1
  Faults = {"read_error", "write_error", "lost_reply"}
INVARIANTS LocalNeverAhead LiveIsTracked
PROPERTIES SubmissionEnds ExposureEnds FillIsNoticed
