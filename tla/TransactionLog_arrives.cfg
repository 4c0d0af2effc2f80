SPECIFICATION FairSpec
CONSTANTS
  Entry = {e1, e2}
  Sync = {s1, s2}
  Scheduler = s1
  Chunk = 1
  Overlap = 1
  Lookback = 2
  Day = 2
  Delay = 1
  Dates = {1}
  NoDate = NoDate
  Filters = {{e1}}
  Faults = {"page_error", "exception", "mark_error", "crash", "manual"}
  MaxFaults = 2
  MaxTime = 4
INVARIANTS TypeOK NothingMissed
PROPERTIES SyncIsComplete EveryEntryArrives
