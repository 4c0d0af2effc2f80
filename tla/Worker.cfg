SPECIFICATION FairSpec
CONSTANTS
  Request = {r1, r2}
  ThreadRequest = {r1}
  NoRequest = NoRequest
  Work = Work
  LoopBlockers = {"heartbeat", "snapshot"}
  OpTimeout = 2
  CallTimeout = 2
  InnerExtra = 1
  OuterExtra = 2
  PollTimeout = 1
  StopTimeout = 1
  SyncInterval = 3
  MaxWork = 2
INVARIANTS TypeOK OneAheadIsAnswered
PROPERTIES UnstartedNeverStarts SyncKeepsRunning Served
