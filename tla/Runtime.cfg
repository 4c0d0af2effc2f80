SPECIFICATION FairSpec
CONSTANTS
  forecast = forecast
  heartbeat = heartbeat
  robot = robot
  backfill = backfill
  Task = {forecast, heartbeat}
  PoolTask = {forecast}
  OnStart = {heartbeat}
  Interval <- Intervals
  MaxRetries = 1
  Workers = 1
  Backfill = backfill
  Forecast = forecast
  Robot = robot
  Caller = {forecast, robot}
  Models = 1
  Methods = 2
  MaxAttempts = 2
  FailureThreshold = 2
  RecoveryThreshold = 2
INVARIANTS ThreadsAgree RestartKeepsSchedule
PROPERTIES NothingStaysStuck
