------------------------------ MODULE Runtime ------------------------------
(***************************************************************************)
(* The server at work: the scheduler's loops and pool, with the forecast   *)
(* task's job making the AI calls of a forecast run, while another thread  *)
(* (RobotRunner's, started over the API) may make forecast runs of its own *)
(* through the same circuit breaker.  A crash or the end of the process    *)
(* takes the threads and the breaker, which lives in memory, with it.      *)
(***************************************************************************)
EXTENDS Scheduler, AICalls

CONSTANTS Forecast,   \* the task scheduled_forecast
          Robot       \* the thread of RobotRunner

ASSUME RuntimeAssumption ==
  /\ Forecast \in PoolTask
  /\ Caller = {Forecast, Robot} /\ Robot # Forecast

vars == <<schedulerVars, aiVars>>

TypeOK == SchedulerTypeOK /\ AITypeOK

Init == SchedulerInit /\ AIInit

\* The process ends: its threads and its breaker are gone.
ThreadsEnd ==
  /\ call' = [c \in Caller |-> Idle]
  /\ breaker' = NewBreaker
  /\ UNCHANGED <<onPath, provider>>

Start == StartServer /\ UNCHANGED aiVars

Stop == StopServer /\ UNCHANGED aiVars

\* RobotRunner's thread is a daemon: it does not hold the process.
ProcessExits == Exit /\ ThreadsEnd

ServerCrashes == Crash /\ ThreadsEnd

ClockTicks == Tick /\ UNCHANGED aiVars

LaunchTask(t) == Launch(t) /\ UNCHANGED aiVars

WorkerTakesJob ==
  /\ TakeJob
  /\ IF Head(queue) = Forecast THEN BeginRun(Forecast) ELSE UNCHANGED aiVars

\* The forecast's job ends when its run has gone through every model.
WorkerFinishes(j) ==
  /\ FinishJob(j)
  /\ IF j = Forecast THEN EndRun(Forecast) ELSE UNCHANGED aiVars

TaskReturns(t) == ReturnInline(t) /\ UNCHANGED aiVars

RobotStarts ==
  /\ server # "down"
  /\ BeginRun(Robot)
  /\ UNCHANGED schedulerVars

RobotFinishes == EndRun(Robot) /\ UNCHANGED schedulerVars

Calling(c) == CallStep(c) /\ UNCHANGED schedulerVars

GraceEnds == GraceElapses /\ UNCHANGED schedulerVars

ProviderTurns == ProviderChanges /\ UNCHANGED schedulerVars

Next ==
  \/ Start \/ Stop \/ ProcessExits \/ ServerCrashes
  \/ ClockTicks
  \/ \E t \in Task : LaunchTask(t) \/ TaskReturns(t)
  \/ WorkerTakesJob
  \/ \E j \in Job : WorkerFinishes(j)
  \/ RobotStarts \/ RobotFinishes
  \/ \E c \in Caller : Calling(c)
  \/ GraceEnds
  \/ ProviderTurns

Spec == Init /\ [][Next]_vars

\* Threads and coroutines are scheduled, requests time out, the clock goes on.
\* Nothing makes the server start, stop or crash, the provider change, or the
\* robot be started.
FairSpec ==
  /\ Spec
  /\ WF_vars(ClockTicks)
  /\ WF_vars(GraceEnds)
  /\ WF_vars(WorkerTakesJob)
  /\ \A t \in Task : WF_vars(LaunchTask(t)) /\ WF_vars(TaskReturns(t))
  /\ \A j \in Job : WF_vars(WorkerFinishes(j))
  /\ \A c \in Caller : WF_vars(Calling(c))
  /\ WF_vars(RobotFinishes)

-----------------------------------------------------------------------------
\* The forecast's run is made by a thread of the pool, and only by one.
RunHasItsThread == (call[Forecast].at # "idle") <=> (Forecast \in busy)

\* circuit_breaker.py: the circuit is not closed again while the failures that
\* opened it still stand, whatever threads succeed and fail in between.
BreakerNotTripped == ClosedBelowThreshold(breaker)

\* The threads of the pool, the runs in them and the breaker they share agree: a
\* task has one run at a time, with a thread of its own, and no two of them leave
\* the circuit closed over the failures that open it.
ThreadsAgree == TypeOK /\ OneRunAtATime /\ RunHasItsThread /\ BreakerNotTripped

\* A server that stays up runs every task again and again: no answer of the
\* provider and no failing task ends a loop or keeps the pool's threads.
TasksKeepRunning ==
  <>[](server = "up") =>
     \A t \in Task : []<>(loop[t] = "await") /\ []<>(loop[t] = "sleep")

\* Once the provider answers for good, the circuit closes for good.
BreakerRecovers ==
  <>[](server = "up" /\ provider = "up") => <>[](breaker.state = "CLOSED")

\* Both: neither a loop nor the circuit stays stuck.
NothingStaysStuck == TasksKeepRunning /\ BreakerRecovers
=============================================================================
