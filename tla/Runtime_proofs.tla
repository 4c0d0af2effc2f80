--------------------------- MODULE Runtime_proofs ---------------------------
(***************************************************************************)
(* What is proved of Runtime for any tasks, intervals, number of threads,  *)
(* retries, models, methods and thresholds.                                *)
(***************************************************************************)
EXTENDS Runtime, FiniteSetTheorems, TLAPS

\* The sleeps and the ages are functions of the tasks.
Timed == timer \in [Task -> Nat] /\ age \in [Task -> Nat]

Queued == {queue[i] : i \in 1 .. Len(queue)}

\* No job waits twice, and none that waits is being done.
QueueOnce ==
  /\ \A i, k \in 1 .. Len(queue) : queue[i] = queue[k] => i = k
  /\ Queued \intersect busy = {}

\* The job of a pool task, waiting or being done, is awaited by its loop.
WorkIsAwaited ==
  \A t \in PoolTask :
    t \in Queued \/ (t \in busy /\ server = "up") => loop[t] = "await"

\* Only a server that is up has loops and a queue, and a process that is gone
\* has no threads.
StoppedIsQuiet ==
  /\ server # "up" => queue = <<>> /\ \A t \in Task : loop[t] = "none"
  /\ server = "down" => busy = {}

RInv ==
  /\ TypeOK /\ Timed /\ QueueOnce /\ WorkIsAwaited /\ StoppedIsQuiet
  /\ RunHasItsThread /\ BreakerNotTripped /\ RestartKeepsSchedule

-----------------------------------------------------------------------------
\* A field of the breaker is set to a value of its type.
LEMMA BreakerFields ==
  ASSUME NEW b \in Breaker
  PROVE  /\ \A n \in 0 .. FailureThreshold :
              [b EXCEPT !.failures = n] \in Breaker
         /\ \A n \in 0 .. RecoveryThreshold :
              [b EXCEPT !.successes = n] \in Breaker
         /\ \A s \in {"CLOSED", "HALF"} : [b EXCEPT !.state = s] \in Breaker
BY DEF Breaker

\* The functions of the breaker keep its type, and a closed circuit below the
\* threshold.
LEMMA BreakerFunctions ==
  ASSUME NEW b \in Breaker, ClosedBelowThreshold(b)
  PROVE  /\ CheckTransition(b) \in Breaker /\ ClosedBelowThreshold(CheckTransition(b))
         /\ RecordSuccess(b) \in Breaker /\ ClosedBelowThreshold(RecordSuccess(b))
         /\ RecordFailure(b) \in Breaker /\ ClosedBelowThreshold(RecordFailure(b))
<1> USE ThresholdsAssumption DEF ThresholdsAssumption
<1>1. CheckTransition(b) \in Breaker /\ ClosedBelowThreshold(CheckTransition(b))
  BY DEF CheckTransition, Breaker, ClosedBelowThreshold
<1>2. RecordSuccess(b) \in Breaker /\ ClosedBelowThreshold(RecordSuccess(b))
  <2> DEFINE counted == b.successes + 1
             f == [b EXCEPT !.failures = 0]
             g == [f EXCEPT !.successes = 0]
             h == [f EXCEPT !.successes = counted]
             i == [g EXCEPT !.state = "CLOSED"]
  <2>1. counted \in Nat /\ 0 \in 0 .. FailureThreshold /\ 0 \in 0 .. RecoveryThreshold
    BY DEF Breaker
  <2>2. f \in Breaker /\ f.failures = 0
    BY <2>1, BreakerFields DEF Breaker
  <2> HIDE DEF f
  <2>3. g \in Breaker /\ g.failures = 0
    BY <2>1, <2>2, BreakerFields DEF Breaker
  <2>4. counted < RecoveryThreshold => h \in Breaker /\ h.failures = 0
    <3> HIDE DEF counted
    <3> QED
      BY <2>1, <2>2, BreakerFields DEF Breaker
  <2> HIDE DEF g, h
  <2>5. i \in Breaker /\ i.failures = 0
    BY <2>3, BreakerFields DEF Breaker
  <2> HIDE DEF i
  <2>6. /\ b.state = "CLOSED" => RecordSuccess(b) = g
        /\ b.state = "OPEN" => RecordSuccess(b) = f
        /\ b.state = "HALF" => RecordSuccess(b) = IF counted < RecoveryThreshold
                                                 THEN h ELSE i
    BY DEF RecordSuccess, f, g, h, i
  <2>8. \A x \in Breaker : x.failures = 0 => ClosedBelowThreshold(x)
    BY DEF ClosedBelowThreshold
  <2> QED
    BY <2>2, <2>3, <2>4, <2>5, <2>6, <2>8 DEF Breaker
<1>3. RecordFailure(b) \in Breaker /\ ClosedBelowThreshold(RecordFailure(b))
  BY DEF RecordFailure, Breaker, ClosedBelowThreshold
<1> QED
  BY <1>1, <1>2, <1>3

\* The fields of a call that a request or a pause sets.
LEMMA PostedCall ==
  ASSUME NEW k \in Calls, NEW n \in 1 .. MaxAttempts
  PROVE  /\ [k EXCEPT !.at = "post", !.attempt = n] \in Calls
         /\ [k EXCEPT !.at = "post", !.attempt = n].at = "post"
<1> DEFINE p == [k EXCEPT !.at = "post"]
<1>1. p \in Calls /\ p.at = "post"
  BY DEF Calls
<1> HIDE DEF p
<1>2. [p EXCEPT !.attempt = n] \in Calls /\ [p EXCEPT !.attempt = n].at = "post"
  BY <1>1 DEF Calls
<1> QED
  BY <1>2 DEF p

\* The next place of a run is one, and the run goes on.
LEMMA RunGoesOn ==
  ASSUME NEW k \in Calls
  PROVE  /\ NextMethod(k) \in Calls /\ NextMethod(k).at # "idle"
         /\ NextModel(k) \in Calls /\ NextModel(k).at # "idle"
<1> USE CallsAssumption DEF CallsAssumption, Calls
<1>1. NextModel(k) \in Calls /\ NextModel(k).at # "idle"
  BY DEF NextModel, Unit, Idle
<1>2. NextMethod(k) \in Calls /\ NextMethod(k).at # "idle"
  BY <1>1 DEF NextMethod, Unit
<1> QED
  BY <1>1, <1>2

\* A step of an AI call leaves the run going and the breaker not tripped.
LEMMA CallStepKeeps ==
  ASSUME TypeOK, BreakerNotTripped, NEW c \in Caller, CallStep(c)
  PROVE  /\ AITypeOK' /\ BreakerNotTripped'
         /\ call[c].at # "idle" /\ call'[c].at # "idle"
         /\ \A d \in Caller \ {c} : call'[d] = call[d]
<1> DEFINE k == call[c]
<1>0. k \in Calls /\ breaker \in Breaker /\ onPath \in BOOLEAN
      /\ call \in [Caller -> Calls] /\ ClosedBelowThreshold(breaker)
      /\ provider \in {"up", "trouble"}
  BY DEF TypeOK, AITypeOK, BreakerNotTripped
<1>1. /\ CheckTransition(breaker) \in Breaker
      /\ ClosedBelowThreshold(CheckTransition(breaker))
      /\ RecordSuccess(breaker) \in Breaker
      /\ ClosedBelowThreshold(RecordSuccess(breaker))
      /\ RecordFailure(breaker) \in Breaker
      /\ ClosedBelowThreshold(RecordFailure(breaker))
  BY <1>0, BreakerFunctions
<1>2. /\ NextMethod(k) \in Calls /\ NextMethod(k).at # "idle"
      /\ NextModel(k) \in Calls /\ NextModel(k).at # "idle"
  BY <1>0, RunGoesOn
<1>3. CASE EnterCall(c)
  <2> DEFINE next == IF breaker'.state = "OPEN" THEN NextMethod(k)
                     ELSE [k EXCEPT !.at = "post", !.attempt = 1]
  <2>1. breaker' \in Breaker /\ ClosedBelowThreshold(breaker')
    BY <1>0, <1>1, <1>3 DEF EnterCall
  <2>2. call' = [call EXCEPT ![c] = next] /\ k.at = "enter"
        /\ UNCHANGED <<onPath, provider>>
    BY <1>3 DEF EnterCall
  <2>0. 1 \in 1 .. MaxAttempts
    BY CallsAssumption DEF CallsAssumption
  <2>3. /\ [k EXCEPT !.at = "post", !.attempt = 1] \in Calls
        /\ [k EXCEPT !.at = "post", !.attempt = 1].at = "post"
    BY <1>0, <2>0, PostedCall
  <2>4. next \in Calls /\ next.at # "idle"
    BY <1>2, <2>3
  <2> QED
    BY <1>0, <2>1, <2>2, <2>4 DEF AITypeOK, BreakerNotTripped
<1>4. CASE Request(c)
  <2>1. PICK r \in Answers :
          /\ k.at = "post"
          /\ breaker' = CASE onPath /\ r \in {"good", "bad"} -> RecordSuccess(breaker)
                          [] onPath /\ r = "error"          -> RecordFailure(breaker)
                          [] OTHER                          -> breaker
          /\ call' = [call EXCEPT ![c] = AfterAnswer(k, r)]
          /\ UNCHANGED <<onPath, provider>>
    BY <1>4 DEF Request
  <2>2. breaker' \in Breaker /\ ClosedBelowThreshold(breaker')
    BY <1>0, <1>1, <2>1
  <2>3. AfterAnswer(k, r) \in Calls /\ AfterAnswer(k, r).at # "idle"
    BY <1>0, <1>2 DEF AfterAnswer, Repair, Calls
  <2> QED
    BY <1>0, <2>1, <2>2, <2>3 DEF AITypeOK, BreakerNotTripped
<1>5. CASE Retry(c)
  <2> DEFINE next == IF k.attempt < MaxAttempts
                     THEN [k EXCEPT !.at = "post", !.attempt = @ + 1]
                     ELSE NextMethod(k)
  <2>1. call' = [call EXCEPT ![c] = next] /\ k.at = "pause"
        /\ UNCHANGED <<breaker, onPath, provider>>
    BY <1>5 DEF Retry
  <2>2. k.attempt < MaxAttempts => k.attempt + 1 \in 1 .. MaxAttempts
    BY <1>0, CallsAssumption DEF Calls, CallsAssumption
  <2>3. k.attempt < MaxAttempts =>
          /\ [k EXCEPT !.at = "post", !.attempt = @ + 1] \in Calls
          /\ [k EXCEPT !.at = "post", !.attempt = @ + 1].at = "post"
    BY <1>0, <2>2, PostedCall
  <2>4. next \in Calls /\ next.at # "idle"
    BY <1>2, <2>3
  <2> QED
    BY <1>0, <2>1, <2>4 DEF AITypeOK, BreakerNotTripped
<1> QED
  BY <1>3, <1>4, <1>5 DEF CallStep

-----------------------------------------------------------------------------
SInv ==
  /\ SchedulerTypeOK /\ Timed /\ QueueOnce /\ WorkIsAwaited /\ StoppedIsQuiet
  /\ RestartKeepsSchedule

AInv == AITypeOK /\ BreakerNotTripped

LEMMA InitRInv == Init => RInv
<1> SUFFICES ASSUME Init PROVE RInv
  OBVIOUS
<1>1. SchedulerTypeOK /\ Timed
  BY SchedulerAssumption
  DEF Init, SchedulerInit, SchedulerTypeOK, Timed, SchedulerAssumption
<1>2. AITypeOK
  BY ThresholdsAssumption, CallsAssumption
  DEF Init, AIInit, AITypeOK, NewBreaker, Breaker, Idle, Calls,
      ThresholdsAssumption, CallsAssumption
<1>3. Queued = {} /\ busy = {}
  BY DEF Init, SchedulerInit, Queued
<1>4. QueueOnce /\ WorkIsAwaited /\ StoppedIsQuiet /\ RestartKeepsSchedule
  BY <1>3 DEF Init, SchedulerInit, QueueOnce, WorkIsAwaited, StoppedIsQuiet,
              RestartKeepsSchedule
<1>5. RunHasItsThread
  BY RuntimeAssumption
  DEF Init, SchedulerInit, AIInit, Idle, RunHasItsThread, RuntimeAssumption
<1>6. BreakerNotTripped
  BY ThresholdsAssumption
  DEF Init, AIInit, NewBreaker, BreakerNotTripped, ClosedBelowThreshold, ThresholdsAssumption
<1> QED
  BY <1>1, <1>2, <1>4, <1>5, <1>6 DEF RInv, TypeOK

-----------------------------------------------------------------------------
\* A start sleeps as long as the table says is left, and queues the backfill.
LEMMA StartStep ==
  ASSUME SInv, StartServer
  PROVE  SInv'
<1> USE SchedulerAssumption DEF SchedulerAssumption
<1>1. server = "down" /\ busy = {} /\ busy' = {} /\ queue' = <<Backfill>>
      /\ server' = "up"
  BY DEF SInv, StartServer, MayStart, StoppedIsQuiet
<1>2. \A t \in Task : InitialSleep(t) \in 0 .. Interval[t]
  <2> SUFFICES ASSUME NEW t \in Task PROVE InitialSleep(t) \in 0 .. Interval[t]
    OBVIOUS
  <2>1. age[t] \in 0 .. Interval[t] /\ Interval[t] \in Nat
    BY DEF SInv, SchedulerTypeOK
  <2>2. CASE t \in OnStart
    BY <2>1, <2>2 DEF InitialSleep
  <2>3. CASE t \notin OnStart /\ t \in recorded
    BY <2>1, <2>3 DEF InitialSleep
  <2>4. CASE t \notin OnStart /\ t \notin recorded
    BY <2>1, <2>4 DEF InitialSleep
  <2> QED
    BY <2>2, <2>3, <2>4
<1>3. timer' = [t \in Task |-> InitialSleep(t)] /\ age' = age /\ recorded' = recorded
  BY DEF StartServer
<1>4. SchedulerTypeOK' /\ Timed'
  <2>1. timer' \in [Task -> Nat] /\ \A t \in Task : timer'[t] \in 0 .. Interval[t]
    BY <1>2, <1>3
  <2>2. queue' \in Seq(Job)
    BY <1>1 DEF Job
  <2>3. loop' \in [Task -> {"none", "first", "sleep", "await", "backoff"}]
        /\ attempt' \in [Task -> 0 .. MaxRetries]
    BY DEF StartServer
  <2> QED
    BY <1>1, <1>3, <2>1, <2>2, <2>3 DEF SInv, SchedulerTypeOK, Timed, Job
<1>5. Queued' = {Backfill}
  BY <1>1 DEF Queued
<1>6. QueueOnce' /\ WorkIsAwaited' /\ StoppedIsQuiet'
  BY <1>1, <1>5 DEF QueueOnce, WorkIsAwaited, StoppedIsQuiet
<1>7. RestartKeepsSchedule'
  <2> SUFFICES ASSUME NEW t \in recorded PROVE InitialSleep(t) + age[t] =< Interval[t]
    BY <1>3 DEF RestartKeepsSchedule, SInv, SchedulerTypeOK
  <2>1. t \in Task /\ age[t] \in 0 .. Interval[t] /\ Interval[t] \in Nat
    BY DEF SInv, SchedulerTypeOK
  <2>2. CASE t \in OnStart
    BY <2>1, <2>2 DEF InitialSleep
  <2>3. CASE t \notin OnStart
    BY <2>1, <2>3 DEF InitialSleep
  <2> QED
    BY <2>2, <2>3
<1> QED
  BY <1>4, <1>6, <1>7 DEF SInv

\* A server that stops, ends or crashes has nothing left that waits.
LEMMA EndStep ==
  ASSUME SInv, StopServer \/ Exit \/ Crash
  PROVE  SInv'
<1>1. /\ queue' = <<>> /\ \A t \in Task : loop'[t] = "none"
      /\ loop' \in [Task -> {"none"}]
      /\ timer' \in [Task -> Nat] /\ \A t \in Task : timer'[t] \in 0 .. Interval[t]
      /\ attempt' \in [Task -> 0 .. MaxRetries]
      /\ age' = age /\ recorded' = recorded
      /\ server' \in {"down", "stopping"} /\ busy' \subseteq busy
      /\ server' = "down" => busy' = {}
  <2> USE SchedulerAssumption DEF SchedulerAssumption
  <2>1. CASE StopServer
    BY <2>1 DEF StopServer
  <2>2. CASE Exit
    BY <2>2 DEF Exit, SInv, SchedulerTypeOK, Timed, StoppedIsQuiet
  <2>3. CASE Crash
    BY <2>3 DEF Crash
  <2> QED
    BY <2>1, <2>2, <2>3
<1>2. SchedulerTypeOK' /\ Timed'
  BY <1>1 DEF SInv, SchedulerTypeOK, Timed
<1>3. Queued' = {}
  BY <1>1 DEF Queued
<1>4. QueueOnce' /\ WorkIsAwaited' /\ StoppedIsQuiet'
  BY <1>1, <1>3 DEF QueueOnce, WorkIsAwaited, StoppedIsQuiet
<1>5. RestartKeepsSchedule'
  BY <1>1 DEF RestartKeepsSchedule, SInv, SchedulerTypeOK
<1> QED
  BY <1>2, <1>4, <1>5 DEF SInv

\* The sleep of a task gets shorter as its last run gets older.
LEMMA TickStep ==
  ASSUME SInv, Tick
  PROVE  SInv'
<1>1. /\ UNCHANGED <<server, loop, attempt, recorded, queue, busy>>
      /\ timer' = [t \in Task |-> IF timer[t] > 0 THEN timer[t] - 1 ELSE 0]
      /\ age' = [t \in Task |-> IF t \in recorded /\ age[t] < Interval[t]
                                THEN age[t] + 1 ELSE age[t]]
  BY DEF Tick
<1>2. \A t \in Task :
        /\ Interval[t] \in Nat
        /\ timer[t] \in 0 .. Interval[t] /\ age[t] \in 0 .. Interval[t]
  BY SchedulerAssumption DEF SchedulerAssumption, SInv, SchedulerTypeOK
<1>3. \A t \in Task :
        /\ timer'[t] \in 0 .. Interval[t] /\ age'[t] \in 0 .. Interval[t]
        /\ timer[t] + age[t] =< Interval[t] => timer'[t] + age'[t] =< Interval[t]
  <2> SUFFICES ASSUME NEW t \in Task
               PROVE  /\ timer'[t] \in 0 .. Interval[t] /\ age'[t] \in 0 .. Interval[t]
                      /\ timer[t] + age[t] =< Interval[t]
                           => timer'[t] + age'[t] =< Interval[t]
    OBVIOUS
  <2>1. timer'[t] = (IF timer[t] > 0 THEN timer[t] - 1 ELSE 0)
        /\ age'[t] = (IF t \in recorded /\ age[t] < Interval[t] THEN age[t] + 1 ELSE age[t])
    BY <1>1
  <2> QED
    BY <1>2, <2>1
<1>4. timer' \in [Task -> Nat] /\ age' \in [Task -> Nat]
  BY <1>1, <1>2
<1>5. SchedulerTypeOK' /\ Timed'
  BY <1>1, <1>3, <1>4 DEF SInv, SchedulerTypeOK, Timed
<1>6. QueueOnce' /\ WorkIsAwaited' /\ StoppedIsQuiet'
  BY <1>1 DEF SInv, QueueOnce, WorkIsAwaited, StoppedIsQuiet, Queued
<1>7. RestartKeepsSchedule'
  BY <1>1, <1>3 DEF SInv, SchedulerTypeOK, RestartKeepsSchedule
<1> QED
  BY <1>5, <1>6, <1>7 DEF SInv

\* A loop that does not wait for its job has none in the pool.
LEMMA LaunchStep ==
  ASSUME SInv, NEW t \in Task, Launch(t)
  PROVE  SInv'
<1>1. /\ loop' = [loop EXCEPT ![t] = "await"]
      /\ queue' = IF t \in PoolTask THEN Append(queue, t) ELSE queue
      /\ UNCHANGED <<server, timer, attempt, age, recorded, busy>>
      /\ loop[t] # "none" /\ loop[t] # "await"
  BY DEF Launch
<1>2. server = "up"
  BY <1>1 DEF SInv, StoppedIsQuiet
<1>3. t \in PoolTask => t \notin Queued /\ t \notin busy
  BY <1>1, <1>2 DEF SInv, WorkIsAwaited
<1>4. queue \in Seq(Job) /\ loop \in [Task -> {"none", "first", "sleep", "await", "backoff"}]
  BY DEF SInv, SchedulerTypeOK
<1>5. SchedulerTypeOK' /\ Timed'
  BY <1>1, <1>4 DEF SInv, SchedulerTypeOK, Timed, Job
<1>6. \A i, k \in 1 .. Len(queue) : queue[i] = queue[k] => i = k
  BY DEF SInv, QueueOnce
<1>7. CASE t \in PoolTask
  <2>1. /\ Len(queue') = Len(queue) + 1 /\ queue'[Len(queue) + 1] = t
        /\ \A i \in 1 .. Len(queue) : queue'[i] = queue[i]
        /\ Len(queue) \in Nat
    BY <1>1, <1>4, <1>7
  <2>2. Queued' = Queued \union {t}
    BY <2>1 DEF Queued
  <2>3. \A i \in 1 .. Len(queue) : queue[i] # t
    BY <1>3, <1>7 DEF Queued
  <2>4. QueueOnce'
    <3>1. \A i, k \in 1 .. Len(queue) + 1 : queue'[i] = queue'[k] => i = k
      BY <1>6, <2>1, <2>3
    <3> QED
      BY <1>1, <1>3, <1>7, <2>1, <2>2, <3>1 DEF QueueOnce, SInv
  <2>5. WorkIsAwaited' /\ StoppedIsQuiet'
    BY <1>1, <1>2, <1>4, <2>2 DEF SInv, WorkIsAwaited, StoppedIsQuiet
  <2> QED
    BY <2>4, <2>5, <1>1, <1>4, <1>5 DEF SInv, RestartKeepsSchedule, SchedulerTypeOK
<1>8. CASE t \notin PoolTask
  <2>1. QueueOnce' /\ WorkIsAwaited' /\ StoppedIsQuiet'
    BY <1>1, <1>2, <1>4, <1>8 DEF SInv, QueueOnce, WorkIsAwaited, StoppedIsQuiet, Queued
  <2> QED
    BY <2>1, <1>1, <1>4, <1>5 DEF SInv, RestartKeepsSchedule, SchedulerTypeOK
<1> QED
  BY <1>7, <1>8

\* A job leaves the queue for a thread.
LEMMA TakeStep ==
  ASSUME SInv, TakeJob
  PROVE  SInv' /\ Head(queue) \in Job /\ busy' = busy \union {Head(queue)}
         /\ Head(queue) \notin busy
<1>1. /\ queue # <<>> /\ queue' = Tail(queue) /\ busy' = busy \union {Head(queue)}
      /\ UNCHANGED <<server, loop, timer, attempt, age, recorded>>
      /\ queue \in Seq(Job)
  BY DEF TakeJob, SInv, SchedulerTypeOK
<1>2. /\ Len(queue) \in Nat \ {0} /\ Head(queue) = queue[1] /\ queue' \in Seq(Job)
      /\ Len(queue') = Len(queue) - 1
      /\ \A i \in 1 .. Len(queue) - 1 : queue'[i] = queue[i + 1]
      /\ Head(queue) \in Job
  BY <1>1
<1>3. \A i, k \in 1 .. Len(queue) : queue[i] = queue[k] => i = k
  BY DEF SInv, QueueOnce
<1>4. Queued' \subseteq Queued /\ Head(queue) \notin Queued' /\ Head(queue) \in Queued
  <2>1. \A i \in 1 .. Len(queue) - 1 : i + 1 \in 1 .. Len(queue) /\ i + 1 # 1
    BY <1>2
  <2> QED
    BY <1>2, <1>3, <2>1 DEF Queued
<1>5. SchedulerTypeOK' /\ Timed'
  BY <1>1, <1>2 DEF SInv, SchedulerTypeOK, Timed
<1>6. QueueOnce'
  <2>1. \A i, k \in 1 .. Len(queue') : queue'[i] = queue'[k] => i = k
    BY <1>2, <1>3
  <2> QED
    BY <1>1, <1>4, <2>1 DEF QueueOnce, SInv
<1>7. WorkIsAwaited'
  BY <1>1, <1>4 DEF SInv, WorkIsAwaited
<1>8. StoppedIsQuiet'
  BY <1>1 DEF SInv, StoppedIsQuiet
<1>9. RestartKeepsSchedule'
  BY <1>1 DEF SInv, RestartKeepsSchedule
<1> QED
  BY <1>1, <1>2, <1>4, <1>5, <1>6, <1>7, <1>8, <1>9 DEF SInv, QueueOnce

\* What a loop does when its task is over changes that loop only.
LEMMA ReturnedKeeps ==
  ASSUME SInv, NEW t \in Task, NEW ok \in BOOLEAN, NEW written \in BOOLEAN,
         Returned(t, ok, written)
  PROVE  /\ loop' \in [Task -> {"none", "first", "sleep", "await", "backoff"}]
         /\ attempt' \in [Task -> 0 .. MaxRetries]
         /\ timer' \in [Task -> Nat] /\ age' \in [Task -> Nat]
         /\ \A u \in Task : timer'[u] \in 0 .. Interval[u] /\ age'[u] \in 0 .. Interval[u]
         /\ recorded' \subseteq Task /\ recorded \subseteq recorded'
         /\ recorded' \subseteq recorded \union {t}
         /\ loop'[t] \in {"sleep", "backoff"}
         /\ \A u \in Task \ {t} :
              loop'[u] = loop[u] /\ timer'[u] = timer[u] /\ age'[u] = age[u]
<1> USE SchedulerAssumption DEF SchedulerAssumption, SInv, SchedulerTypeOK, Timed
<1>1. CASE ~ok /\ attempt[t] < MaxRetries
  <2>1. attempt' = [attempt EXCEPT ![t] = attempt[t] + 1]
        /\ loop' = [loop EXCEPT ![t] = "backoff"]
        /\ UNCHANGED <<timer, age, recorded>>
    BY <1>1 DEF Returned
  <2>2. attempt[t] + 1 \in 0 .. MaxRetries
    BY <1>1
  <2> QED
    BY <2>1, <2>2
<1>2. CASE ~(~ok /\ attempt[t] < MaxRetries)
  <2>1. Recorded(t, written)
    BY <1>2 DEF Returned
  <2>2. Interval[t] \in Nat
    OBVIOUS
  <2> QED
    BY <2>1, <2>2 DEF Recorded
<1> QED
  BY <1>1, <1>2

\* A task that needs no thread returns.
LEMMA InlineStep ==
  ASSUME SInv, NEW t \in Task, ReturnInline(t)
  PROVE  SInv'
<1>1. PICK ok \in BOOLEAN, written \in BOOLEAN : Returned(t, ok, written)
  BY DEF ReturnInline
<1>2. /\ t \notin PoolTask /\ loop[t] = "await" /\ UNCHANGED <<server, queue, busy>>
  BY DEF ReturnInline
<1>3. server = "up"
  BY <1>2 DEF SInv, StoppedIsQuiet
<1>4. SchedulerTypeOK' /\ Timed'
  BY <1>1, <1>2, ReturnedKeeps DEF SInv, SchedulerTypeOK, Timed
<1>5. QueueOnce' /\ StoppedIsQuiet'
  BY <1>2, <1>3 DEF SInv, QueueOnce, Queued, StoppedIsQuiet
<1>6. WorkIsAwaited'
  <2>1. \A u \in Task \ {t} : loop'[u] = loop[u]
    BY <1>1, ReturnedKeeps
  <2>2. \A u \in PoolTask : loop'[u] = loop[u]
    BY <1>2, <2>1, SchedulerAssumption DEF SchedulerAssumption
  <2> QED
    BY <1>2, <2>2 DEF SInv, WorkIsAwaited, Queued
<1>7. RestartKeepsSchedule'
  BY <1>1, ReturnedKeeps DEF SInv, RestartKeepsSchedule, SchedulerTypeOK
<1> QED
  BY <1>4, <1>5, <1>6, <1>7 DEF SInv

\* A thread of the pool ends its job.
LEMMA FinishStep ==
  ASSUME SInv, NEW j \in Job, FinishJob(j)
  PROVE  SInv'
<1>1. j \in busy /\ busy' = busy \ {j} /\ UNCHANGED <<server, queue>>
  BY DEF FinishJob
<1>2. j \notin Queued
  BY <1>1 DEF SInv, QueueOnce
<1>3. QueueOnce'
  BY <1>1 DEF SInv, QueueOnce, Queued
<1>4. CASE j \in Task /\ server = "up"
  <2>1. PICK ok \in BOOLEAN, written \in BOOLEAN : Returned(j, ok, written)
    BY <1>4 DEF FinishJob
  <2>2. SchedulerTypeOK' /\ Timed'
    BY <1>1, <1>4, <2>1, ReturnedKeeps DEF SInv, SchedulerTypeOK, Timed
  <2>3. StoppedIsQuiet'
    BY <1>1, <1>4 DEF SInv, StoppedIsQuiet
  <2>4. WorkIsAwaited'
    <3> SUFFICES ASSUME NEW t \in PoolTask, t \in Queued' \/ (t \in busy' /\ server' = "up")
                 PROVE  loop'[t] = "await"
      BY DEF WorkIsAwaited, Queued
    <3>1. t \in Task /\ t # j /\ (t \in Queued \/ (t \in busy /\ server = "up"))
      BY <1>1, <1>2, SchedulerAssumption DEF Queued, SchedulerAssumption
    <3>2. loop[t] = "await"
      BY <3>1 DEF SInv, WorkIsAwaited
    <3> QED
      BY <1>4, <2>1, <3>1, <3>2, ReturnedKeeps
  <2>5. RestartKeepsSchedule'
    BY <1>4, <2>1, ReturnedKeeps DEF SInv, RestartKeepsSchedule, SchedulerTypeOK
  <2> QED
    BY <1>3, <2>2, <2>3, <2>4, <2>5 DEF SInv
<1>5. CASE ~(j \in Task /\ server = "up")
  <2>1. UNCHANGED <<loop, timer, attempt, age, recorded>>
    BY <1>5 DEF FinishJob
  <2>2. SchedulerTypeOK' /\ Timed' /\ StoppedIsQuiet' /\ RestartKeepsSchedule'
    BY <1>1, <2>1 DEF SInv, SchedulerTypeOK, Timed, StoppedIsQuiet, RestartKeepsSchedule
  <2>3. WorkIsAwaited'
    BY <1>1, <2>1 DEF SInv, WorkIsAwaited, Queued
  <2> QED
    BY <1>3, <2>2, <2>3 DEF SInv
<1> QED
  BY <1>4, <1>5

-----------------------------------------------------------------------------
\* A stop of the process, however it comes, ends the runs with its threads.
LEMMA ThreadsEndKeeps ==
  ASSUME RInv, ThreadsEnd, busy' = {}
  PROVE  AInv' /\ RunHasItsThread'
<1>1. call' = [c \in Caller |-> Idle] /\ breaker' = NewBreaker
      /\ UNCHANGED <<onPath, provider>>
  BY DEF ThreadsEnd
<1>2. Idle \in Calls /\ Idle.at = "idle"
  BY CallsAssumption DEF Idle, Calls, CallsAssumption
<1>3. NewBreaker \in Breaker /\ ClosedBelowThreshold(NewBreaker)
  BY ThresholdsAssumption
  DEF NewBreaker, Breaker, ClosedBelowThreshold, ThresholdsAssumption
<1>4. AInv'
  BY <1>1, <1>2, <1>3 DEF RInv, TypeOK, AInv, AITypeOK, BreakerNotTripped
<1>5. RunHasItsThread'
  BY <1>1, <1>2, RuntimeAssumption DEF RunHasItsThread, RuntimeAssumption
<1> QED
  BY <1>4, <1>5

\* A run that begins or ends is that of its caller only.
LEMMA RunStep ==
  ASSUME RInv, NEW c \in Caller, BeginRun(c) \/ EndRun(c)
  PROVE  /\ AInv' /\ (call'[c].at # "idle" <=> BeginRun(c))
         /\ \A d \in Caller \ {c} : call'[d] = call[d]
<1>1. call \in [Caller -> Calls]
  BY DEF RInv, TypeOK, AITypeOK
<1>2. Idle \in Calls /\ Unit(1, 1) \in Calls /\ Idle.at = "idle" /\ Unit(1, 1).at = "enter"
  BY CallsAssumption DEF Idle, Unit, Calls, CallsAssumption
<1>3. CASE BeginRun(c)
  BY <1>1, <1>2, <1>3 DEF BeginRun, RInv, TypeOK, AInv, AITypeOK, BreakerNotTripped
<1>4. CASE EndRun(c)
  <2>1. call' = [call EXCEPT ![c] = Idle] /\ UNCHANGED <<breaker, onPath, provider>>
        /\ call[c].at = "done"
    BY <1>4 DEF EndRun
  <2>2. ~BeginRun(c)
    BY <2>1 DEF BeginRun
  <2> QED
    BY <1>1, <1>2, <2>1, <2>2 DEF RInv, TypeOK, AInv, AITypeOK, BreakerNotTripped
<1> QED
  BY <1>3, <1>4

LEMMA RInvStep == RInv /\ [Next]_vars => RInv'
<1> SUFFICES ASSUME RInv, [Next]_vars PROVE RInv'
  OBVIOUS
<1> USE DEF RunHasItsThread
<1>0. SInv /\ AInv /\ Forecast \in Caller /\ Robot \in Caller /\ Robot # Forecast
      /\ Forecast \in PoolTask /\ Forecast \in Job
  BY RuntimeAssumption DEF RInv, TypeOK, SInv, AInv, RuntimeAssumption, Job
<1>1. SUFFICES SInv' /\ AInv' /\ RunHasItsThread'
  BY DEF RInv, TypeOK, SInv, AInv
<1>2. UNCHANGED aiVars => AInv'
  BY <1>0 DEF aiVars, AInv, AITypeOK, BreakerNotTripped
<1>3. UNCHANGED schedulerVars => SInv'
  BY <1>0 DEF schedulerVars, SInv, SchedulerTypeOK, Timed, QueueOnce, WorkIsAwaited,
              StoppedIsQuiet, RestartKeepsSchedule, Queued
<1>4. UNCHANGED aiVars /\ busy' = busy => RunHasItsThread'
  BY DEF RInv, aiVars
<1>5. CASE Start
  BY <1>0, <1>2, <1>4, <1>5, StartStep DEF Start, StartServer
<1>6. CASE Stop
  BY <1>0, <1>2, <1>4, <1>6, EndStep DEF Stop, StopServer
<1>7. CASE ProcessExits
  BY <1>0, <1>7, EndStep, ThreadsEndKeeps DEF ProcessExits, Exit
<1>8. CASE ServerCrashes
  BY <1>0, <1>8, EndStep, ThreadsEndKeeps DEF ServerCrashes, Crash
<1>9. CASE ClockTicks
  BY <1>0, <1>2, <1>4, <1>9, TickStep DEF ClockTicks, Tick
<1>10. ASSUME NEW t \in Task, LaunchTask(t) PROVE SInv' /\ AInv' /\ RunHasItsThread'
  BY <1>0, <1>2, <1>4, <1>10, LaunchStep DEF LaunchTask, Launch
<1>11. ASSUME NEW t \in Task, TaskReturns(t) PROVE SInv' /\ AInv' /\ RunHasItsThread'
  BY <1>0, <1>2, <1>4, <1>11, InlineStep DEF TaskReturns, ReturnInline
<1>12. CASE WorkerTakesJob
  <2>1. SInv' /\ Head(queue) \notin busy /\ busy' = busy \union {Head(queue)}
    BY <1>0, <1>12, TakeStep DEF WorkerTakesJob
  <2>2. CASE Head(queue) = Forecast
    BY <1>0, <1>12, <2>1, <2>2, RunStep DEF WorkerTakesJob
  <2>3. CASE Head(queue) # Forecast
    BY <1>0, <1>2, <1>12, <2>1, <2>3 DEF WorkerTakesJob, RInv, aiVars
  <2> QED
    BY <2>2, <2>3
<1>13. ASSUME NEW j \in Job, WorkerFinishes(j) PROVE SInv' /\ AInv' /\ RunHasItsThread'
  <2>1. SInv' /\ busy' = busy \ {j}
    BY <1>0, <1>13, FinishStep DEF WorkerFinishes, FinishJob
  <2>2. CASE j = Forecast
    <3>1. EndRun(Forecast) /\ ~BeginRun(Forecast)
      BY <1>13, <2>2 DEF WorkerFinishes, EndRun, BeginRun
    <3> QED
      BY <1>0, <2>1, <2>2, <3>1, RunStep
  <2>3. CASE j # Forecast
    BY <1>0, <1>2, <1>13, <2>1, <2>3 DEF WorkerFinishes, RInv, aiVars
  <2> QED
    BY <2>2, <2>3
<1>14. CASE RobotStarts
  BY <1>0, <1>3, <1>14, RunStep DEF RobotStarts, schedulerVars, RInv
<1>15. CASE RobotFinishes
  BY <1>0, <1>3, <1>15, RunStep DEF RobotFinishes, schedulerVars, RInv
<1>16. ASSUME NEW c \in Caller, Calling(c) PROVE SInv' /\ AInv' /\ RunHasItsThread'
  <2>1. CallStep(c) /\ UNCHANGED schedulerVars /\ TypeOK /\ BreakerNotTripped
    BY <1>16 DEF Calling, RInv
  <2>2. /\ AITypeOK' /\ BreakerNotTripped'
        /\ call[c].at # "idle" /\ call'[c].at # "idle"
        /\ \A d \in Caller \ {c} : call'[d] = call[d]
    BY <2>1, CallStepKeeps
  <2> QED
    BY <1>0, <1>3, <2>1, <2>2 DEF RInv, AInv, schedulerVars
<1>17. CASE GraceEnds
  <2>1. breaker' \in Breaker /\ ClosedBelowThreshold(breaker')
    BY <1>0, <1>17
    DEF GraceEnds, GraceElapses, AInv, AITypeOK, BreakerNotTripped, Breaker,
        ClosedBelowThreshold
  <2> QED
    BY <1>0, <1>3, <1>17, <2>1
    DEF GraceEnds, GraceElapses, schedulerVars, AInv, AITypeOK, BreakerNotTripped, RInv
<1>18. CASE ProviderTurns
  BY <1>0, <1>3, <1>18
  DEF ProviderTurns, ProviderChanges, schedulerVars, AInv, AITypeOK, BreakerNotTripped, RInv
<1>19. CASE UNCHANGED vars
  BY <1>2, <1>3, <1>4, <1>19 DEF vars, schedulerVars
<1> QED
  BY <1>5, <1>6, <1>7, <1>8, <1>9, <1>10, <1>11, <1>12, <1>13, <1>14, <1>15, <1>16,
     <1>17, <1>18, <1>19 DEF Next

LEMMA RInvHolds == Spec => []RInv
BY InitRInv, RInvStep, PTL DEF Spec

-----------------------------------------------------------------------------
\* What the invariant says of the queue is one run of a task at a time.
LEMMA OneRun == RInv => OneRunAtATime
<1> SUFFICES ASSUME RInv, NEW t \in PoolTask
             PROVE  Cardinality({i \in 1 .. Len(queue) : queue[i] = t})
                      =< (IF t \in busy THEN 0 ELSE 1)
  BY DEF OneRunAtATime
<1> DEFINE waiting == {i \in 1 .. Len(queue) : queue[i] = t}
<1>1. CASE waiting = {}
  <2>1. Cardinality(waiting) = 0
    BY <1>1, FS_EmptySet
  <2> QED
    BY <2>1
<1>2. CASE waiting # {}
  <2>1. PICK i \in waiting : TRUE
    BY <1>2
  <2>2. t \notin busy
    BY <2>1 DEF RInv, QueueOnce, Queued
  <2>3. waiting = {i}
    BY <2>1 DEF RInv, QueueOnce
  <2>4. Cardinality(waiting) = 1
    BY <2>3, FS_Singleton
  <2> QED
    BY <2>2, <2>4
<1> QED
  BY <1>1, <1>2

\* The threads of the pool, the forecast runs in them and the circuit breaker
\* they share agree in every reachable state: a task never has two runs, a
\* forecast run never outlives its thread or shares it, and no order of the
\* answers of several threads leaves the circuit closed over the failures that
\* open it.
THEOREM ThreadsAlwaysAgree == Spec => []ThreadsAgree
<1>1. RInv => ThreadsAgree
  BY OneRun DEF RInv, ThreadsAgree
<1> QED
  BY <1>1, RInvHolds, PTL

\* However often the server stops, crashes and starts again, no start puts off a
\* task that scheduled_tasks remembers.
THEOREM RestartsKeepSchedule == Spec => []RestartKeepsSchedule
BY RInvHolds, PTL DEF RInv

\* A server that is gone has left no thread of its pool behind, and one that is
\* stopping starts nothing: the loops of two server processes never overlap.
THEOREM StoppedServerIsQuiet == Spec => []StoppedIsQuiet
BY RInvHolds, PTL DEF RInv
=============================================================================
