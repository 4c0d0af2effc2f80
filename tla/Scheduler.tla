----------------------------- MODULE Scheduler -----------------------------
(***************************************************************************)
(* The task loops of scheduler.py, the thread pool their blocking work     *)
(* runs in, and the server process around them: lifespan's start and stop, *)
(* the crash, and what the table scheduled_tasks remembers over a restart. *)
(*                                                                         *)
(* A loop is one coroutine per task that sleeps, awaits the task, retries  *)
(* it up to MaxRetries times with a back-off, writes the counters and      *)
(* sleeps again; awaiting is what keeps two runs of a task apart, so the   *)
(* flag task_running is TRUE exactly in "await" and "backoff" and its test *)
(* at the head of the loop never skips.  A pool task's work waits in the   *)
(* queue of the pool for one of Workers threads; the startup backfill of   *)
(* the prices goes through the same queue.                                 *)
(***************************************************************************)
EXTENDS Naturals, Sequences, FiniteSets

CONSTANTS Task,        \* the scheduled tasks
          PoolTask,    \* those whose work runs in the scheduler's pool
          OnStart,     \* those run as soon as the scheduler starts
          Interval,    \* Interval[t]: ticks between two runs of t
          MaxRetries,  \* SCHEDULER_MAX_RETRIES
          Workers,     \* SCHEDULER_MAX_WORKERS
          Backfill     \* the startup price backfill, a job of the pool

ASSUME SchedulerAssumption ==
  /\ PoolTask \subseteq Task /\ OnStart \subseteq Task
  /\ Backfill \notin Task
  /\ \A t \in Task : Interval[t] \in Nat \ {0}
  /\ MaxRetries \in Nat
  /\ Workers \in Nat \ {0}

VARIABLES server,   \* "down", "up", or "stopping": its pool threads finish
          loop,     \* per task: where its coroutine is
          timer,    \* per task: what is left of the sleep
          attempt,  \* per task: failed attempts of this run
          age,      \* per task: ticks since last_run_at, counted to Interval
          recorded, \* the tasks with a last_run_at that a start would read
          queue,    \* jobs waiting for a thread of the pool
          busy      \* jobs a thread of the pool is doing

schedulerVars == <<server, loop, timer, attempt, age, recorded, queue, busy>>

Job == PoolTask \union {Backfill}

SchedulerTypeOK ==
  /\ server \in {"down", "up", "stopping"}
  /\ loop \in [Task -> {"none", "first", "sleep", "await", "backoff"}]
  /\ \A t \in Task : timer[t] \in 0 .. Interval[t] /\ age[t] \in 0 .. Interval[t]
  /\ attempt \in [Task -> 0 .. MaxRetries]
  /\ recorded \subseteq Task
  /\ queue \in Seq(Job)
  /\ busy \subseteq Job

SchedulerInit ==
  /\ server = "down"
  /\ loop = [t \in Task |-> "none"]
  /\ timer = [t \in Task |-> 0]
  /\ attempt = [t \in Task |-> 0]
  /\ age = [t \in Task |-> 0]
  /\ recorded = {}
  /\ queue = <<>>
  /\ busy = {}

-----------------------------------------------------------------------------
\* Mutant: after a restart every task waits a full interval again.
InitialSleepFull(t) == IF t \in OnStart THEN 0 ELSE Interval[t]

\* The first sleep: a task that ran before is due an interval after that run.
InitialSleep(t) ==
  CASE t \in OnStart            -> 0
    [] t \in recorded \ OnStart -> Interval[t] - age[t]
    [] OTHER                    -> Interval[t]

\* The pid file: a process that finds another one alive in it gives up.
MayStart == server = "down"

\* Mutant: a new process starts while the threads of the old one finish.
StartServerEarly ==
  /\ server # "up"
  /\ server' = "up"
  /\ loop' = [t \in Task |-> "first"]
  /\ timer' = [t \in Task |-> InitialSleep(t)]
  /\ attempt' = [t \in Task |-> 0]
  /\ queue' = <<Backfill>>
  /\ UNCHANGED <<age, recorded, busy>>

\* lifespan: start_scheduler creates every loop without awaiting anything,
\* then the backfill is handed to the pool.
StartServer ==
  /\ MayStart
  /\ server' = "up"
  /\ loop' = [t \in Task |-> "first"]
  /\ timer' = [t \in Task |-> InitialSleep(t)]
  /\ attempt' = [t \in Task |-> 0]
  /\ queue' = <<Backfill>>
  /\ UNCHANGED <<age, recorded, busy>>

\* Mutant: stopping takes the running jobs for ended.
StopServerForgetful ==
  /\ server = "up"
  /\ server' = "stopping"
  /\ loop' = [t \in Task |-> "none"]
  /\ timer' = [t \in Task |-> 0]
  /\ attempt' = [t \in Task |-> 0]
  /\ queue' = <<>>
  /\ busy' = {}
  /\ UNCHANGED <<age, recorded>>

\* stop_scheduler cancels the loops and the jobs that wait; the threads of the
\* pool go on, and the interpreter waits for them.
StopServer ==
  /\ server = "up"
  /\ server' = "stopping"
  /\ loop' = [t \in Task |-> "none"]
  /\ timer' = [t \in Task |-> 0]
  /\ attempt' = [t \in Task |-> 0]
  /\ queue' = <<>>
  /\ UNCHANGED <<age, recorded, busy>>

Exit ==
  /\ server = "stopping"
  /\ busy = {}
  /\ server' = "down"
  /\ UNCHANGED <<loop, timer, attempt, age, recorded, queue, busy>>

Crash ==
  /\ server # "down"
  /\ server' = "down"
  /\ loop' = [t \in Task |-> "none"]
  /\ timer' = [t \in Task |-> 0]
  /\ attempt' = [t \in Task |-> 0]
  /\ queue' = <<>>
  /\ busy' = {}
  /\ UNCHANGED <<age, recorded>>

\* A tick of the clock.
Tick ==
  /\ timer' = [t \in Task |-> IF timer[t] > 0 THEN timer[t] - 1 ELSE 0]
  /\ age' = [t \in Task |-> IF t \in recorded /\ age[t] < Interval[t] THEN age[t] + 1 ELSE age[t]]
  /\ <<timer', age'>> # <<timer, age>>
  /\ UNCHANGED <<server, loop, attempt, recorded, queue, busy>>

-----------------------------------------------------------------------------
\* The loop calls the task's coroutine, at the end of its sleep or of a back-off.
Launch(t) ==
  /\ \/ loop[t] \in {"first", "sleep"} /\ timer[t] = 0
     \/ loop[t] = "backoff"
  /\ loop' = [loop EXCEPT ![t] = "await"]
  /\ queue' = IF t \in PoolTask THEN Append(queue, t) ELSE queue
  /\ UNCHANGED <<server, timer, attempt, age, recorded, busy>>

\* A free thread of the pool takes the oldest job.
TakeJob ==
  /\ Cardinality(busy) < Workers
  /\ queue # <<>>
  /\ busy' = busy \union {Head(queue)}
  /\ queue' = Tail(queue)
  /\ UNCHANGED <<server, loop, timer, attempt, age, recorded>>

\* A run is over: the counters, which a failed write leaves alone, and the
\* sleep.  Only the tasks not run on start have their last_run_at read again.
Recorded(t, written) ==
  /\ loop' = [loop EXCEPT ![t] = "sleep"]
  /\ timer' = [timer EXCEPT ![t] = Interval[t]]
  /\ attempt' = [attempt EXCEPT ![t] = 0]
  /\ age' = [age EXCEPT ![t] = IF written THEN 0 ELSE @]
  /\ recorded' = IF written THEN recorded \union ({t} \ OnStart) ELSE recorded

\* Mutant: a task is retried until it succeeds.
ReturnedRetrying(t, ok, written) ==
  IF ~ok
  THEN /\ attempt' = [attempt EXCEPT ![t] = @ + 1]
       /\ loop' = [loop EXCEPT ![t] = "backoff"]
       /\ UNCHANGED <<timer, age, recorded>>
  ELSE Recorded(t, written)

\* What the loop does when its task returns or raises.
Returned(t, ok, written) ==
  IF ~ok /\ attempt[t] < MaxRetries
  THEN /\ attempt' = [attempt EXCEPT ![t] = @ + 1]
       /\ loop' = [loop EXCEPT ![t] = "backoff"]
       /\ UNCHANGED <<timer, age, recorded>>
  ELSE Recorded(t, written)

\* A task that runs on the event loop or in a thread of its own.
ReturnInline(t) ==
  /\ t \notin PoolTask
  /\ loop[t] = "await"
  /\ \E ok, written \in BOOLEAN : Returned(t, ok, written)
  /\ UNCHANGED <<server, queue, busy>>

\* A thread of the pool ends its job; nobody awaits it once the loops are gone.
FinishJob(j) ==
  /\ j \in busy
  /\ busy' = busy \ {j}
  /\ IF j \in Task /\ server = "up"
     THEN \E ok, written \in BOOLEAN : Returned(j, ok, written)
     ELSE UNCHANGED <<loop, timer, attempt, age, recorded>>
  /\ UNCHANGED <<server, queue>>

-----------------------------------------------------------------------------
\* A task has one run at a time, however the server was stopped and started.
OneRunAtATime ==
  \A t \in PoolTask :
    LET waiting == {i \in 1 .. Len(queue) : queue[i] = t}
    IN Cardinality(waiting) <= IF t \in busy THEN 0 ELSE 1

\* A restart never puts a task off: between two runs lies at most the interval
\* counted from the run scheduled_tasks remembers.
RestartKeepsSchedule ==
  \A t \in recorded : loop[t] = "first" => timer[t] + age[t] <= Interval[t]
=============================================================================
