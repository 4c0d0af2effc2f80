----------------------------- MODULE BybitWorker -----------------------------
(***************************************************************************)
(* The worker every Bybit operation of the server goes through.            *)
(*                                                                         *)
(* One event loop runs the worker's loop, the coroutines of bybit_request, *)
(* the periodic account synchronisation and the shutdown; one executor     *)
(* thread runs the operations; other threads call bybit_request_sync.      *)
(* Three timeouts are nested: the worker stops waiting for the executor    *)
(* after OpTimeout, bybit_request stops waiting for its future, and        *)
(* bybit_request_sync stops waiting for bybit_request.  None of them stops *)
(* an operation that has begun.                                            *)
(*                                                                         *)
(* Time is counted in ticks.  The loop is prompt: time does not pass while *)
(* it has something to do, except while a coroutine occupies it with       *)
(* synchronous work.  Operations and calls take or come at any time.       *)
(***************************************************************************)
EXTENDS Integers, Sequences

CONSTANTS
  Request,       \* requests; an identity is used again, a tick later, when
                 \* nothing is left of its last use
  ThreadRequest, \* those that come through bybit_request_sync
  NoRequest,
  OpTimeout,     \* _DEFAULT_TIMEOUT, how long the worker waits for the executor
  CallTimeout,   \* the timeout argument of bybit_request
  InnerExtra,    \* what bybit_request adds to it and to the slack
  OuterExtra,    \* what bybit_request_sync adds instead
  PollTimeout,   \* how long the worker's loop waits for a request
  StopTimeout,   \* how long stop_bybit_worker waits for the loop
  SyncInterval,  \* _ACCOUNT_SYNC_INTERVAL
  MaxWork,       \* bound on the time synchronous work occupies the loop
  Work,          \* stands for that work
  LoopBlockers   \* which coroutines of the scheduler block the loop's own thread

ASSUME ConstantsAssumption ==
  /\ NoRequest \notin Request /\ Work \notin Request \cup {NoRequest}
  /\ ThreadRequest \subseteq Request
  /\ {OpTimeout, CallTimeout, PollTimeout, StopTimeout, SyncInterval} \subseteq Nat \ {0}
  /\ {InnerExtra, OuterExtra, MaxWork} \subseteq Nat
  /\ OpTimeout =< CallTimeout
  /\ LoopBlockers \subseteq {"heartbeat", "snapshot"}

VARIABLES
  phase,      \* of the server's lifespan
  running,    \* _state.running
  queue,      \* _state.queue
  call,       \* what each caller knows
  future,     \* the coroutine of bybit_request and the future it waits for
  op,         \* the operation of a request in the executor
  wpc, cur,   \* the worker's loop and the request it has in hand
  syncPc, syncReq,    \* _state._account_sync_task and the request it awaits
  occupied,   \* why the loop runs no handler: synchronous Work of a coroutine,
              \* or the request its own thread waits for
  innerTimer, outerTimer, workerTimer, syncTimer, stopTimer, workTimer,
  short,      \* requests that were queued behind at most one other
  stalled     \* how long the loop was occupied while a request waited

loopVars == <<queue, future, wpc, cur>>
syncVars == <<syncPc, syncReq, occupied>>
timers == <<innerTimer, outerTimer, workerTimer, syncTimer, stopTimer, workTimer>>
history == <<short, stalled>>
vars == <<phase, running, call, loopVars, op, syncVars, timers, history>>

-----------------------------------------------------------------------------
Phase == {"new", "up", "stopping", "stopped", "closed"}

Call == {"idle", "waiting", "result", "error", "timeout", "gaveup", "cancelled", "refused"}

Future == {"none", "scheduled", "pending", "result", "error", "timeout", "cancelled", "refused"}

Op == {"none", "pending", "running", "result", "error", "cancelled"}

\* Mutant: no extra wait.
NoSlack == 0

\* Extra wait for callers blocked on the single-worker queue (_QUEUE_WAIT_SLACK).
Slack == OpTimeout

InnerLimit == CallTimeout + Slack + InnerExtra
OuterLimit == CallTimeout + Slack + OuterExtra

\* What is left of a timer after a tick; 0 is due, or not in use.
Down(t) == IF t > 0 THEN t - 1 ELSE 0

\* The loop runs handlers: it is neither occupied nor closed.
LoopFree == occupied = NoRequest /\ phase # "closed"

\* How many requests are served before one that is queued now.
Ahead == Len(queue) + (IF wpc = "exec" THEN 1 ELSE 0)

Queued(r) == \E i \in 1..Len(queue) : queue[i] = r

SyncAwaits(r) == syncPc \in {"wallet", "positions"} /\ syncReq = r

Idle(r) == call[r] = "idle" /\ future[r] = "none"

\* The caller has its answer and nobody holds the request any more.
Over(r) ==
  /\ call[r] \notin {"idle", "waiting"}
  /\ future[r] \notin {"scheduled", "pending"}
  /\ op[r] \notin {"pending", "running"}
  /\ ~Queued(r) /\ r # cur /\ ~SyncAwaits(r)

\* The history of r still matters.
Watched(r) == call[r] \in {"waiting", "gaveup"} /\ ~Over(r)

\* Mutant: an operation that has not begun counts as done.
AnsweredUnlessRunning == op[cur] # "running"

\* The operation in hand returned, or raised an exception.
Answered == op[cur] \in {"result", "error"}

\* The loop has something to do now.
Ready ==
  \/ \E r \in Request :
       \/ future[r] = "scheduled"
       \/ future[r] = "pending" /\ innerTimer[r] = 0
       \/ SyncAwaits(r) /\ call[r] # "waiting"
  \/ wpc = "top"
  \/ wpc = "get" /\ (queue # <<>> \/ workerTimer = 0)
  \/ wpc = "exec" /\ (Answered \/ workerTimer = 0)
  \/ phase = "stopping" /\ (wpc = "off" \/ stopTimer = 0)

\* The loop sleeps: only then does a coroutine that has slept so far begin,
\* for handlers run first come first served.
LoopIdle == LoopFree /\ ~Ready

\* The future of r is done, unless it was done before; its caller learns it
\* if it is still there.
SetFuture(r, f) ==
  /\ future' = IF future[r] = "pending" THEN [future EXCEPT ![r] = f] ELSE future
  /\ call' = IF future[r] = "pending" /\ call[r] = "waiting"
             THEN [call EXCEPT ![r] = f] ELSE call

-----------------------------------------------------------------------------
Init ==
  /\ phase = "new" /\ running = FALSE
  /\ queue = <<>>
  /\ call = [r \in Request |-> "idle"]
  /\ future = [r \in Request |-> "none"]
  /\ op = [r \in Request |-> "none"]
  /\ wpc = "off" /\ cur = NoRequest
  /\ syncPc = "none" /\ syncReq = NoRequest /\ occupied = NoRequest
  /\ innerTimer = [r \in Request |-> 0]
  /\ outerTimer = [r \in Request |-> 0]
  /\ workerTimer = 0 /\ syncTimer = 0 /\ stopTimer = 0 /\ workTimer = 0
  /\ short = {}
  /\ stalled = [r \in Request |-> 0]

\* start_bybit_worker runs once and does not await: it starts the loop, or
\* gives up for want of valid credentials.
Start ==
  /\ phase = "new"
  /\ phase' = "up"
  /\ \/ /\ running' = TRUE
        /\ wpc' = "top"
        /\ syncTimer' = SyncInterval
     \/ UNCHANGED <<running, wpc, syncTimer>>
  /\ UNCHANGED <<call, queue, future, cur, op, syncVars, innerTimer, outerTimer,
                 workerTimer, stopTimer, workTimer, history>>

-----------------------------------------------------------------------------
(* Callers.                                                                 *)

\* bybit_request past its check: the request is queued and awaited.
Put(r) ==
  /\ queue' = Append(queue, r)
  /\ future' = [future EXCEPT ![r] = "pending"]
  /\ innerTimer' = [innerTimer EXCEPT ![r] = InnerLimit]
  /\ short' = IF Ahead =< 1 THEN short \cup {r} ELSE short \ {r}

\* bybit_request_sync in another thread: a check, then the coroutine is handed
\* to the loop and the thread blocks.
CallFromThread(r) ==
  /\ r \in ThreadRequest
  /\ Idle(r)
  /\ \/ /\ running
        /\ call' = [call EXCEPT ![r] = "waiting"]
        /\ future' = [future EXCEPT ![r] = "scheduled"]
        /\ outerTimer' = [outerTimer EXCEPT ![r] = OuterLimit]
     \/ /\ ~running
        /\ call' = [call EXCEPT ![r] = "refused"]
        /\ UNCHANGED <<future, outerTimer>>
  /\ UNCHANGED <<phase, running, queue, wpc, cur, op, syncVars, innerTimer,
                 workerTimer, syncTimer, stopTimer, workTimer, history>>

\* The same in a coroutine of the loop: the scheduler's portfolio snapshot
\* calls bybit_request_sync, and waits for what only the loop can do.
CallOnTheLoop(r) ==
  /\ "snapshot" \in LoopBlockers
  /\ LoopIdle
  /\ r \in ThreadRequest
  /\ Idle(r)
  /\ running
  /\ call' = [call EXCEPT ![r] = "waiting"]
  /\ future' = [future EXCEPT ![r] = "scheduled"]
  /\ outerTimer' = [outerTimer EXCEPT ![r] = OuterLimit]
  /\ occupied' = r
  /\ UNCHANGED <<phase, running, queue, wpc, cur, op, syncPc, syncReq, innerTimer,
                 workerTimer, syncTimer, stopTimer, workTimer, history>>

\* bybit_request in a coroutine of the loop.
CallFromLoop(r) ==
  /\ LoopFree
  /\ r \notin ThreadRequest
  /\ Idle(r)
  /\ \/ /\ running
        /\ call' = [call EXCEPT ![r] = "waiting"]
        /\ Put(r)
     \/ /\ ~running
        /\ call' = [call EXCEPT ![r] = "refused"]
        /\ UNCHANGED <<queue, future, innerTimer, short>>
  /\ UNCHANGED <<phase, running, wpc, cur, op, syncVars, outerTimer,
                 workerTimer, syncTimer, stopTimer, workTimer, stalled>>

\* The loop starts the coroutine a thread handed to it: a second check.
RunCoroutine(r) ==
  /\ LoopFree
  /\ future[r] = "scheduled"
  /\ \/ running /\ Put(r) /\ UNCHANGED call
     \/ /\ ~running
        /\ future' = [future EXCEPT ![r] = "refused"]
        /\ call' = IF call[r] = "waiting" THEN [call EXCEPT ![r] = "refused"] ELSE call
        /\ UNCHANGED <<queue, innerTimer, short>>
  /\ UNCHANGED <<phase, running, wpc, cur, op, syncVars, outerTimer,
                 workerTimer, syncTimer, stopTimer, workTimer, stalled>>

\* The future of a request is cancelled; its caller hears why.
CancelFuture(r, why) ==
  /\ future' = [future EXCEPT ![r] = "cancelled"]
  /\ call' = IF call[r] = "waiting" THEN [call EXCEPT ![r] = why] ELSE call

\* wait_for in bybit_request.
InnerTimeout(r) ==
  /\ LoopFree
  /\ future[r] = "pending" /\ innerTimer[r] = 0
  /\ CancelFuture(r, "gaveup")
  /\ UNCHANGED <<phase, running, queue, wpc, cur, op, syncVars, timers, history>>

\* Mutant: future.result without a timeout.
NeverDue(r) == FALSE

\* The wait of a thread is over.
OuterDue(r) == r \in ThreadRequest /\ call[r] = "waiting" /\ outerTimer[r] = 0

\* future.result in bybit_request_sync: the coroutine is not told.
OuterTimeout(r) ==
  /\ OuterDue(r)
  /\ call' = [call EXCEPT ![r] = "gaveup"]
  /\ occupied' = IF occupied = r THEN NoRequest ELSE occupied
  /\ UNCHANGED <<phase, running, loopVars, op, syncPc, syncReq, timers, history>>

\* A coroutine caller with a timeout of its own, such as the heartbeat.
CallerCancels(r) ==
  /\ LoopFree
  /\ r \notin ThreadRequest /\ ~SyncAwaits(r)
  /\ call[r] = "waiting"
  /\ CancelFuture(r, "cancelled")
  /\ UNCHANGED <<phase, running, queue, wpc, cur, op, syncVars, timers, history>>

-----------------------------------------------------------------------------
(* The worker's loop.                                                       *)

\* Mutant: the synchronisation waits for an idle moment.
SyncDueWhenIdle == syncTimer = 0 /\ syncPc = "none" /\ queue = <<>>

\* The interval has passed and no synchronisation is in flight.
SyncDue == syncTimer = 0 /\ syncPc = "none"

\* The head of the loop: leave it, or start a synchronisation that is due as
\* a task of its own, and wait for a request.
LoopTop ==
  /\ LoopFree
  /\ wpc = "top"
  /\ \/ /\ ~running
        /\ wpc' = "off"
        /\ UNCHANGED <<workerTimer, syncPc, syncTimer>>
     \/ /\ running
        /\ wpc' = "get"
        /\ workerTimer' = PollTimeout
        /\ syncPc' = IF SyncDue THEN "begin" ELSE syncPc
        /\ syncTimer' = IF SyncDue THEN SyncInterval ELSE syncTimer
  /\ UNCHANGED <<phase, running, call, queue, future, cur, op, syncReq, occupied,
                 innerTimer, outerTimer, stopTimer, workTimer, history>>

PollTimesOut ==
  /\ LoopFree
  /\ wpc = "get" /\ workerTimer = 0 /\ queue = <<>>
  /\ wpc' = "top"
  /\ UNCHANGED <<phase, running, call, queue, future, cur, op, syncVars, timers, history>>

\* The oldest request is handed to the executor, unless it was cancelled.
TakeRequest ==
  /\ LoopFree
  /\ wpc = "get" /\ queue # <<>>
  /\ queue' = Tail(queue)
  /\ \/ /\ future[Head(queue)] = "cancelled"
        /\ wpc' = "top"
        /\ workerTimer' = 0
        /\ UNCHANGED <<cur, op>>
     \/ /\ future[Head(queue)] # "cancelled"
        /\ wpc' = "exec"
        /\ cur' = Head(queue)
        /\ op' = [op EXCEPT ![Head(queue)] = "pending"]
        /\ workerTimer' = OpTimeout
  /\ UNCHANGED <<phase, running, call, future, syncVars, innerTimer, outerTimer,
                 syncTimer, stopTimer, workTimer, history>>

\* The worker turns to the next request.
Release ==
  /\ cur' = NoRequest
  /\ workerTimer' = 0

\* The caller is given what it returned or raised.
OpAnswered ==
  /\ LoopFree
  /\ wpc = "exec" /\ Answered
  /\ SetFuture(cur, op[cur])
  /\ wpc' = "top"
  /\ Release
  /\ UNCHANGED <<phase, running, queue, op, syncVars, innerTimer, outerTimer,
                 syncTimer, stopTimer, workTimer, history>>

\* Mutant: the operation stays in the executor's queue.
AbandonShielded == UNCHANGED op

\* wait_for cancels the executor's future: an operation that has not begun is
\* taken back, one that has begun goes on.
Abandon ==
  op' = IF op[cur] = "pending" THEN [op EXCEPT ![cur] = "cancelled"] ELSE op

OpTimesOut ==
  /\ LoopFree
  /\ wpc = "exec" /\ workerTimer = 0 /\ op[cur] \in {"pending", "running"}
  /\ Abandon
  /\ SetFuture(cur, "timeout")
  /\ wpc' = "top"
  /\ Release
  /\ UNCHANGED <<phase, running, queue, syncVars, innerTimer, outerTimer,
                 syncTimer, stopTimer, workTimer, history>>

-----------------------------------------------------------------------------
(* The executor thread.                                                     *)

ExecutorTakes(r) ==
  /\ op[r] = "pending"
  /\ \A q \in Request : op[q] # "running"
  /\ op' = [op EXCEPT ![r] = "running"]
  /\ UNCHANGED <<phase, running, call, loopVars, syncVars, timers, history>>

\* _execute_op returns or raises, sooner or later or never.
OpEnds(r) ==
  /\ op[r] = "running"
  /\ \E e \in {"result", "error"} : op' = [op EXCEPT ![r] = e]
  /\ UNCHANGED <<phase, running, call, loopVars, syncVars, timers, history>>

-----------------------------------------------------------------------------
(* The periodic account synchronisation, a task of the same loop.           *)

SyncGivesUp ==
  /\ syncPc' = "none"
  /\ syncReq' = NoRequest

\* It asks for the wallet through the queue, like any coroutine.
SyncBegins ==
  /\ LoopFree
  /\ syncPc = "begin"
  /\ \/ /\ running
        /\ \E r \in Request \ ThreadRequest :
             /\ Idle(r)
             /\ call' = [call EXCEPT ![r] = "waiting"]
             /\ Put(r)
             /\ syncReq' = r
        /\ syncPc' = "wallet"
     \/ ~running /\ SyncGivesUp /\ UNCHANGED <<call, queue, future, innerTimer, short>>
  /\ UNCHANGED <<phase, running, wpc, cur, op, occupied, outerTimer, workerTimer,
                 syncTimer, stopTimer, workTimer, stalled>>

\* The wallet is there: ask for the positions, under the same identity.  No
\* wallet (the client answers an error with None) or an exception ends it, as
\* does a worker that stopped.
SyncContinues ==
  /\ LoopFree
  /\ syncPc = "wallet" /\ call[syncReq] # "waiting"
  /\ \/ /\ call[syncReq] = "result" /\ running
        /\ call' = [call EXCEPT ![syncReq] = "waiting"]
        /\ op' = [op EXCEPT ![syncReq] = "none"]
        /\ Put(syncReq)
        /\ stalled' = [stalled EXCEPT ![syncReq] = 0]
        /\ syncPc' = "positions"
        /\ UNCHANGED syncReq
     \/ SyncGivesUp /\ UNCHANGED <<call, op, queue, future, innerTimer, history>>
  /\ UNCHANGED <<phase, running, wpc, cur, occupied, outerTimer, workerTimer,
                 syncTimer, stopTimer, workTimer>>

\* _persist_account_data runs on the loop and asks the exchange for the
\* account's id by itself: the loop is occupied until it returns.
SyncPersists ==
  /\ LoopFree
  /\ syncPc = "positions" /\ call[syncReq] # "waiting"
  /\ IF call[syncReq] = "result"
     THEN occupied' = Work /\ workTimer' = MaxWork
     ELSE UNCHANGED <<occupied, workTimer>>
  /\ SyncGivesUp
  /\ UNCHANGED <<phase, running, call, loopVars, op, innerTimer, outerTimer,
                 workerTimer, syncTimer, stopTimer, history>>

\* So do the two HTTP probes of the scheduler's heartbeat.
HeartbeatProbes ==
  /\ "heartbeat" \in LoopBlockers
  /\ LoopIdle
  /\ phase \in {"up", "stopping"}
  /\ occupied' = Work
  /\ workTimer' = MaxWork
  /\ UNCHANGED <<phase, running, call, loopVars, op, syncPc, syncReq, innerTimer,
                 outerTimer, workerTimer, syncTimer, stopTimer, history>>

WorkEnds ==
  /\ occupied = Work
  /\ occupied' = NoRequest
  /\ workTimer' = 0
  /\ UNCHANGED <<phase, running, call, loopVars, op, syncPc, syncReq, innerTimer,
                 outerTimer, workerTimer, syncTimer, stopTimer, history>>

-----------------------------------------------------------------------------
(* Shutdown.                                                                *)

\* stop_bybit_worker: no new request; the synchronisation is cancelled, and
\* with it the future it awaits.
StopBegins ==
  /\ LoopFree
  /\ phase \in {"new", "up"}
  /\ phase' = "stopping"
  /\ running' = FALSE
  /\ IF \E r \in Request : SyncAwaits(r) /\ call[r] = "waiting"
     THEN CancelFuture(syncReq, "cancelled")
     ELSE UNCHANGED <<future, call>>
  /\ SyncGivesUp
  /\ stopTimer' = StopTimeout
  /\ UNCHANGED <<queue, wpc, cur, op, innerTimer, outerTimer, workerTimer,
                 syncTimer, workTimer, occupied, history>>

\* The worker's loop has ended, or is cancelled where it waits: the request in
\* hand is not answered.
StopEnds ==
  /\ LoopFree
  /\ phase = "stopping"
  /\ \/ wpc = "off" /\ UNCHANGED <<wpc, cur, workerTimer, op>>
     \/ /\ wpc \in {"get", "exec"} /\ stopTimer = 0
        /\ wpc' = "off"
        /\ IF wpc = "exec" THEN Abandon ELSE UNCHANGED op
        /\ Release
  /\ phase' = "stopped"
  /\ stopTimer' = 0
  /\ UNCHANGED <<running, call, queue, future, syncVars, innerTimer, outerTimer,
                 syncTimer, workTimer, history>>

\* The server's loop ends: it cancels the coroutines that still wait, and runs
\* until they are done.  One that was handed over too late is never run.
LoopCancels(r) ==
  /\ phase = "stopped"
  /\ future[r] = "pending"
  /\ CancelFuture(r, "cancelled")
  /\ UNCHANGED <<phase, running, queue, wpc, cur, op, syncVars, timers, history>>

LoopCloses ==
  /\ phase = "stopped"
  /\ \A r \in Request : future[r] # "pending"
  /\ phase' = "closed"
  /\ UNCHANGED <<running, call, loopVars, op, syncVars, timers, history>>

-----------------------------------------------------------------------------
(* Time.                                                                    *)

\* What is over is forgotten, so that an identity serves once in a tick.
Tick ==
  /\ LoopFree => ~Ready
  /\ occupied = Work => workTimer > 0
  /\ \A r \in Request : ~OuterDue(r)
  /\ call' = [r \in Request |-> IF Over(r) THEN "idle" ELSE call[r]]
  /\ future' = [r \in Request |-> IF Over(r) THEN "none" ELSE future[r]]
  /\ op' = [r \in Request |-> IF Over(r) THEN "none" ELSE op[r]]
  /\ innerTimer' = [r \in Request |->
                      IF future[r] = "pending" THEN Down(innerTimer[r]) ELSE 0]
  /\ outerTimer' = [r \in Request |->
                      IF call[r] = "waiting" THEN Down(outerTimer[r]) ELSE 0]
  /\ workerTimer' = Down(workerTimer)
  /\ syncTimer' = Down(syncTimer)
  /\ stopTimer' = Down(stopTimer)
  /\ workTimer' = Down(workTimer)
  /\ short' = {r \in short : Watched(r)}
  /\ stalled' = [r \in Request |->
       IF ~Watched(r) THEN 0
       ELSE IF occupied # NoRequest /\ call[r] = "waiting" /\ stalled[r] < InnerExtra
            THEN stalled[r] + 1 ELSE stalled[r]]
  /\ UNCHANGED <<phase, running, queue, wpc, cur, syncVars>>

-----------------------------------------------------------------------------
Loop ==
  \/ LoopTop \/ PollTimesOut \/ TakeRequest \/ OpAnswered \/ OpTimesOut
  \/ SyncBegins \/ SyncContinues \/ SyncPersists
  \/ HeartbeatProbes \/ WorkEnds

Caller(r) ==
  \/ CallFromThread(r) \/ CallOnTheLoop(r) \/ CallFromLoop(r) \/ RunCoroutine(r)
  \/ InnerTimeout(r) \/ OuterTimeout(r) \/ CallerCancels(r)

Executor(r) == ExecutorTakes(r) \/ OpEnds(r)

Lifespan ==
  \/ Start \/ StopBegins \/ StopEnds \/ LoopCloses
  \/ \E r \in Request : LoopCancels(r)

Next ==
  \/ Lifespan
  \/ Loop
  \/ \E r \in Request : Caller(r) \/ Executor(r)
  \/ Tick

Spec == Init /\ [][Next]_vars

\* The loop runs what is ready, first come first served;
\* synchronous work and a thread's wait are bounded; time
\* passes.  Nothing is assumed of operations (one may hang for ever), of
\* callers or of when the server stops.
Fairness ==
  /\ WF_vars(LoopTop) /\ WF_vars(PollTimesOut) /\ WF_vars(TakeRequest)
  /\ WF_vars(OpAnswered) /\ WF_vars(OpTimesOut)
  /\ WF_vars(SyncBegins) /\ WF_vars(SyncContinues) /\ WF_vars(SyncPersists)
  /\ WF_vars(StopEnds) /\ WF_vars(WorkEnds)
  /\ \A r \in Request :
       WF_vars(RunCoroutine(r)) /\ WF_vars(InnerTimeout(r))
       /\ WF_vars(OuterTimeout(r))
  /\ SF_vars(Tick)

FairSpec == Spec /\ Fairness

-----------------------------------------------------------------------------
(* Properties.                                                              *)

\* Every variable stays in its type.
RequestsType ==
  /\ call \in [Request -> Call]
  /\ future \in [Request -> Future]
  /\ op \in [Request -> Op]
  /\ short \subseteq Request
  /\ stalled \in [Request -> 0..InnerExtra]

LoopType ==
  /\ phase \in Phase /\ running \in BOOLEAN
  /\ queue \in Seq(Request)
  /\ wpc \in {"off", "top", "get", "exec"} /\ cur \in Request \cup {NoRequest}
  /\ syncPc \in {"none", "begin", "wallet", "positions"}
  /\ syncReq \in Request \cup {NoRequest}
  /\ occupied \in Request \cup {NoRequest, Work}

TimersType ==
  /\ innerTimer \in [Request -> Nat] /\ outerTimer \in [Request -> Nat]
  /\ workerTimer \in Nat /\ syncTimer \in Nat
  /\ stopTimer \in Nat /\ workTimer \in Nat

TypeOK == RequestsType /\ LoopType /\ TimersType

\* What the comment on _QUEUE_WAIT_SLACK promises: a request with at most one
\* other ahead of it is answered before its caller gives up, even if both
\* operations hang and earlier ones still occupy the executor.  It takes the
\* shutdown to break this, or a coroutine that occupies the loop for as long
\* as the margin.
OneAheadIsAnswered ==
  \A r \in Request :
    (r \in short /\ call[r] = "gaveup" /\ running) => stalled[r] = InnerExtra

\* An operation that was reported as timed out before it began, or was taken
\* back by the shutdown, does not begin later: a caller that was told so and
\* tries again does not do it twice.
UnstartedNeverStarts ==
  [][\A r \in Request : op[r] # "running" /\ op'[r] = "running"
       => future[r] # "timeout" /\ phase \notin {"stopped", "closed"}]_vars

\* The account is synchronised again and again, however busy the queue is.
SyncKeepsRunning == []<>(syncPc # "none" \/ ~running)

\* What the caller of a request was told, and what became of its operation.
Told(r) ==
  IF call[r] = "idle" THEN "none"
  ELSE IF call[r] = "waiting" THEN "asked"
  ELSE IF call[r] \in {"timeout", "gaveup", "cancelled"} THEN "unknown"
  ELSE call[r]

Became(r) == IF op[r] \in {"pending", "cancelled"} THEN "none" ELSE op[r]

Service == INSTANCE RequestService WITH
  answer <- [r \in Request |-> Told(r)],
  effect <- [r \in Request |-> Became(r)]

\* The worker implements the service: one true answer for every request, one
\* operation at a time, and every caller is answered in the end, across the
\* timeouts and the shutdown.
Served == Service!Spec
=============================================================================
