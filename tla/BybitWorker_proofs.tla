------------------------- MODULE BybitWorker_proofs -------------------------
(***************************************************************************)
(* Proofs about BybitWorker, for every set of requests and all timeouts.   *)
(***************************************************************************)
EXTENDS BybitWorker, TLAPS

-----------------------------------------------------------------------------
(* The inductive invariant.                                                 *)

\* A queued request is there once, nothing has been done for it, and its
\* future is pending or cancelled.
QueueClean ==
  /\ \A i, j \in 1..Len(queue) : queue[i] = queue[j] => i = j
  /\ \A i \in 1..Len(queue) :
       /\ op[queue[i]] = "none"
       /\ future[queue[i]] \in {"pending", "cancelled"}
       /\ queue[i] # cur

\* The worker has a request in hand just while it waits for the executor.
HandKnown ==
  /\ wpc # "exec" => cur = NoRequest
  /\ wpc = "exec" => /\ cur \in Request
                     /\ op[cur] \in {"pending", "running", "result", "error"}
                     /\ future[cur] \in {"pending", "cancelled"}

\* Only that request can be in the executor's queue.
PendingInHand == \A r \in Request : op[r] = "pending" => wpc = "exec" /\ cur = r

\* A request that never reached the queue has no operation.
UnqueuedUntouched ==
  \A r \in Request : future[r] \in {"none", "scheduled", "refused"} => op[r] = "none"

\* The caller knows no more than the future, and is there while it should be.
CallFollows ==
  \A r \in Request :
    /\ call[r] = "idle" => future[r] = "none"
    /\ future[r] \in {"scheduled", "pending"} => call[r] \in {"waiting", "gaveup"}
    /\ future[r] = "cancelled" => call[r] \in {"gaveup", "cancelled"}
    /\ future[r] = "result" => op[r] = "result"
    /\ call[r] = "result" => future[r] = "result"
    /\ (r \notin ThreadRequest /\ call[r] = "waiting") => future[r] = "pending"

\* The synchronisation waits for a request of its own.
SyncKnown == syncPc \in {"wallet", "positions"} => syncReq \in Request \ ThreadRequest

\* Requests are taken just while the server is up; before and after, there is
\* no worker.
LifeKnown ==
  /\ phase # "up" => ~running
  /\ phase \in {"new", "stopped", "closed"} => wpc = "off"

\* What the loop's own thread waits for has not begun, and nobody else ends
\* the wait.
BlockedKnown ==
  occupied \in Request => /\ occupied \in ThreadRequest
                          /\ call[occupied] = "waiting" /\ future[occupied] = "scheduled"

WInv ==
  /\ TypeOK
  /\ QueueClean /\ HandKnown /\ PendingInHand /\ UnqueuedUntouched
  /\ CallFollows /\ SyncKnown /\ LifeKnown /\ BlockedKnown

-----------------------------------------------------------------------------
(* Type correctness.                                                        *)

\* The limits of the waits are numbers.
LEMMA LimitsTyped ==
  InnerLimit \in Nat /\ OuterLimit \in Nat
BY ConstantsAssumption DEF ConstantsAssumption, InnerLimit, OuterLimit, Slack

\* The constants are numbers.
LEMMA ConstantsTyped ==
  /\ OpTimeout \in Nat /\ CallTimeout \in Nat /\ PollTimeout \in Nat /\ StopTimeout \in Nat
  /\ SyncInterval \in Nat /\ InnerExtra \in Nat /\ OuterExtra \in Nat /\ MaxWork \in Nat
BY ConstantsAssumption DEF ConstantsAssumption

\* What Head and Tail make of the queue.
LEMMA TakenQueue ==
  ASSUME queue \in Seq(Request), queue # <<>>
  PROVE  /\ Len(queue) \in Nat \ {0}
         /\ Head(queue) = queue[1] /\ Head(queue) \in Request
         /\ Tail(queue) \in Seq(Request)
         /\ Len(Tail(queue)) = Len(queue) - 1
         /\ \A i \in 1..Len(Tail(queue)) : i + 1 \in 1..Len(queue) /\ Tail(queue)[i] = queue[i + 1]
OBVIOUS

\* What Append makes of it.
LEMMA GrownQueue ==
  ASSUME queue \in Seq(Request), NEW r \in Request
  PROVE  /\ Len(queue) \in Nat
         /\ Append(queue, r) \in Seq(Request)
         /\ Len(Append(queue, r)) = Len(queue) + 1
         /\ Append(queue, r)[Len(queue) + 1] = r
         /\ \A i \in 1..Len(queue) : Append(queue, r)[i] = queue[i] /\ queue[i] \in Request
OBVIOUS

\* A request that is neither pending nor cancelled is not in the queue.
LEMMA QueueAfterPut ==
  ASSUME WInv, NEW r \in Request, Put(r), cur' = cur,
         future[r] \notin {"pending", "cancelled"},
         op'[r] = "none", \A q \in Request \ {r} : op'[q] = op[q]
  PROVE  QueueClean'
PROOF
<1>1. queue \in Seq(Request) /\ cur # r
  BY ConstantsAssumption DEF WInv, TypeOK, LoopType, HandKnown, ConstantsAssumption
<1>2. \A i \in 1..Len(queue) :
        /\ queue[i] \in Request /\ queue[i] # r /\ queue[i] # cur
        /\ op'[queue[i]] = "none"
        /\ future'[queue[i]] \in {"pending", "cancelled"}
  BY <1>1, GrownQueue DEF WInv, QueueClean, Put, TypeOK, RequestsType
<1>3. future'[r] = "pending"
  BY DEF Put, WInv, TypeOK, RequestsType
<1>4. queue' = Append(queue, r)
  BY DEF Put
<1>5. \A i \in 1..Len(queue') : i \in 1..Len(queue) \/ i = Len(queue) + 1
  BY <1>1, <1>4, GrownQueue
<1>6. \A i \in 1..Len(queue') :
        /\ op'[queue'[i]] = "none" /\ queue'[i] # cur'
        /\ future'[queue'[i]] \in {"pending", "cancelled"}
  BY <1>1, <1>2, <1>3, <1>4, <1>5, GrownQueue
<1>7. \A i, j \in 1..Len(queue') : queue'[i] = queue'[j] => i = j
  BY <1>1, <1>2, <1>4, <1>5, GrownQueue DEF WInv, QueueClean
<1> QED BY <1>6, <1>7 DEF QueueClean

\* The queue as it is: nothing is done for what is in it, and no future but a
\* pending one changes there.
LEMMA QueueKept ==
  ASSUME WInv, queue' = queue, cur' \in {cur, NoRequest},
         \A r \in Request : op[r] = "none" => op'[r] = "none",
         \A r \in Request : future[r] \in {"pending", "cancelled"} /\ r # cur
                              => future'[r] \in {"pending", "cancelled"}
  PROVE  QueueClean'
PROOF
<1>1. \A i \in 1..Len(queue) : queue[i] \in Request /\ queue[i] # NoRequest
  BY ConstantsAssumption DEF WInv, TypeOK, LoopType, ConstantsAssumption
<1> QED BY <1>1 DEF WInv, QueueClean

\* Every step keeps the types of what is known of the requests.
LEMMA RequestsTypeStep ==
  ASSUME WInv, [Next]_vars
  PROVE  RequestsType'
PROOF
<1>1. ASSUME UNCHANGED <<call, future, op, short, stalled>> PROVE RequestsType'
  BY <1>1 DEF WInv, TypeOK, RequestsType
<1>2. CASE \/ UNCHANGED vars \/ Start \/ LoopCloses \/ LoopTop \/ PollTimesOut
           \/ SyncPersists \/ HeartbeatProbes \/ WorkEnds
  BY <1>1, <1>2
  DEF vars, loopVars, history, Start, LoopCloses, LoopTop, PollTimesOut, SyncPersists,
      HeartbeatProbes, WorkEnds
<1>3. CASE StopBegins
  BY <1>3, ConstantsTyped
  DEF StopBegins, CancelFuture, SyncGivesUp, SyncAwaits, WInv, TypeOK, RequestsType,
      Call, Future, history
<1>4. CASE StopEnds
  BY <1>4 DEF StopEnds, Abandon, WInv, TypeOK, RequestsType, Op, syncVars, history
<1>5. ASSUME NEW r \in Request, LoopCancels(r) PROVE RequestsType'
  BY <1>5
  DEF LoopCancels, CancelFuture, WInv, TypeOK, RequestsType, Call, Future, timers,
      syncVars, history
<1>6. CASE TakeRequest
  BY <1>6, ConstantsTyped
  DEF TakeRequest, WInv, TypeOK, RequestsType, Op, syncVars, history
<1>7. CASE OpAnswered
  BY <1>7
  DEF OpAnswered, Answered, SetFuture, WInv, TypeOK, RequestsType, Call, Future, syncVars,
      history
<1>8. CASE OpTimesOut
  BY <1>8
  DEF OpTimesOut, SetFuture, Abandon, WInv, TypeOK, RequestsType, Call, Future, Op,
      syncVars, history
<1>9. CASE SyncBegins
  BY <1>9, LimitsTyped
  DEF SyncBegins, SyncGivesUp, Put, WInv, TypeOK, RequestsType, Call, Future
<1>10. CASE SyncContinues
  <2>1. syncReq \in Request
    BY <1>10 DEF SyncContinues, WInv, SyncKnown
  <2>2. CASE /\ Put(syncReq)
             /\ call' = [call EXCEPT ![syncReq] = "waiting"]
             /\ op' = [op EXCEPT ![syncReq] = "none"]
             /\ stalled' = [stalled EXCEPT ![syncReq] = 0]
             /\ syncPc' = "positions" /\ syncReq' = syncReq
    BY <1>10, <2>1, <2>2, LimitsTyped, ConstantsTyped
    DEF SyncContinues, Put, WInv, TypeOK, RequestsType, Call, Future, Op
  <2>3. CASE UNCHANGED <<call, op, queue, future, innerTimer, history>> /\ SyncGivesUp
    BY <1>10, <2>3
    DEF SyncContinues, SyncGivesUp, history, WInv, TypeOK, RequestsType, Call, Future,
        Op
  <2> QED BY <1>10, <2>2, <2>3 DEF SyncContinues
<1>11. ASSUME NEW r \in Request, CallFromThread(r) \/ CallOnTheLoop(r) PROVE RequestsType'
  BY <1>11, LimitsTyped
  DEF CallFromThread, CallOnTheLoop, WInv, TypeOK, RequestsType, Call, Future, syncVars, history
<1>12. ASSUME NEW r \in Request, CallFromLoop(r) PROVE RequestsType'
  BY <1>12, LimitsTyped
  DEF CallFromLoop, Put, WInv, TypeOK, RequestsType, Call, Future, syncVars
<1>13. ASSUME NEW r \in Request, RunCoroutine(r) PROVE RequestsType'
  BY <1>13, LimitsTyped
  DEF RunCoroutine, Put, WInv, TypeOK, RequestsType, Call, Future, syncVars
<1>14. ASSUME NEW r \in Request, InnerTimeout(r) PROVE RequestsType'
  BY <1>14
  DEF InnerTimeout, CancelFuture, WInv, TypeOK, RequestsType, Call, Future, timers,
      syncVars, history
<1>15. ASSUME NEW r \in Request, OuterTimeout(r) PROVE RequestsType'
  BY <1>15
  DEF OuterTimeout, WInv, TypeOK, RequestsType, Call, timers, loopVars, syncVars,
      history
<1>16. ASSUME NEW r \in Request, CallerCancels(r) PROVE RequestsType'
  BY <1>16
  DEF CallerCancels, CancelFuture, SyncAwaits, WInv, TypeOK, RequestsType, Call,
      Future, timers, syncVars, history
<1>17. ASSUME NEW r \in Request, ExecutorTakes(r) PROVE RequestsType'
  BY <1>17
  DEF ExecutorTakes, WInv, TypeOK, RequestsType, Op, timers, loopVars, syncVars,
      history
<1>18. ASSUME NEW r \in Request, OpEnds(r) PROVE RequestsType'
  BY <1>18
  DEF OpEnds, WInv, TypeOK, RequestsType, Op, timers, loopVars, syncVars, history
<1>19. CASE Tick
  BY <1>19, ConstantsTyped
  DEF Tick, WInv, TypeOK, RequestsType, Call, Future, Op, syncVars
<1> QED
  BY <1>1, <1>2, <1>3, <1>4, <1>5, <1>6, <1>7, <1>8, <1>9, <1>10, <1>11, <1>12,
     <1>13, <1>14, <1>15, <1>16, <1>17, <1>18, <1>19
  DEF Next, Lifespan, Loop, Caller, Executor

\* Every step keeps the types of the loop, the queue and the synchronisation.
LEMMA LoopTypeStep ==
  ASSUME WInv, [Next]_vars
  PROVE  LoopType'
PROOF
<1>1. ASSUME UNCHANGED <<phase, running, queue, wpc, cur, syncVars>> PROVE LoopType'
  BY <1>1 DEF WInv, TypeOK, LoopType, syncVars
<1>2. CASE \/ UNCHANGED vars \/ Tick
           \/ \E r \in Request :
                \/ LoopCancels(r) \/ CallFromThread(r) \/ InnerTimeout(r)
                \/ CallerCancels(r) \/ ExecutorTakes(r)
                \/ OpEnds(r)
  BY <1>1, <1>2
  DEF vars, loopVars, syncVars, LoopCancels, CallFromThread, InnerTimeout,
      CallerCancels, ExecutorTakes, OpEnds, Tick
<1>3. CASE Start
  BY <1>3, ConstantsTyped DEF Start, WInv, TypeOK, LoopType, Phase, syncVars, history
<1>4. CASE StopBegins
  BY <1>4, ConstantsTyped
  DEF StopBegins, SyncGivesUp, SyncAwaits, WInv, TypeOK, LoopType, Phase, history
<1>5. CASE StopEnds
  BY <1>5 DEF StopEnds, Release, WInv, TypeOK, LoopType, Phase, syncVars, history
<1>6. CASE LoopCloses
  BY <1>6
  DEF LoopCloses, WInv, TypeOK, LoopType, Phase, timers, loopVars, syncVars, history
<1>7. CASE LoopTop
  BY <1>7, ConstantsTyped DEF LoopTop, SyncDue, WInv, TypeOK, LoopType, history
<1>8. CASE PollTimesOut
  BY <1>8 DEF PollTimesOut, WInv, TypeOK, LoopType, timers, syncVars, history
<1>9. CASE TakeRequest
  BY <1>9, ConstantsTyped DEF TakeRequest, WInv, TypeOK, LoopType, syncVars, history
<1>10. CASE OpAnswered
  BY <1>10 DEF OpAnswered, SetFuture, Release, WInv, TypeOK, LoopType, syncVars, history
<1>11. CASE OpTimesOut
  BY <1>11 DEF OpTimesOut, SetFuture, Release, WInv, TypeOK, LoopType, syncVars, history
<1>12. CASE SyncBegins
  BY <1>12 DEF SyncBegins, Put, SyncGivesUp, WInv, TypeOK, LoopType, Idle
<1>13. CASE SyncContinues
  <2>1. syncReq \in Request
    BY <1>13 DEF SyncContinues, WInv, SyncKnown
  <2>2. CASE /\ Put(syncReq)
             /\ call' = [call EXCEPT ![syncReq] = "waiting"]
             /\ op' = [op EXCEPT ![syncReq] = "none"]
             /\ stalled' = [stalled EXCEPT ![syncReq] = 0]
             /\ syncPc' = "positions" /\ syncReq' = syncReq
    BY <1>13, <2>1, <2>2, LimitsTyped, ConstantsTyped
    DEF SyncContinues, Put, WInv, TypeOK, LoopType
  <2>3. CASE UNCHANGED <<call, op, queue, future, innerTimer, history>> /\ SyncGivesUp
    BY <1>13, <2>3 DEF SyncContinues, SyncGivesUp, history, WInv, TypeOK, LoopType
  <2> QED BY <1>13, <2>2, <2>3 DEF SyncContinues
<1>14. CASE SyncPersists
  BY <1>14, ConstantsTyped
  DEF SyncPersists, SyncGivesUp, WInv, TypeOK, LoopType, loopVars, history
<1>15. CASE HeartbeatProbes \/ WorkEnds
  BY <1>15, ConstantsTyped DEF HeartbeatProbes, WorkEnds, SyncGivesUp, WInv, TypeOK, LoopType, loopVars, history
<1>16. ASSUME NEW r \in Request, CallFromLoop(r) PROVE LoopType'
  BY <1>16, LimitsTyped, ConstantsTyped
  DEF LoopType, CallFromLoop, history, timers, syncVars, loopVars, Idle, Put, TypeOK,
      Phase, WInv
<1>17. ASSUME NEW r \in Request, RunCoroutine(r) PROVE LoopType'
  BY <1>17, LimitsTyped, ConstantsTyped
  DEF LoopType, RunCoroutine, history, timers, syncVars, loopVars, Idle, Put, TypeOK,
      Phase, WInv
<1>18. ASSUME NEW r \in Request, CallOnTheLoop(r) \/ OuterTimeout(r) PROVE LoopType'
  BY <1>18 DEF CallOnTheLoop, OuterTimeout, WInv, TypeOK, LoopType, loopVars
<1> QED
  BY <1>1, <1>2, <1>3, <1>4, <1>5, <1>6, <1>7, <1>8, <1>9, <1>10, <1>11, <1>12,
     <1>13, <1>14, <1>15, <1>16, <1>17, <1>18
  DEF Next, Lifespan, Loop, Caller, Executor

\* Every step keeps the types of the timers.
LEMMA TimersTypeStep ==
  ASSUME WInv, [Next]_vars
  PROVE  TimersType'
PROOF
<1>1. ASSUME UNCHANGED <<innerTimer, outerTimer, workerTimer, syncTimer, stopTimer, workTimer>> PROVE TimersType'
  BY <1>1 DEF WInv, TypeOK, TimersType
<1>2. CASE \/ UNCHANGED vars \/ LoopCloses \/ PollTimesOut
           \/ \E r \in Request :
                \/ LoopCancels(r) \/ InnerTimeout(r) \/ OuterTimeout(r)
                \/ CallerCancels(r) \/ ExecutorTakes(r) \/ OpEnds(r)
  BY <1>1, <1>2
  DEF vars, timers, LoopCancels, LoopCloses, PollTimesOut, InnerTimeout, OuterTimeout,
      CallerCancels, ExecutorTakes, OpEnds
<1>3. CASE Start
  BY <1>3, ConstantsTyped DEF Start, WInv, TypeOK, TimersType, syncVars, history
<1>4. CASE StopBegins
  BY <1>4, ConstantsTyped
  DEF StopBegins, SyncGivesUp, SyncAwaits, WInv, TypeOK, TimersType, history
<1>5. CASE StopEnds
  BY <1>5 DEF StopEnds, Release, WInv, TypeOK, TimersType, syncVars, history
<1>6. CASE LoopTop
  BY <1>6, ConstantsTyped DEF LoopTop, SyncDue, WInv, TypeOK, TimersType, history
<1>7. CASE TakeRequest
  BY <1>7, ConstantsTyped DEF TakeRequest, WInv, TypeOK, TimersType, syncVars, history
<1>8. CASE OpAnswered
  BY <1>8
  DEF OpAnswered, SetFuture, Release, WInv, TypeOK, TimersType, syncVars, history
<1>9. CASE OpTimesOut
  BY <1>9
  DEF OpTimesOut, SetFuture, Release, WInv, TypeOK, TimersType, syncVars, history
<1>10. CASE SyncBegins
  BY <1>10, LimitsTyped DEF SyncBegins, SyncGivesUp, Put, Idle, WInv, TypeOK, TimersType
<1>11. CASE SyncContinues
  <2>1. syncReq \in Request
    BY <1>11 DEF SyncContinues, WInv, SyncKnown
  <2>2. CASE /\ Put(syncReq)
             /\ call' = [call EXCEPT ![syncReq] = "waiting"]
             /\ op' = [op EXCEPT ![syncReq] = "none"]
             /\ stalled' = [stalled EXCEPT ![syncReq] = 0]
             /\ syncPc' = "positions" /\ syncReq' = syncReq
    BY <1>11, <2>1, <2>2, LimitsTyped, ConstantsTyped
    DEF SyncContinues, Put, WInv, TypeOK, TimersType
  <2>3. CASE UNCHANGED <<call, op, queue, future, innerTimer, history>> /\ SyncGivesUp
    BY <1>11, <2>3 DEF SyncContinues, SyncGivesUp, history, WInv, TypeOK, TimersType
  <2> QED BY <1>11, <2>2, <2>3 DEF SyncContinues
<1>12. CASE SyncPersists
  BY <1>12, ConstantsTyped
  DEF SyncPersists, SyncGivesUp, WInv, TypeOK, TimersType, loopVars, history
<1>13. CASE HeartbeatProbes \/ WorkEnds
  BY <1>13, ConstantsTyped DEF HeartbeatProbes, WorkEnds, SyncGivesUp, WInv, TypeOK, TimersType, loopVars, history
<1>14. ASSUME NEW r \in Request, CallFromThread(r) \/ CallOnTheLoop(r) PROVE TimersType'
  BY <1>14, LimitsTyped DEF CallFromThread, CallOnTheLoop, WInv, TypeOK, TimersType, syncVars, history
<1>15. ASSUME NEW r \in Request, CallFromLoop(r) PROVE TimersType'
  BY <1>15, LimitsTyped DEF CallFromLoop, Put, WInv, TypeOK, TimersType, syncVars
<1>16. ASSUME NEW r \in Request, RunCoroutine(r) PROVE TimersType'
  BY <1>16, LimitsTyped DEF RunCoroutine, Put, WInv, TypeOK, TimersType, syncVars
<1>17. CASE Tick
  BY <1>17, ConstantsTyped DEF Tick, Down, WInv, TypeOK, TimersType, syncVars
<1> QED
  BY <1>1, <1>2, <1>3, <1>4, <1>5, <1>6, <1>7, <1>8, <1>9, <1>10, <1>11, <1>12,
     <1>13, <1>14, <1>15, <1>16, <1>17
  DEF Next, Lifespan, Loop, Caller, Executor

\* What is queued stays untouched: only a request with nothing left of its last
\* use is put there, and it is worked on only after it was taken.
LEMMA QueueCleanStep ==
  ASSUME WInv, [Next]_vars
  PROVE  QueueClean'
PROOF
<1>1. ASSUME UNCHANGED <<queue, op, future, cur>> PROVE QueueClean'
  BY <1>1 DEF WInv, QueueClean
<1>2. CASE \/ UNCHANGED vars \/ Start \/ LoopCloses \/ LoopTop \/ PollTimesOut
           \/ SyncPersists \/ HeartbeatProbes \/ WorkEnds
           \/ \E r \in Request : OuterTimeout(r)
  BY <1>1, <1>2
  DEF vars, loopVars, Start, LoopCloses, LoopTop, PollTimesOut, SyncPersists,
      HeartbeatProbes, WorkEnds, OuterTimeout
<1>3. CASE StopBegins
  BY <1>3, QueueKept
  DEF StopBegins, CancelFuture, SyncGivesUp, SyncAwaits, WInv, TypeOK, RequestsType,
      history
<1>4. CASE StopEnds
  BY <1>4, QueueKept
  DEF StopEnds, Abandon, Release, WInv, TypeOK, RequestsType, syncVars, history
<1>5. ASSUME NEW r \in Request, LoopCancels(r) PROVE QueueClean'
  BY <1>5, QueueKept
  DEF LoopCancels, CancelFuture, WInv, TypeOK, timers, syncVars, history
<1>6. CASE TakeRequest
  <2>1. /\ queue' = Tail(queue) /\ queue # <<>> /\ future' = future
        /\ \/ cur' = cur /\ op' = op
           \/ cur' = queue[1] /\ op' = [op EXCEPT ![queue[1]] = "pending"]
    BY <1>6, TakenQueue DEF TakeRequest, loopVars, WInv, TypeOK, LoopType
  <2>2. Len(queue) \in Nat \ {0} /\ queue[1] \in Request
    BY <2>1, TakenQueue DEF WInv, TypeOK, LoopType
  <2>3. \A i \in 1..Len(queue') :
          /\ i + 1 \in 1..Len(queue) /\ queue'[i] = queue[i + 1]
          /\ queue'[i] \in Request /\ queue'[i] # queue[1]
    BY <2>1, <2>2, TakenQueue DEF WInv, QueueClean, TypeOK, LoopType
  <2>4. \A i \in 1..Len(queue') :
          /\ op'[queue'[i]] = "none" /\ queue'[i] # cur'
          /\ future'[queue'[i]] \in {"pending", "cancelled"}
    BY <2>1, <2>2, <2>3 DEF WInv, QueueClean, TypeOK, RequestsType
  <2>5. \A i, j \in 1..Len(queue') : queue'[i] = queue'[j] => i = j
    BY <2>3 DEF WInv, QueueClean
  <2> QED BY <2>4, <2>5 DEF QueueClean
<1>7. CASE OpAnswered
  BY <1>7, QueueKept DEF OpAnswered, SetFuture, Release, WInv, TypeOK, syncVars, history
<1>8. CASE OpTimesOut
  BY <1>8, QueueKept
  DEF OpTimesOut, SetFuture, Release, Abandon, WInv, TypeOK, syncVars, history
<1>9. CASE SyncBegins
  <2>1. CASE \E r \in Request \ ThreadRequest : Idle(r) /\ Put(r)
    <3>1. PICK r \in Request \ ThreadRequest : Idle(r) /\ Put(r)
      BY <2>1
    <3>2. op'[r] = "none" /\ op' = op /\ cur' = cur /\ future[r] = "none"
      BY <1>9, <3>1 DEF SyncBegins, Idle, WInv, UnqueuedUntouched
    <3> QED BY <3>1, <3>2, QueueAfterPut
  <2>2. CASE ~\E r \in Request \ ThreadRequest : Idle(r) /\ Put(r)
    BY <1>9, <2>2, QueueKept DEF SyncBegins
  <2> QED BY <2>1, <2>2
<1>10. CASE SyncContinues
  <2>1. CASE call[syncReq] = "result" /\ Put(syncReq) /\ op' = [op EXCEPT ![syncReq] = "none"]
    <3>1. syncReq \in Request /\ cur' = cur
      BY <1>10 DEF SyncContinues, WInv, SyncKnown
    <3>2. future[syncReq] = "result"
      BY <2>1, <3>1 DEF WInv, CallFollows
    <3>3. op'[syncReq] = "none" /\ \A q \in Request \ {syncReq} : op'[q] = op[q]
      BY <2>1, <3>1 DEF WInv, TypeOK, RequestsType
    <3> QED BY <2>1, <3>1, <3>2, <3>3, QueueAfterPut
  <2>2. CASE UNCHANGED <<op, queue, future>>
    BY <1>10, <2>2, QueueKept DEF SyncContinues
  <2> QED BY <1>10, <2>1, <2>2 DEF SyncContinues
<1>11. ASSUME NEW r \in Request, CallFromThread(r) \/ CallOnTheLoop(r) PROVE QueueClean'
  BY <1>11, QueueKept
  DEF CallFromThread, CallOnTheLoop, Idle, WInv, TypeOK, RequestsType, syncVars, history
<1>12. ASSUME NEW r \in Request, CallFromLoop(r) PROVE QueueClean'
  <2>1. op'[r] = "none" /\ op' = op /\ cur' = cur /\ future[r] = "none"
    BY <1>12 DEF CallFromLoop, Idle, WInv, UnqueuedUntouched
  <2>2. Put(r) \/ UNCHANGED <<queue, future>>
    BY <1>12 DEF CallFromLoop
  <2> QED BY <2>1, <2>2, QueueAfterPut, QueueKept
<1>13. ASSUME NEW r \in Request, RunCoroutine(r) PROVE QueueClean'
  <2>1. op'[r] = "none" /\ op' = op /\ cur' = cur /\ future[r] = "scheduled"
    BY <1>13 DEF RunCoroutine, WInv, UnqueuedUntouched
  <2>2. CASE Put(r)
    BY <2>1, <2>2, QueueAfterPut
  <2>3. CASE queue' = queue /\ future' = [future EXCEPT ![r] = "refused"]
    BY <2>1, <2>3, QueueKept DEF WInv, TypeOK, RequestsType
  <2> QED BY <1>13, <2>2, <2>3 DEF RunCoroutine
<1>14. ASSUME NEW r \in Request, InnerTimeout(r) PROVE QueueClean'
  BY <1>14, QueueKept
  DEF InnerTimeout, CancelFuture, WInv, TypeOK, timers, syncVars, history
<1>15. ASSUME NEW r \in Request, CallerCancels(r) PROVE QueueClean'
  BY <1>15, QueueKept
  DEF CallerCancels, CancelFuture, SyncAwaits, WInv, TypeOK, timers, syncVars, history
<1>16. ASSUME NEW r \in Request, ExecutorTakes(r) PROVE QueueClean'
  BY <1>16, QueueKept
  DEF ExecutorTakes, WInv, TypeOK, timers, loopVars, syncVars, history
<1>17. ASSUME NEW r \in Request, OpEnds(r) PROVE QueueClean'
  BY <1>17, QueueKept DEF OpEnds, WInv, TypeOK, timers, loopVars, syncVars, history
<1>18. CASE Tick
  <2>1. \A r \in Request : op[r] = "none" => op'[r] = "none"
    BY <1>18 DEF Tick
  <2>2. \A i \in 1..Len(queue) :
          /\ queue[i] \in Request /\ ~Over(queue[i])
    BY DEF Over, Queued, WInv, TypeOK, LoopType
  <2>3. \A i \in 1..Len(queue) : future'[queue[i]] = future[queue[i]]
    BY <1>18, <2>2 DEF Tick
  <2> QED BY <1>18, <2>1, <2>2, <2>3 DEF Tick, WInv, QueueClean
<1> QED
  BY <1>1, <1>2, <1>3, <1>4, <1>5, <1>6, <1>7, <1>8, <1>9, <1>10, <1>11, <1>12,
     <1>13, <1>14, <1>15, <1>16, <1>17, <1>18
  DEF Next, Lifespan, Loop, Caller, Executor

\* The request in hand is taken and released with the place in the loop.
LEMMA HandKnownStep ==
  ASSUME WInv, [Next]_vars
  PROVE  HandKnown'
PROOF
<1>1. ASSUME UNCHANGED <<wpc, cur, op, future>> PROVE HandKnown'
  BY <1>1 DEF WInv, HandKnown
<1>2. CASE \/ UNCHANGED vars \/ LoopCloses \/ SyncPersists \/ HeartbeatProbes \/ WorkEnds
           \/ \E r \in Request : OuterTimeout(r)
  BY <1>1, <1>2 DEF vars, loopVars, LoopCloses, SyncPersists, HeartbeatProbes, WorkEnds, OuterTimeout
<1>3. CASE Start
  BY <1>3, ConstantsTyped
  DEF Start, WInv, HandKnown, LifeKnown, TypeOK, syncVars, history
<1>4. CASE StopBegins
  BY <1>4, ConstantsTyped
  DEF StopBegins, CancelFuture, SyncGivesUp, SyncAwaits, WInv, HandKnown, TypeOK,
      RequestsType, history
<1>5. CASE StopEnds
  BY <1>5 DEF StopEnds, Release, WInv, HandKnown, TypeOK, syncVars, history
<1>6. ASSUME NEW r \in Request, LoopCancels(r) PROVE HandKnown'
  BY <1>6 DEF LoopCancels, WInv, HandKnown, LifeKnown, TypeOK, timers, syncVars, history
<1>7. CASE LoopTop
  BY <1>7, ConstantsTyped DEF LoopTop, SyncDue, WInv, HandKnown, TypeOK, history
<1>8. CASE PollTimesOut
  BY <1>8 DEF PollTimesOut, WInv, HandKnown, TypeOK, timers, syncVars, history
<1>9. CASE TakeRequest
  BY <1>9, ConstantsTyped, TakenQueue
  DEF TakeRequest, WInv, QueueClean, HandKnown, TypeOK, RequestsType, LoopType,
      syncVars, history
<1>10. CASE OpAnswered
  BY <1>10
  DEF OpAnswered, SetFuture, Release, WInv, HandKnown, TypeOK, syncVars, history
<1>11. CASE OpTimesOut
  BY <1>11
  DEF OpTimesOut, SetFuture, Release, WInv, HandKnown, TypeOK, syncVars, history
<1>12. CASE SyncBegins
  BY <1>12, LimitsTyped
  DEF SyncBegins, SyncGivesUp, Put, WInv, HandKnown, TypeOK, RequestsType
<1>13. CASE SyncContinues
  BY <1>13, LimitsTyped
  DEF SyncContinues, SyncGivesUp, Put, WInv, HandKnown, CallFollows, TypeOK,
      RequestsType, history
<1>14. ASSUME NEW r \in Request, CallFromThread(r) \/ CallOnTheLoop(r) PROVE HandKnown'
  BY <1>14, LimitsTyped
  DEF CallFromThread, CallOnTheLoop, Idle, WInv, HandKnown, TypeOK, RequestsType, syncVars, history
<1>15. ASSUME NEW r \in Request, CallFromLoop(r) PROVE HandKnown'
  BY <1>15, LimitsTyped
  DEF CallFromLoop, Put, WInv, HandKnown, TypeOK, RequestsType, syncVars
<1>16. ASSUME NEW r \in Request, RunCoroutine(r) PROVE HandKnown'
  BY <1>16, LimitsTyped
  DEF RunCoroutine, Put, WInv, HandKnown, TypeOK, RequestsType, syncVars
<1>17. ASSUME NEW r \in Request, InnerTimeout(r) PROVE HandKnown'
  BY <1>17
  DEF InnerTimeout, CancelFuture, WInv, HandKnown, TypeOK, timers, syncVars, history
<1>18. ASSUME NEW r \in Request, CallerCancels(r) PROVE HandKnown'
  BY <1>18
  DEF CallerCancels, CancelFuture, SyncAwaits, WInv, HandKnown, TypeOK, timers,
      syncVars, history
<1>19. ASSUME NEW r \in Request, ExecutorTakes(r) PROVE HandKnown'
  BY <1>19
  DEF ExecutorTakes, WInv, HandKnown, TypeOK, timers, loopVars, syncVars, history
<1>20. ASSUME NEW r \in Request, OpEnds(r) PROVE HandKnown'
  BY <1>20 DEF OpEnds, WInv, HandKnown, TypeOK, timers, loopVars, syncVars, history
<1>21. CASE Tick
  BY <1>21, ConstantsTyped DEF Tick, Over, SyncAwaits, WInv, HandKnown, TypeOK, syncVars
<1> QED
  BY <1>1, <1>2, <1>3, <1>4, <1>5, <1>6, <1>7, <1>8, <1>9, <1>10, <1>11, <1>12,
     <1>13, <1>14, <1>15, <1>16, <1>17, <1>18, <1>19, <1>20, <1>21
  DEF Next, Lifespan, Loop, Caller, Executor

\* An operation waits for the executor just while its request is in hand: a
\* timeout, or the shutdown, takes it back.
LEMMA PendingInHandStep ==
  ASSUME WInv, [Next]_vars
  PROVE  PendingInHand'
PROOF
<1>1. ASSUME UNCHANGED <<op, wpc, cur>> PROVE PendingInHand'
  BY <1>1 DEF WInv, PendingInHand
<1>2. CASE \/ UNCHANGED vars \/ StopBegins \/ LoopCloses \/ SyncBegins
           \/ SyncPersists \/ HeartbeatProbes \/ WorkEnds
           \/ \E r \in Request :
                \/ LoopCancels(r) \/ CallFromThread(r) \/ CallOnTheLoop(r) \/ CallFromLoop(r)
                \/ RunCoroutine(r) \/ InnerTimeout(r) \/ OuterTimeout(r)
                \/ CallerCancels(r)
  BY <1>1, <1>2
  DEF vars, loopVars, StopBegins, LoopCancels, LoopCloses, SyncBegins, SyncPersists,
      HeartbeatProbes, WorkEnds, CallFromThread, CallOnTheLoop, CallFromLoop, RunCoroutine, InnerTimeout,
      OuterTimeout, CallerCancels
<1>3. CASE Start
  BY <1>3, ConstantsTyped
  DEF Start, WInv, PendingInHand, LifeKnown, TypeOK, syncVars, history
<1>4. CASE StopEnds
  BY <1>4
  DEF StopEnds, Abandon, WInv, PendingInHand, TypeOK, RequestsType, syncVars, history
<1>5. CASE LoopTop
  BY <1>5, ConstantsTyped DEF LoopTop, SyncDue, WInv, PendingInHand, TypeOK, history
<1>6. CASE PollTimesOut
  BY <1>6 DEF PollTimesOut, WInv, PendingInHand, TypeOK, timers, syncVars, history
<1>7. CASE TakeRequest
  BY <1>7, ConstantsTyped, TakenQueue
  DEF TakeRequest, WInv, PendingInHand, TypeOK, RequestsType, syncVars, history
<1>8. CASE OpAnswered
  BY <1>8
  DEF OpAnswered, Answered, SetFuture, WInv, PendingInHand, TypeOK, syncVars, history
<1>9. CASE OpTimesOut
  BY <1>9
  DEF OpTimesOut, SetFuture, Abandon, WInv, PendingInHand, TypeOK, RequestsType,
      syncVars, history
<1>10. CASE SyncContinues
  BY <1>10
  DEF SyncContinues, SyncGivesUp, WInv, PendingInHand, TypeOK, RequestsType, history
<1>11. ASSUME NEW r \in Request, ExecutorTakes(r) PROVE PendingInHand'
  BY <1>11
  DEF ExecutorTakes, WInv, PendingInHand, TypeOK, timers, loopVars, syncVars, history
<1>12. ASSUME NEW r \in Request, OpEnds(r) PROVE PendingInHand'
  BY <1>12 DEF OpEnds, WInv, PendingInHand, TypeOK, timers, loopVars, syncVars, history
<1>13. CASE Tick
  BY <1>13, ConstantsTyped DEF Tick, WInv, PendingInHand, TypeOK, syncVars
<1> QED
  BY <1>1, <1>2, <1>3, <1>4, <1>5, <1>6, <1>7, <1>8, <1>9, <1>10, <1>11, <1>12,
     <1>13
  DEF Next, Lifespan, Loop, Caller, Executor

\* Only what was queued gets an operation.
LEMMA UnqueuedUntouchedStep ==
  ASSUME WInv, [Next]_vars
  PROVE  UnqueuedUntouched'
PROOF
<1>1. ASSUME UNCHANGED <<future, op>> PROVE UnqueuedUntouched'
  BY <1>1 DEF WInv, UnqueuedUntouched
<1>2. CASE \/ UNCHANGED vars \/ Start \/ LoopCloses \/ LoopTop \/ PollTimesOut
           \/ SyncPersists \/ HeartbeatProbes \/ WorkEnds
           \/ \E r \in Request : OuterTimeout(r)
  BY <1>1, <1>2
  DEF vars, loopVars, Start, LoopCloses, LoopTop, PollTimesOut, SyncPersists,
      HeartbeatProbes, WorkEnds, OuterTimeout
<1>3. CASE StopBegins
  BY <1>3, ConstantsTyped
  DEF StopBegins, CancelFuture, SyncGivesUp, SyncAwaits, WInv, UnqueuedUntouched,
      TypeOK, RequestsType, history
<1>4. CASE StopEnds
  BY <1>4
  DEF StopEnds, Abandon, WInv, UnqueuedUntouched, TypeOK, RequestsType, syncVars,
      history
<1>5. ASSUME NEW r \in Request, LoopCancels(r) PROVE UnqueuedUntouched'
  BY <1>5
  DEF LoopCancels, CancelFuture, WInv, UnqueuedUntouched, TypeOK, timers, syncVars,
      history
<1>6. CASE TakeRequest
  <2>1. /\ Head(queue) = queue[1] /\ Head(queue) \in Request /\ 1 \in 1..Len(queue)
    BY <1>6, TakenQueue DEF TakeRequest, WInv, TypeOK, LoopType
  <2> QED BY <1>6, <2>1 DEF TakeRequest, history, timers, syncVars, WInv, QueueClean, TypeOK, RequestsType, UnqueuedUntouched
<1>7. CASE OpAnswered
  BY <1>7
  DEF OpAnswered, Answered, SetFuture, WInv, UnqueuedUntouched, TypeOK, syncVars, history
<1>8. CASE OpTimesOut
  BY <1>8
  DEF OpTimesOut, SetFuture, Abandon, WInv, UnqueuedUntouched, TypeOK, syncVars,
      history
<1>9. CASE SyncBegins
  BY <1>9, LimitsTyped
  DEF SyncBegins, SyncGivesUp, Put, WInv, UnqueuedUntouched, TypeOK, RequestsType
<1>10. CASE SyncContinues
  BY <1>10, LimitsTyped
  DEF SyncContinues, SyncGivesUp, Put, WInv, UnqueuedUntouched, TypeOK, RequestsType,
      history
<1>11. ASSUME NEW r \in Request, CallFromThread(r) \/ CallOnTheLoop(r) PROVE UnqueuedUntouched'
  BY <1>11, LimitsTyped
  DEF CallFromThread, CallOnTheLoop, Idle, WInv, UnqueuedUntouched, TypeOK, RequestsType, syncVars,
      history
<1>12. ASSUME NEW r \in Request, CallFromLoop(r) PROVE UnqueuedUntouched'
  BY <1>12, LimitsTyped
  DEF CallFromLoop, Put, WInv, UnqueuedUntouched, TypeOK, RequestsType, syncVars
<1>13. ASSUME NEW r \in Request, RunCoroutine(r) PROVE UnqueuedUntouched'
  BY <1>13, LimitsTyped
  DEF RunCoroutine, Put, WInv, UnqueuedUntouched, TypeOK, RequestsType, syncVars
<1>14. ASSUME NEW r \in Request, InnerTimeout(r) PROVE UnqueuedUntouched'
  BY <1>14
  DEF InnerTimeout, CancelFuture, WInv, UnqueuedUntouched, TypeOK, timers, syncVars,
      history
<1>15. ASSUME NEW r \in Request, CallerCancels(r) PROVE UnqueuedUntouched'
  BY <1>15
  DEF CallerCancels, CancelFuture, SyncAwaits, WInv, UnqueuedUntouched, TypeOK,
      timers, syncVars, history
<1>16. ASSUME NEW r \in Request, ExecutorTakes(r) PROVE UnqueuedUntouched'
  BY <1>16
  DEF ExecutorTakes, WInv, UnqueuedUntouched, TypeOK, timers, loopVars, syncVars,
      history
<1>17. ASSUME NEW r \in Request, OpEnds(r) PROVE UnqueuedUntouched'
  BY <1>17
  DEF OpEnds, WInv, UnqueuedUntouched, TypeOK, timers, loopVars, syncVars, history
<1>18. CASE Tick
  BY <1>18, ConstantsTyped DEF Tick, WInv, UnqueuedUntouched, TypeOK, syncVars
<1> QED
  BY <1>1, <1>2, <1>3, <1>4, <1>5, <1>6, <1>7, <1>8, <1>9, <1>10, <1>11, <1>12,
     <1>13, <1>14, <1>15, <1>16, <1>17, <1>18
  DEF Next, Lifespan, Loop, Caller, Executor

\* The caller and the future move together, or the caller first.
LEMMA CallFollowsStep ==
  ASSUME WInv, [Next]_vars
  PROVE  CallFollows'
PROOF
<1>1. ASSUME UNCHANGED <<call, future, op>> PROVE CallFollows'
  BY <1>1 DEF WInv, CallFollows
<1>2. CASE \/ UNCHANGED vars \/ Start \/ LoopCloses \/ LoopTop \/ PollTimesOut
           \/ SyncPersists \/ HeartbeatProbes \/ WorkEnds
  BY <1>1, <1>2
  DEF vars, loopVars, Start, LoopCloses, LoopTop, PollTimesOut, SyncPersists,
      HeartbeatProbes, WorkEnds
<1>3. CASE StopBegins
  <2>1. CASE \E r \in Request : SyncAwaits(r) /\ call[r] = "waiting"
    <3>1. syncReq \in Request \ ThreadRequest /\ future[syncReq] = "pending"
      BY <2>1 DEF SyncAwaits, WInv, SyncKnown, CallFollows
    <3> QED BY <1>3, <2>1, <3>1 DEF StopBegins, CancelFuture, WInv, CallFollows, TypeOK, RequestsType
  <2>2. CASE ~\E r \in Request : SyncAwaits(r) /\ call[r] = "waiting"
    BY <1>3, <2>2 DEF StopBegins, WInv, CallFollows
  <2> QED BY <2>1, <2>2
<1>4. CASE StopEnds
  BY <1>4
  DEF StopEnds, Abandon, WInv, CallFollows, TypeOK, RequestsType, syncVars, history
<1>5. ASSUME NEW r \in Request, LoopCancels(r) PROVE CallFollows'
  BY <1>5
  DEF LoopCancels, CancelFuture, WInv, CallFollows, TypeOK, RequestsType, timers,
      syncVars, history
<1>6. CASE TakeRequest
  <2>1. /\ Head(queue) = queue[1] /\ Head(queue) \in Request /\ 1 \in 1..Len(queue)
    BY <1>6, TakenQueue DEF TakeRequest, WInv, TypeOK, LoopType
  <2> QED BY <1>6, <2>1 DEF TakeRequest, history, timers, syncVars, WInv, QueueClean, TypeOK, RequestsType, CallFollows
<1>7. CASE OpAnswered
  BY <1>7
  DEF OpAnswered, Answered, SetFuture, WInv, CallFollows, TypeOK, RequestsType, syncVars,
      history
<1>8. CASE OpTimesOut
  BY <1>8
  DEF OpTimesOut, SetFuture, Abandon, WInv, CallFollows, TypeOK, RequestsType,
      syncVars, history
<1>9. CASE SyncBegins
  BY <1>9, LimitsTyped
  DEF SyncBegins, SyncGivesUp, Put, WInv, CallFollows, TypeOK, RequestsType
<1>10. CASE SyncContinues
  BY <1>10, LimitsTyped
  DEF SyncContinues, SyncGivesUp, Put, WInv, CallFollows, TypeOK, RequestsType,
      history
<1>11. ASSUME NEW r \in Request, CallFromThread(r) \/ CallOnTheLoop(r) PROVE CallFollows'
  BY <1>11, LimitsTyped
  DEF CallFromThread, CallOnTheLoop, Idle, WInv, CallFollows, TypeOK, RequestsType, syncVars, history
<1>12. ASSUME NEW r \in Request, CallFromLoop(r) PROVE CallFollows'
  BY <1>12, LimitsTyped
  DEF CallFromLoop, Idle, Put, WInv, CallFollows, TypeOK, RequestsType, syncVars
<1>13. ASSUME NEW r \in Request, RunCoroutine(r) PROVE CallFollows'
  BY <1>13, LimitsTyped
  DEF RunCoroutine, Put, WInv, CallFollows, TypeOK, RequestsType, syncVars
<1>14. ASSUME NEW r \in Request, InnerTimeout(r) PROVE CallFollows'
  BY <1>14
  DEF InnerTimeout, CancelFuture, WInv, CallFollows, TypeOK, RequestsType, timers,
      syncVars, history
<1>15. ASSUME NEW r \in Request, OuterTimeout(r) PROVE CallFollows'
  BY <1>15
  DEF OuterTimeout, WInv, CallFollows, TypeOK, timers, loopVars, syncVars, history
<1>16. ASSUME NEW r \in Request, CallerCancels(r) PROVE CallFollows'
  BY <1>16
  DEF CallerCancels, CancelFuture, SyncAwaits, WInv, CallFollows, TypeOK,
      RequestsType, timers, syncVars, history
<1>17. ASSUME NEW r \in Request, ExecutorTakes(r) PROVE CallFollows'
  BY <1>17
  DEF ExecutorTakes, WInv, CallFollows, TypeOK, timers, loopVars, syncVars, history
<1>18. ASSUME NEW r \in Request, OpEnds(r) PROVE CallFollows'
  BY <1>18 DEF OpEnds, WInv, CallFollows, TypeOK, timers, loopVars, syncVars, history
<1>19. CASE Tick
  BY <1>19, ConstantsTyped DEF Tick, WInv, CallFollows, TypeOK, syncVars
<1> QED
  BY <1>1, <1>2, <1>3, <1>4, <1>5, <1>6, <1>7, <1>8, <1>9, <1>10, <1>11, <1>12,
     <1>13, <1>14, <1>15, <1>16, <1>17, <1>18, <1>19
  DEF Next, Lifespan, Loop, Caller, Executor

\* The synchronisation awaits a request of a coroutine.
LEMMA SyncKnownStep ==
  ASSUME WInv, [Next]_vars
  PROVE  SyncKnown'
PROOF
<1>1. ASSUME UNCHANGED <<syncPc, syncReq>> PROVE SyncKnown'
  BY <1>1 DEF WInv, SyncKnown
<1>2. CASE \/ UNCHANGED vars \/ Start \/ StopEnds \/ LoopCloses \/ PollTimesOut
           \/ TakeRequest \/ OpAnswered \/ OpTimesOut \/ Tick
           \/ \E r \in Request :
                \/ LoopCancels(r) \/ CallFromThread(r) \/ CallOnTheLoop(r) \/ CallFromLoop(r)
                \/ RunCoroutine(r) \/ InnerTimeout(r) \/ OuterTimeout(r)
                \/ CallerCancels(r) \/ ExecutorTakes(r) \/ OpEnds(r)
  BY <1>1, <1>2
  DEF vars, syncVars, Start, StopEnds, LoopCancels, LoopCloses, PollTimesOut,
      TakeRequest, OpAnswered, OpTimesOut, CallFromThread, CallOnTheLoop, CallFromLoop, RunCoroutine,
      InnerTimeout, OuterTimeout, CallerCancels, ExecutorTakes, OpEnds, Tick
<1>3. CASE StopBegins
  BY <1>3, ConstantsTyped
  DEF StopBegins, SyncGivesUp, SyncAwaits, WInv, SyncKnown, TypeOK, history
<1>4. CASE LoopTop
  BY <1>4, ConstantsTyped DEF LoopTop, SyncDue, WInv, SyncKnown, TypeOK, history
<1>5. CASE SyncBegins
  BY <1>5 DEF SyncBegins, SyncGivesUp, WInv, SyncKnown, TypeOK
<1>6. CASE SyncContinues
  BY <1>6 DEF SyncContinues, SyncGivesUp, WInv, SyncKnown, TypeOK, history
<1>7. CASE SyncPersists
  BY <1>7, ConstantsTyped
  DEF SyncPersists, SyncGivesUp, WInv, SyncKnown, TypeOK, loopVars, history
<1>8. CASE HeartbeatProbes \/ WorkEnds
  BY <1>8, ConstantsTyped DEF HeartbeatProbes, WorkEnds, SyncGivesUp, WInv, SyncKnown, TypeOK, loopVars, history
<1> QED BY <1>1, <1>2, <1>3, <1>4, <1>5, <1>6, <1>7, <1>8
  DEF Next, Lifespan, Loop, Caller, Executor

\* The worker runs while the server is up.
LEMMA LifeKnownStep ==
  ASSUME WInv, [Next]_vars
  PROVE  LifeKnown'
PROOF
<1>1. ASSUME UNCHANGED <<phase, running, wpc>> PROVE LifeKnown'
  BY <1>1 DEF WInv, LifeKnown
<1>2. CASE \/ UNCHANGED vars \/ SyncBegins \/ SyncContinues \/ SyncPersists
           \/ HeartbeatProbes \/ WorkEnds \/ Tick
           \/ \E r \in Request :
                \/ LoopCancels(r) \/ CallFromThread(r) \/ CallOnTheLoop(r) \/ CallFromLoop(r)
                \/ RunCoroutine(r) \/ InnerTimeout(r) \/ OuterTimeout(r)
                \/ CallerCancels(r) \/ ExecutorTakes(r) \/ OpEnds(r)
  BY <1>1, <1>2
  DEF vars, loopVars, LoopCancels, SyncBegins, SyncContinues, SyncPersists,
      HeartbeatProbes, WorkEnds, CallFromThread, CallOnTheLoop, CallFromLoop, RunCoroutine, InnerTimeout,
      OuterTimeout, CallerCancels, ExecutorTakes, OpEnds, Tick
<1>3. CASE Start
  BY <1>3, ConstantsTyped DEF Start, WInv, LifeKnown, TypeOK, syncVars, history
<1>4. CASE StopBegins
  BY <1>4, ConstantsTyped
  DEF StopBegins, SyncGivesUp, SyncAwaits, WInv, LifeKnown, TypeOK, history
<1>5. CASE StopEnds
  BY <1>5 DEF StopEnds, WInv, LifeKnown, TypeOK, syncVars, history
<1>6. CASE LoopCloses
  BY <1>6 DEF LoopCloses, WInv, LifeKnown, TypeOK, timers, loopVars, syncVars, history
<1>7. CASE LoopTop
  BY <1>7, ConstantsTyped DEF LoopTop, SyncDue, WInv, LifeKnown, TypeOK, history
<1>8. CASE PollTimesOut
  BY <1>8 DEF PollTimesOut, WInv, LifeKnown, TypeOK, timers, syncVars, history
<1>9. CASE TakeRequest
  BY <1>9, ConstantsTyped, TakenQueue
  DEF TakeRequest, WInv, LifeKnown, TypeOK, syncVars, history
<1>10. CASE OpAnswered
  BY <1>10 DEF OpAnswered, SetFuture, WInv, LifeKnown, TypeOK, syncVars, history
<1>11. CASE OpTimesOut
  BY <1>11 DEF OpTimesOut, SetFuture, WInv, LifeKnown, TypeOK, syncVars, history
<1> QED BY <1>1, <1>2, <1>3, <1>4, <1>5, <1>6, <1>7, <1>8, <1>9, <1>10, <1>11
  DEF Next, Lifespan, Loop, Caller, Executor

\* While the loop's thread waits, no handler runs; the wait ends by its timeout.
LEMMA BlockedKnownStep ==
  ASSUME WInv, [Next]_vars
  PROVE  BlockedKnown'
PROOF
<1>1. ASSUME UNCHANGED <<call, future, occupied>> PROVE BlockedKnown'
  BY <1>1 DEF WInv, BlockedKnown
<1>2. ASSUME occupied' \notin Request PROVE BlockedKnown'
  BY <1>2 DEF BlockedKnown
<1>3. ASSUME LoopFree, occupied' = occupied PROVE BlockedKnown'
  BY <1>2, <1>3, ConstantsAssumption DEF LoopFree, ConstantsAssumption
<1>4. CASE \/ UNCHANGED vars \/ Start \/ LoopCloses
           \/ \E r \in Request : ExecutorTakes(r) \/ OpEnds(r)
  BY <1>1, <1>4
  DEF vars, loopVars, syncVars, Start, LoopCloses, ExecutorTakes, OpEnds
<1>5. CASE \/ StopBegins \/ StopEnds \/ LoopTop \/ PollTimesOut \/ TakeRequest
           \/ OpAnswered \/ OpTimesOut \/ SyncBegins \/ SyncContinues
           \/ \E r \in Request : \/ CallFromLoop(r) \/ RunCoroutine(r)
                                 \/ InnerTimeout(r) \/ CallerCancels(r)
  BY <1>3, <1>5
  DEF StopBegins, StopEnds, LoopTop, PollTimesOut, TakeRequest, OpAnswered, OpTimesOut,
      SyncBegins, SyncContinues, CallFromLoop, RunCoroutine, InnerTimeout,
      CallerCancels, syncVars
<1>6. CASE SyncPersists \/ HeartbeatProbes \/ WorkEnds
  BY <1>2, <1>3, <1>6, ConstantsAssumption
  DEF SyncPersists, HeartbeatProbes, WorkEnds, ConstantsAssumption
<1>7. ASSUME NEW r \in Request, LoopCancels(r) PROVE BlockedKnown'
  BY <1>7 DEF LoopCancels, CancelFuture, syncVars, WInv, BlockedKnown, TypeOK, RequestsType
<1>8. ASSUME NEW r \in Request, CallFromThread(r) PROVE BlockedKnown'
  BY <1>8 DEF CallFromThread, Idle, syncVars, WInv, BlockedKnown, TypeOK, RequestsType
<1>9. ASSUME NEW r \in Request, CallOnTheLoop(r) PROVE BlockedKnown'
  BY <1>9 DEF CallOnTheLoop, WInv, BlockedKnown, TypeOK, RequestsType
<1>10. ASSUME NEW r \in Request, OuterTimeout(r) PROVE BlockedKnown'
  BY <1>10, ConstantsAssumption
  DEF OuterTimeout, WInv, BlockedKnown, TypeOK, RequestsType, loopVars, ConstantsAssumption
<1>11. CASE Tick
  BY <1>11 DEF Tick, Over, syncVars, WInv, BlockedKnown
<1> QED
  BY <1>4, <1>5, <1>6, <1>7, <1>8, <1>9, <1>10, <1>11
  DEF Next, Lifespan, Loop, Caller, Executor

-----------------------------------------------------------------------------
(* The invariant, and what follows from it.                                 *)

\* It holds at the start.
LEMMA InitInv == Init => WInv
PROOF
<1> SUFFICES ASSUME Init PROVE WInv
  OBVIOUS
<1>1. RequestsType
  BY ConstantsTyped DEF Init, RequestsType, Call, Future, Op
<1>2. LoopType
  <2>1. queue \in Seq(Request)
    BY DEF Init
  <2>2. phase \in Phase /\ running \in BOOLEAN
    BY DEF Init, Phase
  <2> QED BY <2>1, <2>2 DEF Init, LoopType
<1>3. TimersType
  BY DEF Init, TimersType
<1>4. QueueClean
  BY DEF Init, QueueClean
<1>5. HandKnown /\ PendingInHand /\ UnqueuedUntouched /\ CallFollows
  BY DEF Init, HandKnown, PendingInHand, UnqueuedUntouched, CallFollows
<1>6. SyncKnown /\ LifeKnown
  BY DEF Init, SyncKnown, LifeKnown
<1>7. BlockedKnown
  BY ConstantsAssumption DEF Init, BlockedKnown, ConstantsAssumption
<1> QED BY <1>1, <1>2, <1>3, <1>4, <1>5, <1>6, <1>7 DEF WInv, TypeOK

\* Every step keeps it.
LEMMA StepInv == WInv /\ [Next]_vars => WInv'
  BY RequestsTypeStep, LoopTypeStep, TimersTypeStep, QueueCleanStep, HandKnownStep,
     PendingInHandStep, UnqueuedUntouchedStep, CallFollowsStep, SyncKnownStep,
     LifeKnownStep, BlockedKnownStep
  DEF WInv, TypeOK

\* The inductive invariant holds in every state the worker reaches.
THEOREM WorkerInvariance == Spec => []WInv
  BY InitInv, StepInv, PTL DEF Spec

\* Every variable of the worker keeps its type.
THEOREM WorkerTypes == Spec => []TypeOK
<1>1. WInv => TypeOK
  BY DEF WInv
<1> QED BY WorkerInvariance, <1>1, PTL

\* Whatever the timeouts, a wait of the loop's own thread ends unanswered: its
\* caller gives up, and the operation was not begun.
THEOREM WaitOnLoopInVain ==
  Spec => [][\A r \in Request :
               occupied = r /\ occupied' # r => call'[r] = "gaveup" /\ op[r] = "none"]_vars
<1> DEFINE InVain == \A r \in Request :
             occupied = r /\ occupied' # r => call'[r] = "gaveup" /\ op[r] = "none"
<1>1. ASSUME WInv, Next PROVE InVain
  <2>1. ASSUME UNCHANGED occupied PROVE InVain
    BY <2>1
  <2>2. ASSUME LoopFree \/ occupied = Work PROVE InVain
    BY <2>2, ConstantsAssumption DEF LoopFree, ConstantsAssumption
  <2>3. ASSUME NEW q \in Request, OuterTimeout(q) PROVE InVain
    BY <1>1, <2>3
    DEF OuterTimeout, WInv, BlockedKnown, UnqueuedUntouched, TypeOK, RequestsType
  <2>4. CASE \/ Start \/ LoopCloses \/ Tick
             \/ \E q \in Request : \/ LoopCancels(q) \/ Executor(q) \/ CallFromThread(q)
    BY <2>1, <2>4
    DEF Start, LoopCloses, Tick, LoopCancels, Executor, ExecutorTakes, OpEnds,
        CallFromThread, syncVars
  <2>5. CASE \/ StopBegins \/ StopEnds \/ Loop
             \/ \E q \in Request : \/ CallOnTheLoop(q) \/ CallFromLoop(q)
                                   \/ RunCoroutine(q) \/ InnerTimeout(q)
                                   \/ CallerCancels(q)
    BY <2>2, <2>5
    DEF StopBegins, StopEnds, Loop, LoopTop, PollTimesOut, TakeRequest, OpAnswered,
        OpTimesOut, SyncBegins, SyncContinues, SyncPersists, HeartbeatProbes, WorkEnds,
        LoopIdle, CallOnTheLoop, CallFromLoop, RunCoroutine, InnerTimeout, CallerCancels
  <2> QED BY <1>1, <2>3, <2>4, <2>5 DEF Next, Lifespan, Caller
<1>2. WInv /\ [Next]_vars => [InVain]_vars
  BY <1>1 DEF vars, syncVars
<1> QED BY WorkerInvariance, <1>2, PTL DEF Spec

\* Only the executor makes an operation run, and it takes what is in hand: an
\* operation that timed out in the executor's queue, or that the shutdown took
\* back, does not begin later.
THEOREM NoLateStart == Spec => UnstartedNeverStarts
<1> DEFINE Fresh == \A r \in Request : op[r] # "running" /\ op'[r] = "running"
                      => future[r] # "timeout" /\ phase \notin {"stopped", "closed"}
<1>1. ASSUME WInv, Next PROVE Fresh
  <2>1. ASSUME NEW q \in Request, ExecutorTakes(q) PROVE Fresh
    <3>1. wpc = "exec" /\ cur = q
      BY <1>1, <2>1 DEF ExecutorTakes, WInv, PendingInHand
    <3>2. future[q] \in {"pending", "cancelled"} /\ phase \notin {"stopped", "closed"}
      BY <1>1, <3>1 DEF WInv, HandKnown, LifeKnown
    <3> QED BY <1>1, <2>1, <3>2 DEF ExecutorTakes, WInv, TypeOK, RequestsType
  <2>2. ASSUME UNCHANGED op PROVE Fresh
    BY <2>2
  <2>3. CASE TakeRequest \/ OpTimesOut \/ StopEnds
    BY <1>1, <2>3, TakenQueue
    DEF TakeRequest, OpTimesOut, StopEnds, Abandon, WInv, TypeOK, RequestsType, LoopType
  <2>4. CASE SyncContinues \/ \E q \in Request : OpEnds(q)
    BY <1>1, <2>4 DEF SyncContinues, OpEnds, WInv, TypeOK, RequestsType
  <2>5. CASE Tick
    BY <1>1, <2>5 DEF Tick, WInv, TypeOK, RequestsType
  <2>6. CASE \/ Start \/ StopBegins \/ LoopCloses \/ LoopTop \/ PollTimesOut
             \/ OpAnswered \/ SyncBegins \/ SyncPersists \/ HeartbeatProbes \/ WorkEnds
             \/ \E q \in Request : LoopCancels(q) \/ Caller(q)
    BY <2>2, <2>6
    DEF Start, StopBegins, LoopCloses, LoopTop, PollTimesOut, OpAnswered, SyncBegins,
        SyncPersists, HeartbeatProbes, WorkEnds, LoopCancels, Caller, CallFromThread, CallOnTheLoop, CallFromLoop,
        RunCoroutine, InnerTimeout, OuterTimeout, CallerCancels
  <2> QED BY <1>1, <2>1, <2>3, <2>4, <2>5, <2>6 DEF Next, Lifespan, Loop, Executor
<1>2. WInv /\ [Next]_vars => [Fresh]_vars
  BY <1>1
<1> QED BY WorkerInvariance, <1>2, PTL DEF Spec, UnstartedNeverStarts

-----------------------------------------------------------------------------
(* The worker implements the service.                                       *)

\* What a step of the service looks like from the worker: a stutter, ...
LEMMA SeenAsStutter ==
  ASSUME \A q \in Request : Told(q)' = Told(q) /\ Became(q)' = Became(q)
  PROVE  UNCHANGED Service!vars
  BY DEF Service!vars

\* ... a question, ...
LEMMA SeenAsAsk ==
  ASSUME NEW r \in Request,
         Told(r) # "asked", Became(r) # "running",
         Told(r)' = "asked", Became(r)' = "none",
         \A q \in Request \ {r} : Told(q)' = Told(q) /\ Became(q)' = Became(q)
  PROVE  Service!Next
<1>1. Service!Ask(r)
  BY DEF Service!Ask
<1> QED BY <1>1 DEF Service!Next

\* ... a refusal, ...
LEMMA SeenAsRefuse ==
  ASSUME NEW r \in Request,
         Told(r) \in {"none", "asked"}, Became(r) = "none",
         Told(r)' = "refused", Became(r)' = "none",
         \A q \in Request \ {r} : Told(q)' = Told(q) /\ Became(q)' = Became(q)
  PROVE  Service!Next
<1>1. Service!Refuse(r)
  BY DEF Service!Refuse
<1> QED BY <1>1 DEF Service!Next

\* ... or an answer: the outcome of the operation, or that it is not known.
LEMMA SeenAsReply ==
  ASSUME NEW r \in Request,
         Told(r) = "asked", Became(r)' = Became(r),
         \/ Told(r)' = "unknown"
         \/ Told(r)' = Became(r) /\ Became(r) \notin {"none", "running"},
         \A q \in Request \ {r} : Told(q)' = Told(q) /\ Became(q)' = Became(q)
  PROVE  Service!Next
<1>1. Service!Reply(r)
  BY DEF Service!Reply
<1> QED BY <1>1 DEF Service!Next

\* Every step of the worker is a step of the service, or none.
LEMMA StepServes ==
  ASSUME WInv, [Next]_vars
  PROVE  [Service!Next]_(Service!vars)
PROOF
<1> USE DEF Told, Became
<1> DEFINE Seen == [Service!Next]_(Service!vars)
<1>1. ASSUME UNCHANGED <<call, op>> PROVE Seen
  BY <1>1, SeenAsStutter
<1>2. CASE \/ UNCHANGED vars \/ Start \/ LoopCloses \/ LoopTop \/ PollTimesOut
           \/ SyncPersists \/ HeartbeatProbes \/ WorkEnds
  BY <1>1, <1>2
  DEF vars, Start, LoopCloses, LoopTop, PollTimesOut, SyncPersists, HeartbeatProbes, WorkEnds
\* A question, or a refusal.
<1>3. ASSUME NEW r \in Request, CallFromThread(r) \/ CallOnTheLoop(r) \/ CallFromLoop(r)
      PROVE Seen
  <2>1. call[r] = "idle" /\ op[r] = "none" /\ op' = op
    BY <1>3 DEF CallFromThread, CallOnTheLoop, CallFromLoop, Idle, WInv, UnqueuedUntouched
  <2>2. \/ call' = [call EXCEPT ![r] = "waiting"]
        \/ call' = [call EXCEPT ![r] = "refused"]
    BY <1>3 DEF CallFromThread, CallOnTheLoop, CallFromLoop
  <2> QED BY <2>1, <2>2, SeenAsAsk, SeenAsRefuse DEF WInv, TypeOK, RequestsType
<1>4. ASSUME NEW r \in Request, RunCoroutine(r) PROVE Seen
  <2>1. op[r] = "none" /\ op' = op
    BY <1>4 DEF RunCoroutine, WInv, UnqueuedUntouched
  <2>2. CASE UNCHANGED call
    BY <1>1, <2>1, <2>2
  <2>3. CASE call[r] = "waiting" /\ call' = [call EXCEPT ![r] = "refused"]
    BY <2>1, <2>3, SeenAsRefuse DEF WInv, TypeOK, RequestsType
  <2> QED BY <1>4, <2>2, <2>3 DEF RunCoroutine
<1>5. CASE SyncBegins
  <2>1. CASE UNCHANGED call
    BY <1>1, <1>5, <2>1 DEF SyncBegins
  <2>2. ASSUME NEW r \in Request, Idle(r), call' = [call EXCEPT ![r] = "waiting"] PROVE Seen
    <3>1. call[r] = "idle" /\ op[r] = "none" /\ op' = op
      BY <1>5, <2>2 DEF SyncBegins, Idle, WInv, UnqueuedUntouched
    <3> QED BY <2>2, <3>1, SeenAsAsk DEF WInv, TypeOK, RequestsType
  <2> QED BY <1>5, <2>1, <2>2 DEF SyncBegins
<1>6. CASE SyncContinues
  <2>1. CASE UNCHANGED <<call, op>>
    BY <1>1, <2>1
  <2>2. CASE /\ call[syncReq] = "result"
             /\ call' = [call EXCEPT ![syncReq] = "waiting"]
             /\ op' = [op EXCEPT ![syncReq] = "none"]
    <3>1. syncReq \in Request /\ op[syncReq] = "result"
      BY <1>6, <2>2 DEF SyncContinues, WInv, SyncKnown, CallFollows
    <3> QED BY <2>2, <3>1, SeenAsAsk DEF WInv, TypeOK, RequestsType
  <2> QED BY <1>6, <2>1, <2>2 DEF SyncContinues
\* Answers: the caller is told nothing, or that its request was given up, ...
<1>7. ASSUME NEW r \in Request, op' = op, CancelFuture(r, "gaveup") \/ CancelFuture(r, "cancelled")
      PROVE Seen
  <2>1. CASE UNCHANGED call
    BY <1>1, <1>7, <2>1
  <2>2. CASE /\ call[r] = "waiting"
             /\ \/ call' = [call EXCEPT ![r] = "gaveup"]
                \/ call' = [call EXCEPT ![r] = "cancelled"]
    BY <1>7, <2>2, SeenAsReply DEF WInv, TypeOK, RequestsType
  <2> QED BY <1>7, <2>1, <2>2 DEF CancelFuture
<1>8. ASSUME NEW r \in Request, InnerTimeout(r) \/ CallerCancels(r) \/ LoopCancels(r) PROVE Seen
  BY <1>7, <1>8 DEF InnerTimeout, CallerCancels, LoopCancels
<1>9. ASSUME NEW r \in Request, OuterTimeout(r) PROVE Seen
  BY <1>9, SeenAsReply DEF OuterTimeout, OuterDue, WInv, TypeOK, RequestsType
<1>10. CASE StopBegins
  <2>1. CASE UNCHANGED call
    BY <1>1, <1>10, <2>1 DEF StopBegins
  <2>2. CASE syncPc \in {"wallet", "positions"} /\ CancelFuture(syncReq, "cancelled")
    BY <1>7, <1>10, <2>2 DEF StopBegins, WInv, SyncKnown
  <2> QED BY <1>10, <2>1, <2>2 DEF StopBegins, SyncAwaits
\* ... or what became of the operation.
<1>11. CASE OpAnswered
  <2>1. cur \in Request /\ op[cur] \in {"result", "error"} /\ op' = op
    BY <1>11 DEF OpAnswered, Answered, WInv, HandKnown
  <2>2. CASE UNCHANGED call
    BY <1>1, <2>1, <2>2
  <2>3. CASE call[cur] = "waiting" /\ call' = [call EXCEPT ![cur] = op[cur]]
    BY <2>1, <2>3, SeenAsReply DEF WInv, TypeOK, RequestsType
  <2> QED BY <1>11, <2>2, <2>3 DEF OpAnswered, SetFuture
\* An operation that is taken back was not seen to begin.
<1>12. ASSUME cur \in Request, Abandon PROVE \A q \in Request : Became(q)' = Became(q)
  BY <1>12 DEF Abandon, WInv, TypeOK, RequestsType
<1>13. CASE OpTimesOut
  <2>1. cur \in Request /\ \A q \in Request : Became(q)' = Became(q)
    BY <1>12, <1>13 DEF OpTimesOut, WInv, HandKnown
  <2>2. CASE UNCHANGED call
    BY <2>1, <2>2, SeenAsStutter
  <2>3. CASE call[cur] = "waiting" /\ call' = [call EXCEPT ![cur] = "timeout"]
    BY <2>1, <2>3, SeenAsReply DEF WInv, TypeOK, RequestsType
  <2> QED BY <1>13, <2>2, <2>3 DEF OpTimesOut, SetFuture
<1>14. CASE StopEnds
  <2>1. \A q \in Request : Became(q)' = Became(q)
    BY <1>12, <1>14 DEF StopEnds, WInv, HandKnown
  <2> QED BY <1>14, <2>1, SeenAsStutter DEF StopEnds
<1>15. CASE TakeRequest
  BY <1>15, SeenAsStutter, TakenQueue
  DEF TakeRequest, WInv, TypeOK, LoopType, RequestsType, QueueClean
\* The operation begins and ends.
<1>16. ASSUME NEW r \in Request, ExecutorTakes(r) PROVE Seen
  <2>1. call[r] \in {"waiting", "gaveup", "cancelled"}
    BY <1>16 DEF ExecutorTakes, WInv, PendingInHand, HandKnown, CallFollows
  <2>2. Service!Begin(r)
    BY <1>16, <2>1 DEF ExecutorTakes, Service!Begin, WInv, TypeOK, RequestsType
  <2> QED BY <2>2 DEF Service!Next
<1>17. ASSUME NEW r \in Request, OpEnds(r) PROVE Seen
  <2>1. Service!End(r)
    BY <1>17 DEF OpEnds, Service!End, WInv, TypeOK, RequestsType
  <2> QED BY <2>1 DEF Service!Next
<1>18. CASE Tick
  <2>1. PICK R \in SUBSET Request : R = {r \in Request : Over(r)}
    OBVIOUS
  <2>2. \A r \in R : Told(r) \notin {"none", "asked"} /\ Became(r) # "running"
    BY <2>1 DEF Over, WInv, TypeOK, RequestsType, Call
  <2>3. \A r \in Request : /\ Told(r)' = IF r \in R THEN "none" ELSE Told(r)
                           /\ Became(r)' = IF r \in R THEN "none" ELSE Became(r)
    BY <1>18, <2>1 DEF Tick
  <2>4. Service!Forget(R)
    BY <2>2, <2>3 DEF Service!Forget
  <2> QED BY <2>4 DEF Service!Next
<1> QED
  BY <1>2, <1>3, <1>4, <1>5, <1>6, <1>8, <1>9, <1>10, <1>11, <1>13, <1>14, <1>15, <1>16,
     <1>17, <1>18
  DEF Next, Lifespan, Loop, Caller, Executor

\* For any number of callers, whatever the timeouts: one answer to every
\* request, and no answer that contradicts what the executor did.
THEOREM WorkerServes == Spec => Service!Safety
<1>1. Init => Service!Init
  BY DEF Init, Service!Init, Told, Became
<1>2. WInv /\ [Next]_vars => [Service!Next]_(Service!vars)
  BY StepServes
<1> QED BY WorkerInvariance, <1>1, <1>2, PTL DEF Spec, Service!Safety-----------------------------------------------------------------------------
(* A request with at most one other ahead of it is answered.                *)

\* r is what the worker has in hand.
InHand(r) == wpc = "exec" /\ cur = r

\* The longest the worker may still take over a request that had at most one
\* other ahead of it: what is left for the one in hand, if it is another one,
\* and OpTimeout for each that is to be taken, itself included.
Left(r) ==
  IF InHand(r) THEN workerTimer
  ELSE (IF wpc = "exec" THEN workerTimer ELSE 0)
       + (IF queue[1] = r THEN OpTimeout ELSE OpTimeout + OpTimeout)

\* A timer leaves w and the margin, less what the loop was occupied for.
Enough(r, timer, w) ==
  stalled[r] = InnerExtra \/ timer + stalled[r] >= InnerExtra + w

\* Nothing has been asked before the start, nor was an operation begun.
NewIsQuiet ==
  phase = "new" =>
    /\ queue = <<>> /\ short = {} /\ syncPc = "none"
    /\ \A r \in Request : call[r] \in {"idle", "refused"} /\ future[r] = "none"

\* While the worker runs, its loop does, and waits for no operation longer
\* than OpTimeout.
WorkerWaits == wpc # "off" /\ (wpc = "exec" => workerTimer =< OpTimeout)

\* What a caller waits for is on its way, in the queue or in hand.
WaitingIsHeld ==
  \A r \in Request :
    /\ call[r] = "waiting" => future[r] \in {"scheduled", "pending"}
    /\ future[r] = "pending" => Queued(r) \/ InHand(r)

\* A request that had at most one ahead of it never has more.
ShortInFront ==
  \A r \in short :
    /\ future[r] \notin {"none", "scheduled"}
    /\ call[r] = "waiting" =>
         \A i \in 1..Len(queue) : queue[i] = r => i = 1 \/ (i = 2 /\ wpc # "exec")

\* Both timers of such a request outlast what is ahead of it, and that of a
\* thread does before its request is queued.
TimersEnough ==
  \A r \in Request :
    /\ call[r] = "waiting" /\ future[r] = "scheduled" =>
         Enough(r, outerTimer[r], OpTimeout + OpTimeout)
    /\ call[r] = "waiting" /\ r \in short =>
         /\ Enough(r, innerTimer[r], Left(r))
         /\ r \in ThreadRequest => Enough(r, outerTimer[r], Left(r))
    /\ call[r] = "gaveup" /\ (r \in short \/ future[r] = "scheduled") =>
         stalled[r] = InnerExtra

AInv ==
  /\ WInv
  /\ NewIsQuiet
  /\ running => WorkerWaits /\ WaitingIsHeld /\ ShortInFront /\ TimersEnough

\* A request joins the queue: a coroutine that a thread handed over, or one of
\* the loop's own.
Joins(q) ==
  /\ Put(q) /\ future[q] \notin {"pending", "cancelled"}
  /\ UNCHANGED <<wpc, cur, workerTimer, outerTimer>>
  /\ \A s \in Request \ {q} : call'[s] = call[s] /\ stalled'[s] = stalled[s]
  /\ \/ future[q] = "scheduled" /\ call'[q] = call[q] /\ stalled'[q] = stalled[q]
     \/ q \notin ThreadRequest /\ call'[q] = "waiting"

\* The worker is done with what it had in hand.
Turns ==
  /\ wpc = "exec" /\ wpc' = "top" /\ Release
  /\ \E f \in {"result", "error", "timeout"} : SetFuture(cur, f)
  /\ UNCHANGED <<queue, innerTimer, outerTimer, short, stalled>>

\* What becomes of a request while nobody joins the queue or leaves it: nothing,
\* a thread asks, its future is done, or its thread gives up.
Fate(r) ==
  \/ call'[r] = call[r] /\ future'[r] = future[r] /\ outerTimer'[r] = outerTimer[r]
  \/ /\ call[r] = "idle" /\ call'[r] = "waiting"
     /\ future'[r] = "scheduled" /\ outerTimer'[r] = OuterLimit
  \/ /\ future[r] = "pending" /\ future'[r] \notin {"none", "scheduled", "pending"}
     /\ call'[r] # "waiting"
     /\ call'[r] = "gaveup" => call[r] = "gaveup" \/ innerTimer[r] = 0
  \/ OuterDue(r) /\ call'[r] = "gaveup" /\ future'[r] = future[r]

Waits ==
  /\ UNCHANGED <<queue, cur, innerTimer, short, stalled>>
  /\ UNCHANGED <<wpc, workerTimer>> \/ {wpc, wpc'} \subseteq {"top", "get"}
  /\ \A r \in Request : Fate(r)

\* While the worker runs, a step is one of these.
LEMMA RunningStep ==
  ASSUME WInv, Next, running, running'
  PROVE  Tick \/ (\E q \in Request : Joins(q)) \/ TakeRequest \/ Turns \/ Waits
<1> USE DEF WInv, TypeOK, RequestsType, TimersType
<1>0. phase = "up"
  BY DEF LifeKnown
<1>1. ASSUME NEW r \in Request, CallFromThread(r) PROVE Waits
  BY <1>1 DEF CallFromThread, Waits, Fate, Idle, syncVars, history
<1>2. ASSUME NEW r \in Request, CallOnTheLoop(r) PROVE Waits
  BY <1>2 DEF CallOnTheLoop, Waits, Fate, Idle, syncVars, history
<1>3. ASSUME NEW r \in Request, CallFromLoop(r) PROVE Joins(r)
  BY <1>3 DEF CallFromLoop, Joins, Idle
<1>4. ASSUME NEW r \in Request, RunCoroutine(r) PROVE Joins(r)
  BY <1>4 DEF RunCoroutine, Joins
<1>5. ASSUME NEW r \in Request, InnerTimeout(r) PROVE Waits
  BY <1>5 DEF InnerTimeout, CancelFuture, Waits, Fate, CallFollows, timers, history
<1>6. ASSUME NEW r \in Request, OuterTimeout(r) PROVE Waits
  BY <1>6 DEF OuterTimeout, OuterDue, Waits, Fate, loopVars, timers, history
<1>7. ASSUME NEW r \in Request, CallerCancels(r) PROVE Waits
  BY <1>7 DEF CallerCancels, CancelFuture, Waits, Fate, CallFollows, timers, history
<1>8. ASSUME LoopTop \/ PollTimesOut PROVE Waits
  BY <1>8 DEF LoopTop, PollTimesOut, Waits, Fate, timers, history
<1>9. ASSUME OpAnswered \/ OpTimesOut PROVE Turns
  BY <1>9 DEF OpAnswered, OpTimesOut, Answered, Turns, Release, history
<1>10. ASSUME NEW r \in Request, ExecutorTakes(r) \/ OpEnds(r) PROVE Waits
  BY <1>10 DEF ExecutorTakes, OpEnds, Waits, Fate, loopVars, timers, history
<1>11. ASSUME SyncBegins PROVE \E q \in Request : Joins(q)
  BY <1>11 DEF SyncBegins, Joins, Idle
<1>12. ASSUME SyncContinues PROVE Waits \/ \E q \in Request : Joins(q)
  <2>1. syncReq \in Request \ ThreadRequest
    BY <1>12 DEF SyncContinues, SyncKnown
  <2>2. CASE call[syncReq] = "result" /\ Put(syncReq) /\ call' = [call EXCEPT ![syncReq] = "waiting"]
             /\ stalled' = [stalled EXCEPT ![syncReq] = 0]
    BY <1>12, <2>1, <2>2 DEF SyncContinues, Joins, CallFollows
  <2>3. CASE UNCHANGED <<call, queue, future, innerTimer, history>>
    BY <1>12, <2>3 DEF SyncContinues, Waits, Fate, history
  <2> QED
    BY <1>12, <2>2, <2>3 DEF SyncContinues
<1>13. ASSUME SyncPersists \/ HeartbeatProbes \/ WorkEnds PROVE Waits
  BY <1>13 DEF SyncPersists, HeartbeatProbes, WorkEnds, Waits, Fate, loopVars, history
<1>14. ~Lifespan
  BY <1>0 DEF Lifespan, Start, StopBegins, StopEnds, LoopCloses, LoopCancels
<1> QED
  BY <1>1, <1>2, <1>3, <1>4, <1>5, <1>6, <1>7, <1>8, <1>9, <1>10, <1>11, <1>12, <1>13,
     <1>14 DEF Next, Loop, Caller, Executor

AheadInv == WorkerWaits /\ WaitingIsHeld /\ ShortInFront /\ TimersEnough

\* What is left to wait for is a number.
LEMMA LeftTyped ==
  ASSUME WInv, NEW r \in Request
  PROVE  Left(r) \in Nat
BY ConstantsTyped DEF WInv, TypeOK, TimersType, Left

LEMMA JoinsStep ==
  ASSUME WInv, WInv', AheadInv, NEW q \in Request, Joins(q)
  PROVE  AheadInv'
<1> USE DEF WInv, TypeOK, RequestsType, TimersType, LoopType
<1>1. /\ queue \in Seq(Request) /\ queue' = Append(queue, q)
      /\ Len(queue) \in Nat /\ Len(queue') = Len(queue) + 1
      /\ queue'[Len(queue) + 1] = q
      /\ \A i \in 1..Len(queue) : queue'[i] = queue[i] /\ queue[i] # q
      /\ \A i \in 1..Len(queue') : i \in 1..Len(queue) \/ i = Len(queue) + 1
  <2>1. queue \in Seq(Request) /\ queue' = Append(queue, q)
    BY DEF Joins, Put
  <2>2. \A i \in 1..Len(queue) : queue[i] # q
    BY DEF Joins, QueueClean
  <2>3. /\ Len(queue) \in Nat /\ Len(queue') = Len(queue) + 1
        /\ queue'[Len(queue) + 1] = q
        /\ \A i \in 1..Len(queue) : queue'[i] = queue[i]
    <3> HIDE DEF WInv, TypeOK, RequestsType, TimersType, LoopType
    <3> QED
      BY <2>1, GrownQueue
  <2>4. \A i \in 1..Len(queue') : i \in 1..Len(queue) \/ i = Len(queue) + 1
    <3> HIDE DEF WInv, TypeOK, RequestsType, TimersType, LoopType
    <3> QED
      BY <2>3
  <2> QED
    BY <2>1, <2>2, <2>3, <2>4
<1>2. ~InHand(q) /\ ~InHand(q)'
  BY DEF Joins, HandKnown, InHand
<1>3. /\ future' = [future EXCEPT ![q] = "pending"]
      /\ innerTimer' = [innerTimer EXCEPT ![q] = InnerLimit]
      /\ short' \subseteq short \cup {q}
      /\ UNCHANGED <<wpc, cur, workerTimer, outerTimer>>
      /\ \A s \in Request \ {q} : call'[s] = call[s] /\ stalled'[s] = stalled[s]
  BY DEF Joins, Put
<1>4. q \in short' => Len(queue) = 0 \/ (Len(queue) = 1 /\ wpc # "exec")
  <2> DEFINE n == Len(queue)
  <2>1. n \in Nat
    BY <1>1
  <2>2. q \in short' => n + (IF wpc = "exec" THEN 1 ELSE 0) =< 1
    BY DEF Joins, Put, Ahead
  <2>3. q \in short' => n = 0 \/ (n = 1 /\ wpc # "exec")
    <3> HIDE DEF n
    <3> QED
      BY <2>1, <2>2
  <2> QED
    BY <2>3
<1>5. WorkerWaits'
  BY <1>3 DEF AheadInv, WorkerWaits
<1>6. WaitingIsHeld'
  <2>1. ASSUME NEW s \in Request, s # q, call'[s] = "waiting"
        PROVE  future'[s] \in {"scheduled", "pending"}
    BY <1>3, <2>1 DEF AheadInv, WaitingIsHeld
  <2>2. ASSUME NEW s \in Request, s # q, future'[s] = "pending"
        PROVE  Queued(s)' \/ InHand(s)'
    BY <1>1, <1>3, <2>2 DEF AheadInv, WaitingIsHeld, Queued, InHand
  <2>3. future'[q] = "pending" /\ Queued(q)'
    BY <1>1, <1>3 DEF Queued
  <2> QED
    BY <2>1, <2>2, <2>3 DEF WaitingIsHeld
<1>7. ShortInFront'
  <2> SUFFICES ASSUME NEW s \in short'
               PROVE  /\ future'[s] \notin {"none", "scheduled"}
                      /\ call'[s] = "waiting" =>
                           \A i \in 1..Len(queue') :
                             queue'[i] = s => i = 1 \/ (i = 2 /\ wpc' # "exec")
    BY DEF ShortInFront
  <2>1. CASE s = q
    <3>1. \A i \in 1..Len(queue') : queue'[i] = s => i = Len(queue) + 1
      BY <1>1, <2>1
    <3>2. future'[s] = "pending" /\ wpc' = wpc
      BY <1>3, <2>1
    <3>3. ASSUME NEW i \in 1..Len(queue'), queue'[i] = s
          PROVE  i = 1 \/ (i = 2 /\ wpc' # "exec")
      <4>1. i = Len(queue) + 1 /\ (Len(queue) = 0 \/ (Len(queue) = 1 /\ wpc' # "exec"))
        BY <1>4, <2>1, <3>1, <3>2, <3>3
      <4> HIDE DEF WInv, TypeOK, RequestsType, TimersType, LoopType
      <4> DEFINE n == Len(queue)
      <4>2. i = n + 1 /\ (n = 0 \/ (n = 1 /\ wpc' # "exec"))
        BY <4>1
      <4> HIDE DEF n
      <4> QED
        BY <4>2
    <3> QED
      BY <3>2, <3>3
  <2>2. CASE s # q
    <3>1. s \in short /\ s \in Request
      BY <1>3, <2>2
    <3>2. \A i \in 1..Len(queue') : queue'[i] = s => i \in 1..Len(queue) /\ queue[i] = s
      BY <1>1, <2>2
    <3> QED
      BY <1>3, <2>2, <3>1, <3>2 DEF AheadInv, ShortInFront
  <2> QED
    BY <2>1, <2>2
<1>8. TimersEnough'
  <2>1. ASSUME NEW s \in Request, s # q, call[s] = "waiting", s \in short
        PROVE  Left(s)' = Left(s)
    <3>1. Queued(s) \/ InHand(s)
      BY <2>1 DEF AheadInv, WaitingIsHeld, ShortInFront
    <3>2. Queued(s) => queue'[1] = queue[1]
      BY <1>1 DEF Queued
    <3> QED
      BY <1>3, <3>1, <3>2 DEF Left, InHand
  <2>2. ASSUME NEW s \in Request, s # q
        PROVE  /\ call'[s] = "waiting" /\ future'[s] = "scheduled" =>
                    Enough(s, outerTimer[s], OpTimeout + OpTimeout)'
               /\ call'[s] = "waiting" /\ s \in short' =>
                    /\ Enough(s, innerTimer[s], Left(s))'
                    /\ s \in ThreadRequest => Enough(s, outerTimer[s], Left(s))'
               /\ call'[s] = "gaveup" /\ (s \in short' \/ future'[s] = "scheduled") =>
                    stalled'[s] = InnerExtra
    <3>1. /\ call'[s] = call[s] /\ stalled'[s] = stalled[s] /\ future'[s] = future[s]
          /\ innerTimer'[s] = innerTimer[s] /\ outerTimer'[s] = outerTimer[s]
          /\ s \in short' => s \in short
      BY <1>3, <2>2
    <3> QED
      BY <2>1, <2>2, <3>1 DEF AheadInv, TimersEnough, Enough
  <2>3. q \in short' => Left(q)' =< OpTimeout + OpTimeout /\ Left(q)' \in Nat
    <3>1. q \in short' /\ wpc = "exec" => queue'[1] = q /\ workerTimer =< OpTimeout
      BY <1>1, <1>4 DEF AheadInv, WorkerWaits
    <3> QED
      BY <1>2, <1>3, <3>1, ConstantsTyped DEF Left, InHand
  <2>4. q \in short' => Enough(q, innerTimer[q], Left(q))'
    <3>1. innerTimer'[q] = CallTimeout + OpTimeout + InnerExtra /\ OpTimeout =< CallTimeout
      BY <1>3, ConstantsAssumption DEF InnerLimit, Slack, ConstantsAssumption
    <3>2. stalled'[q] \in Nat
      BY ConstantsTyped
    <3> QED
      BY <2>3, <3>1, <3>2, ConstantsTyped DEF Enough
  <2>5. q \in short' /\ call'[q] = "waiting" /\ q \in ThreadRequest =>
          Enough(q, outerTimer[q], Left(q))'
    <3>1. call'[q] = "waiting" /\ q \in ThreadRequest =>
            /\ Enough(q, outerTimer[q], OpTimeout + OpTimeout)
            /\ stalled'[q] = stalled[q]
      BY DEF Joins, AheadInv, TimersEnough
    <3>2. stalled[q] \in Nat /\ outerTimer[q] \in Nat /\ outerTimer'[q] = outerTimer[q]
      BY <1>3, ConstantsTyped
    <3> QED
      BY <2>3, <3>1, <3>2, ConstantsTyped DEF Enough
  <2>6. call'[q] = "gaveup" => stalled'[q] = InnerExtra
    BY DEF Joins, AheadInv, TimersEnough
  <2>7. future'[q] = "pending"
    BY <1>3
  <2>8. \A s \in Request : 
          /\ call'[s] = "waiting" /\ future'[s] = "scheduled" =>
               Enough(s, outerTimer[s], OpTimeout + OpTimeout)'
          /\ call'[s] = "waiting" /\ s \in short' =>
               /\ Enough(s, innerTimer[s], Left(s))'
               /\ s \in ThreadRequest => Enough(s, outerTimer[s], Left(s))'
          /\ call'[s] = "gaveup" /\ (s \in short' \/ future'[s] = "scheduled") =>
               stalled'[s] = InnerExtra
    BY <2>2, <2>4, <2>5, <2>6, <2>7
  <2> QED
    BY <2>8 DEF TimersEnough, Enough
<1> QED
  BY <1>5, <1>6, <1>7, <1>8 DEF AheadInv

\* Left of a request that is still waited for, by where it is.
LEMMA LeftKnown ==
  ASSUME WInv, AheadInv, NEW s \in short, call[s] = "waiting"
  PROVE  /\ future[s] = "pending"
         /\ InHand(s) \/ (Queued(s) /\ Len(queue) \in Nat \ {0} /\ cur # s)
         /\ InHand(s) => Left(s) = workerTimer
         /\ Queued(s) /\ queue[1] = s /\ wpc = "exec" => Left(s) = workerTimer + OpTimeout
         /\ Queued(s) /\ queue[1] = s /\ wpc # "exec" => Left(s) = OpTimeout
         /\ Queued(s) /\ queue[1] # s =>
              /\ wpc # "exec" /\ Left(s) = OpTimeout + OpTimeout
              /\ Len(queue) >= 2 /\ queue[2] = s
<1>1. s \in Request /\ queue \in Seq(Request) /\ workerTimer \in Nat /\ OpTimeout \in Nat
  BY ConstantsTyped DEF WInv, TypeOK, RequestsType, LoopType, TimersType
<1>2. future[s] = "pending" /\ (Queued(s) \/ InHand(s))
  BY <1>1 DEF AheadInv, WaitingIsHeld, ShortInFront
<1>3. Queued(s) => Len(queue) \in Nat \ {0} /\ cur # s
  BY <1>1 DEF Queued, WInv, QueueClean
<1>4. Queued(s) /\ queue[1] # s => wpc # "exec" /\ Len(queue) >= 2 /\ queue[2] = s
  <2> SUFFICES ASSUME NEW i \in 1..Len(queue), queue[i] = s, queue[1] # s
               PROVE  wpc # "exec" /\ Len(queue) >= 2 /\ queue[2] = s
    BY DEF Queued
  <2>1. i = 2 /\ wpc # "exec"
    BY DEF AheadInv, ShortInFront
  <2>2. Len(queue) \in Nat
    BY <1>1
  <2> QED
    BY <2>1, <2>2
<1>5. InHand(s) => Left(s) = workerTimer
  BY DEF Left
<1>6. Queued(s) => ~InHand(s)
  BY <1>3 DEF InHand
<1>7. Queued(s) /\ queue[1] = s /\ wpc = "exec" => Left(s) = workerTimer + OpTimeout
  BY <1>6 DEF Left
<1>8. Queued(s) /\ queue[1] = s /\ wpc # "exec" => Left(s) = OpTimeout
  BY <1>1, <1>6 DEF Left
<1>9. Queued(s) /\ queue[1] # s => Left(s) = OpTimeout + OpTimeout
  BY <1>1, <1>4, <1>6 DEF Left
<1> QED
  BY <1>2, <1>3, <1>4, <1>5, <1>7, <1>8, <1>9

\* It suffices that no timer of a request changes, nor what the loop was
\* occupied for, and that no more is left of what is ahead of it.
LEMMA TimersKept ==
  ASSUME WInv, WInv', TimersEnough,
         UNCHANGED <<innerTimer, short, stalled>>,
         \A r \in Request : Fate(r),
         \A r \in short : call[r] = "waiting" /\ call'[r] = "waiting" =>
           Left(r)' =< Left(r),
         InnerExtra =< OuterExtra,
         \A r \in short : future[r] \notin {"none", "scheduled"}
  PROVE  TimersEnough'
<1> USE ConstantsTyped
<1> SUFFICES ASSUME NEW r \in Request
             PROVE  /\ call'[r] = "waiting" /\ future'[r] = "scheduled" =>
                         Enough(r, outerTimer[r], OpTimeout + OpTimeout)'
                    /\ call'[r] = "waiting" /\ r \in short =>
                         /\ Enough(r, innerTimer[r], Left(r))'
                         /\ r \in ThreadRequest => Enough(r, outerTimer[r], Left(r))'
                    /\ call'[r] = "gaveup" /\ (r \in short \/ future'[r] = "scheduled") =>
                         stalled'[r] = InnerExtra
  BY DEF TimersEnough, Enough
<1>1. /\ stalled[r] \in 0..InnerExtra /\ innerTimer[r] \in Nat /\ outerTimer[r] \in Nat
      /\ Left(r) \in Nat /\ Left(r)' \in Nat /\ outerTimer'[r] \in Nat
      /\ stalled'[r] = stalled[r] /\ innerTimer'[r] = innerTimer[r]
  <2>1. Left(r) \in Nat
    BY LeftTyped
  <2>2. Left(r)' \in Nat
    BY DEF WInv, TypeOK, TimersType, Left
  <2> QED
    BY <2>1, <2>2 DEF WInv, TypeOK, RequestsType, TimersType
<1>2. /\ call[r] = "idle" => future[r] = "none"
      /\ future[r] = "pending" => call[r] \in {"waiting", "gaveup"}
  BY DEF WInv, CallFollows
<1>3. CASE call'[r] = call[r] /\ future'[r] = future[r] /\ outerTimer'[r] = outerTimer[r]
  BY <1>1, <1>3 DEF TimersEnough, Enough
<1>4. CASE /\ call[r] = "idle" /\ call'[r] = "waiting"
           /\ future'[r] = "scheduled" /\ outerTimer'[r] = OuterLimit
  <2>1. OuterLimit >= InnerExtra + (OpTimeout + OpTimeout)
    BY ConstantsAssumption DEF OuterLimit, Slack, ConstantsAssumption
  <2> QED
    BY <1>1, <1>2, <1>4, <2>1 DEF Enough
<1>5. CASE /\ future[r] = "pending" /\ future'[r] \notin {"none", "scheduled", "pending"}
           /\ call'[r] # "waiting"
           /\ call'[r] = "gaveup" => call[r] = "gaveup" \/ innerTimer[r] = 0
  <2>1. call'[r] = "gaveup" /\ r \in short => stalled[r] = InnerExtra
    BY <1>1, <1>2, <1>5 DEF TimersEnough, Enough
  <2> QED
    BY <1>1, <1>5, <2>1
<1>6. CASE OuterDue(r) /\ call'[r] = "gaveup" /\ future'[r] = future[r]
  <2>1. r \in ThreadRequest /\ call[r] = "waiting" /\ outerTimer[r] = 0
    BY <1>6 DEF OuterDue
  <2>2. r \in short => stalled[r] = InnerExtra
    <3>1. r \in short => Enough(r, outerTimer[r], Left(r))
      BY <2>1 DEF TimersEnough
    <3> QED
      BY <1>1, <2>1, <3>1 DEF Enough
  <2>3. future[r] = "scheduled" => stalled[r] = InnerExtra
    BY <1>1, <2>1 DEF TimersEnough, Enough
  <2> QED
    BY <1>1, <1>6, <2>2, <2>3
<1> QED
  BY <1>3, <1>4, <1>5, <1>6 DEF Fate

LEMMA WaitsStep ==
  ASSUME WInv, WInv', AheadInv, Waits, wpc' # "off", InnerExtra =< OuterExtra
  PROVE  AheadInv'
<1>1. /\ UNCHANGED <<queue, cur, innerTimer, short, stalled>>
      /\ UNCHANGED <<wpc, workerTimer>> \/ {wpc, wpc'} \subseteq {"top", "get"}
      /\ \A r \in Request : Fate(r)
  BY DEF Waits
<1>2. \A r : InHand(r)' = InHand(r) /\ Queued(r)' = Queued(r)
  BY <1>1 DEF InHand, Queued
<1>3. WorkerWaits'
  BY <1>1 DEF AheadInv, WorkerWaits
<1>4. WaitingIsHeld'
  BY <1>1, <1>2 DEF AheadInv, WaitingIsHeld, Fate, OuterDue
<1>5. ShortInFront'
  <2>1. \A s \in short : s \in Request /\ Fate(s) /\ (call[s] = "idle" => future[s] = "none")
    BY <1>1 DEF WInv, TypeOK, RequestsType, CallFollows
  <2> QED
    BY <1>1, <2>1 DEF AheadInv, ShortInFront, Fate, OuterDue
<1>6. \A r \in Request : Left(r)' = Left(r)
  BY <1>1, <1>2 DEF Left, InHand
<1>7. TimersEnough'
  <2>1. \A r \in short : Left(r)' =< Left(r)
    BY <1>6, LeftTyped DEF WInv, TypeOK, RequestsType
  <2> QED
    BY <1>1, <2>1, TimersKept DEF AheadInv, ShortInFront
<1> QED
  BY <1>3, <1>4, <1>5, <1>7 DEF AheadInv

LEMMA TurnsStep ==
  ASSUME WInv, WInv', AheadInv, Turns, InnerExtra =< OuterExtra
  PROVE  AheadInv'
<1>1. /\ wpc = "exec" /\ wpc' = "top" /\ cur' = NoRequest /\ workerTimer' = 0
      /\ UNCHANGED <<queue, innerTimer, outerTimer, short, stalled>>
  BY DEF Turns, Release
<1>2. cur \in Request /\ cur # NoRequest /\ future[cur] \in {"pending", "cancelled"}
  BY <1>1, ConstantsAssumption DEF WInv, HandKnown, ConstantsAssumption
<1>3. /\ \A r \in Request \ {cur} : call'[r] = call[r] /\ future'[r] = future[r]
      /\ future[cur] = "cancelled" => call'[cur] = call[cur] /\ future'[cur] = "cancelled"
      /\ future[cur] = "pending" =>
           /\ future'[cur] \in {"result", "error", "timeout"}
           /\ call'[cur] = call[cur] \/ call'[cur] \in {"result", "error", "timeout"}
           /\ call'[cur] # "waiting"
  <2>1. PICK f \in {"result", "error", "timeout"} : SetFuture(cur, f)
    BY DEF Turns
  <2> QED
    BY <1>2, <2>1 DEF SetFuture, WInv, TypeOK, RequestsType
<1>4. future[cur] = "cancelled" => call[cur] # "waiting"
  BY <1>2 DEF WInv, CallFollows
<1>5. WorkerWaits'
  BY <1>1 DEF WorkerWaits
<1>6. WaitingIsHeld'
  BY <1>1, <1>2, <1>3, <1>4 DEF AheadInv, WaitingIsHeld, Queued, InHand
<1>7. ShortInFront'
  <2>1. short \subseteq Request
    BY DEF WInv, TypeOK, RequestsType
  <2> QED
    BY <1>1, <1>2, <1>3, <1>4, <2>1 DEF AheadInv, ShortInFront
<1>8. TimersEnough'
  <2>1. ASSUME NEW r \in short, call[r] = "waiting", call'[r] = "waiting"
        PROVE  Left(r)' =< Left(r)
    <3>0. workerTimer \in Nat /\ OpTimeout \in Nat /\ r \in Request /\ r # NoRequest
      BY <1>2, ConstantsTyped, ConstantsAssumption
         DEF WInv, TypeOK, TimersType, RequestsType, ConstantsAssumption
    <3>1. ~InHand(r)
      BY <1>1, <1>2, <1>3, <1>4, <2>1 DEF InHand
    <3>2. Left(r) = workerTimer + (IF queue[1] = r THEN OpTimeout ELSE OpTimeout + OpTimeout)
      BY <1>1, <3>1 DEF Left
    <3>3. Left(r)' = 0 + (IF queue[1] = r THEN OpTimeout ELSE OpTimeout + OpTimeout)
      BY <1>1, <3>0 DEF Left, InHand
    <3> QED
      BY <3>0, <3>2, <3>3
  <2>2. \A r \in Request : Fate(r)
    BY <1>1, <1>2, <1>3 DEF Fate, WInv, CallFollows
  <2>3. \A r \in short : future[r] \notin {"none", "scheduled"}
    BY DEF AheadInv, ShortInFront
  <2> QED
    BY <1>1, <2>1, <2>2, <2>3, TimersKept DEF AheadInv
<1> QED
  BY <1>5, <1>6, <1>7, <1>8 DEF AheadInv

LEMMA TakeStep ==
  ASSUME WInv, WInv', AheadInv, TakeRequest, InnerExtra =< OuterExtra
  PROVE  AheadInv'
<1>1. /\ wpc = "get" /\ queue # <<>>
      /\ Len(queue) \in Nat \ {0} /\ queue' = Tail(queue) /\ Head(queue) = queue[1]
      /\ Len(queue') = Len(queue) - 1
      /\ \A i \in 1..Len(queue') : i + 1 \in 1..Len(queue) /\ queue'[i] = queue[i + 1]
      /\ UNCHANGED <<call, future, innerTimer, outerTimer, short, stalled>>
  <2>1. queue \in Seq(Request) /\ queue # <<>> /\ queue' = Tail(queue)
    BY DEF TakeRequest, WInv, TypeOK, LoopType
  <2> QED
    BY <2>1, TakenQueue DEF TakeRequest, history
<1>2. \/ future[queue[1]] = "cancelled" /\ wpc' = "top" /\ cur' = cur
      \/ wpc' = "exec" /\ cur' = queue[1] /\ workerTimer' = OpTimeout
  BY <1>1 DEF TakeRequest
<1>3. \A i, j \in 1..Len(queue) : queue[i] = queue[j] => i = j
  BY DEF WInv, QueueClean
<1>4. \A s \in Request : Queued(s) => queue[1] = s \/ Queued(s)'
  <2> SUFFICES ASSUME NEW i \in 1..Len(queue), queue[1] # queue[i]
               PROVE  \E j \in 1..Len(queue') : queue'[j] = queue[i]
    BY DEF Queued
  <2>1. i - 1 \in 1..Len(queue') /\ (i - 1) + 1 = i
    BY <1>1
  <2> QED
    BY <1>1, <2>1
<1>5. WorkerWaits'
  BY <1>2, ConstantsTyped DEF WorkerWaits
<1>6. WaitingIsHeld'
  BY <1>1, <1>2, <1>4 DEF AheadInv, WaitingIsHeld, InHand
<1>7. ShortInFront'
  <2> SUFFICES ASSUME NEW s \in short, call[s] = "waiting",
                      NEW i \in 1..Len(queue'), queue'[i] = s
               PROVE  i = 1
    BY <1>1 DEF AheadInv, ShortInFront
  <2>1. i + 1 \in 1..Len(queue) /\ queue[i + 1] = s
    BY <1>1
  <2>2. i + 1 = 1 \/ i + 1 = 2
    BY <2>1 DEF AheadInv, ShortInFront
  <2> QED
    BY <2>2
<1>8. TimersEnough'
  <2>1. ASSUME NEW r \in short, call[r] = "waiting"
        PROVE  Left(r)' =< Left(r)
    <3>1. r \in Request /\ OpTimeout \in Nat /\ cur = NoRequest /\ r # NoRequest
      BY <1>1, ConstantsTyped, ConstantsAssumption
         DEF WInv, TypeOK, RequestsType, HandKnown, ConstantsAssumption
    <3>2. Queued(r) /\ ~InHand(r) /\ future[r] = "pending"
      BY <1>1, <2>1, LeftKnown DEF InHand
    <3>3. CASE queue[1] = r
      <4>1. Left(r) = OpTimeout
        BY <1>1, <2>1, <3>2, <3>3, LeftKnown
      <4>2. InHand(r)' /\ workerTimer' = OpTimeout
        BY <1>2, <3>2, <3>3 DEF InHand
      <4> QED
        BY <3>1, <4>1, <4>2 DEF Left
    <3>4. CASE queue[1] # r
      <4>1. Left(r) = OpTimeout + OpTimeout /\ Len(queue) >= 2 /\ queue[2] = r
        BY <1>1, <2>1, <3>2, <3>4, LeftKnown
      <4>2. queue'[1] = r
        <5>1. 1 \in 1..Len(queue')
          BY <1>1, <4>1
        <5> QED
          BY <1>1, <4>1, <5>1
      <4>3. ~InHand(r)'
        BY <1>2, <3>1, <3>4 DEF InHand
      <4>4. Left(r)' = (IF wpc' = "exec" THEN workerTimer' ELSE 0) + OpTimeout
        BY <4>2, <4>3 DEF Left
      <4> QED
        BY <1>2, <3>1, <4>1, <4>4
    <3> QED
      BY <3>3, <3>4
  <2>2. \A r \in Request : Fate(r)
    BY <1>1 DEF Fate
  <2>3. \A r \in short : future[r] \notin {"none", "scheduled"}
    BY DEF AheadInv, ShortInFront
  <2> QED
    BY <1>1, <2>1, <2>2, <2>3, TimersKept DEF AheadInv
<1> QED
  BY <1>5, <1>6, <1>7, <1>8 DEF AheadInv

\* Time passes while the loop is occupied, or while it waits for what is in
\* hand.
LEMMA TickStep ==
  ASSUME WInv, WInv', AheadInv, Tick, running
  PROVE  AheadInv'
<1>1. /\ UNCHANGED <<phase, running, queue, wpc, cur, syncVars>>
      /\ \A r \in Request : ~OuterDue(r)
      /\ LoopFree => ~Ready
      /\ workerTimer' = Down(workerTimer) /\ workerTimer \in Nat
      /\ short' = {r \in short : Watched(r)} /\ short \subseteq Request
  BY DEF Tick, WInv, TypeOK, TimersType, RequestsType
<1>2. \A r \in Request :
        /\ Over(r) => call'[r] = "idle" /\ future'[r] = "none"
        /\ ~Over(r) => call'[r] = call[r] /\ future'[r] = future[r]
        /\ innerTimer'[r] = IF future[r] = "pending" THEN Down(innerTimer[r]) ELSE 0
        /\ outerTimer'[r] = IF call[r] = "waiting" THEN Down(outerTimer[r]) ELSE 0
        /\ Watched(r) =>
             stalled'[r] = IF occupied # NoRequest /\ call[r] = "waiting" /\ stalled[r] < InnerExtra
                           THEN stalled[r] + 1 ELSE stalled[r]
  BY DEF Tick
<1>3. /\ \A r : InHand(r)' = InHand(r) /\ Queued(r)' = Queued(r)
      /\ \A r \in Request : call[r] = "waiting" => ~Over(r) /\ Watched(r)
  BY <1>1 DEF InHand, Queued, Over, Watched
<1>4. workerTimer' \in Nat /\ workerTimer' =< workerTimer
  BY <1>1 DEF Down
<1>5. WorkerWaits'
  BY <1>1, <1>4, ConstantsTyped DEF AheadInv, WorkerWaits
<1>6. WaitingIsHeld'
  BY <1>1, <1>2, <1>3 DEF AheadInv, WaitingIsHeld
<1>7. ShortInFront'
  BY <1>1, <1>2, <1>3 DEF AheadInv, ShortInFront, Watched
<1>8. TimersEnough'
  <2> SUFFICES ASSUME NEW r \in Request, ~Over(r)
               PROVE  /\ call[r] = "waiting" /\ future[r] = "scheduled" =>
                           Enough(r, outerTimer[r], OpTimeout + OpTimeout)'
                      /\ call[r] = "waiting" /\ r \in short =>
                           /\ Enough(r, innerTimer[r], Left(r))'
                           /\ r \in ThreadRequest => Enough(r, outerTimer[r], Left(r))'
                      /\ call[r] = "gaveup" /\ (r \in short \/ future[r] = "scheduled") =>
                           stalled'[r] = InnerExtra
    BY <1>1, <1>2 DEF TimersEnough, Enough
  <2>1. /\ stalled[r] \in 0..InnerExtra /\ innerTimer[r] \in Nat /\ outerTimer[r] \in Nat
        /\ InnerExtra \in Nat /\ OpTimeout \in Nat
    BY ConstantsTyped DEF WInv, TypeOK, RequestsType, TimersType
  <2>2. CASE call[r] = "gaveup"
    <3>1. Watched(r)
      BY <2>2 DEF Watched
    <3> QED
      BY <1>2, <2>2, <3>1 DEF AheadInv, TimersEnough
  <2>3. CASE call[r] = "waiting" /\ occupied # NoRequest
    <3>1. \/ stalled[r] = InnerExtra /\ stalled'[r] = InnerExtra
          \/ stalled[r] < InnerExtra /\ stalled'[r] = stalled[r] + 1
      BY <1>2, <1>3, <2>1, <2>3
    <3>2. outerTimer'[r] \in Nat /\ outerTimer'[r] + 1 >= outerTimer[r]
      BY <1>2, <2>1, <2>3 DEF Down
    <3>3. CASE future[r] = "scheduled"
      BY <2>1, <2>3, <3>1, <3>2, <3>3 DEF AheadInv, TimersEnough, Enough, ShortInFront
    <3>4. CASE r \in short
      <4>1. future[r] = "pending"
        BY <2>3, <3>4, LeftKnown
      <4>2. innerTimer'[r] \in Nat /\ innerTimer'[r] + 1 >= innerTimer[r]
        BY <1>2, <2>1, <4>1 DEF Down
      <4>3. Left(r) \in Nat /\ Left(r)' \in Nat /\ Left(r)' =< Left(r)
        BY <1>1, <1>3, <1>4, <2>1 DEF Left
      <4>4. Enough(r, innerTimer[r], Left(r))
            /\ (r \in ThreadRequest => Enough(r, outerTimer[r], Left(r)))
        BY <2>3, <3>4 DEF AheadInv, TimersEnough
      <4> QED
        BY <2>1, <2>3, <3>1, <3>2, <4>1, <4>2, <4>3, <4>4 DEF Enough
    <3> QED
      BY <2>3, <3>3, <3>4
  <2>4. CASE call[r] = "waiting" /\ occupied = NoRequest
    <3>1. ~Ready
      BY <1>1, <2>4 DEF LoopFree, WInv, LifeKnown
    <3>2. stalled'[r] = stalled[r] /\ future[r] # "scheduled"
      BY <1>2, <1>3, <2>4, <3>1 DEF Ready
    <3>3. ASSUME r \in short
          PROVE  /\ Enough(r, innerTimer[r], Left(r))'
                 /\ r \in ThreadRequest => Enough(r, outerTimer[r], Left(r))'
      <4>1. future[r] = "pending" /\ innerTimer[r] # 0
        BY <2>4, <3>1, <3>3, LeftKnown DEF Ready
      <4>2. r \in ThreadRequest => outerTimer[r] # 0
        BY <1>1, <2>4 DEF OuterDue
      <4>3. wpc = "exec" /\ workerTimer # 0
        <5>1. InHand(r) \/ (Queued(r) /\ Len(queue) # 0)
          BY <2>4, <3>3, LeftKnown
        <5>2. Len(queue) # 0 => queue # <<>>
          OBVIOUS
        <5> QED
          BY <3>1, <5>1, <5>2 DEF Ready, InHand, AheadInv, WorkerWaits, WInv, TypeOK, LoopType
      <4>4. Left(r) \in Nat /\ Left(r)' = Left(r) - 1
        BY <1>1, <1>3, <2>1, <4>3 DEF Left, Down
      <4>5. /\ innerTimer'[r] = innerTimer[r] - 1
            /\ r \in ThreadRequest => outerTimer'[r] = outerTimer[r] - 1
        BY <1>2, <2>1, <2>4, <4>1, <4>2 DEF Down
      <4>6. Enough(r, innerTimer[r], Left(r))
            /\ (r \in ThreadRequest => Enough(r, outerTimer[r], Left(r)))
        BY <2>4, <3>3 DEF AheadInv, TimersEnough
      <4> QED
        BY <2>1, <3>2, <4>4, <4>5, <4>6 DEF Enough
    <3> QED
      BY <2>4, <3>2, <3>3
  <2> QED
    BY <2>2, <2>3, <2>4
<1> QED
  BY <1>5, <1>6, <1>7, <1>8 DEF AheadInv

\* Nothing is asked before the start.
LEMMA NewStep ==
  ASSUME WInv, NewIsQuiet, Next
  PROVE  NewIsQuiet'
<1> SUFFICES ASSUME phase' = "new"
             PROVE  /\ queue' = <<>> /\ short' = {} /\ syncPc' = "none"
                    /\ \A r \in Request :
                         call'[r] \in {"idle", "refused"} /\ future'[r] = "none"
  BY DEF NewIsQuiet
<1>1. phase = "new"
  BY DEF Next, Lifespan, Start, StopBegins, StopEnds, LoopCloses, LoopCancels, Loop, LoopTop,
     PollTimesOut, TakeRequest, OpAnswered, OpTimesOut, SyncBegins, SyncContinues,
     SyncPersists, HeartbeatProbes, WorkEnds, Caller, CallFromThread, CallOnTheLoop,
     CallFromLoop, RunCoroutine, InnerTimeout, OuterTimeout, CallerCancels, Executor,
     ExecutorTakes, OpEnds, Tick
<1>2. /\ queue = <<>> /\ short = {} /\ syncPc = "none"
      /\ \A r \in Request : call[r] \in {"idle", "refused"} /\ future[r] = "none"
      /\ ~running /\ wpc = "off" /\ call \in [Request -> Call]
  BY <1>1 DEF NewIsQuiet, WInv, LifeKnown, TypeOK, RequestsType
<1>3. CASE \E r \in Request : CallFromThread(r) \/ CallFromLoop(r)
  BY <1>2, <1>3 DEF CallFromThread, CallFromLoop, syncVars, history
<1>4. CASE \E r \in Request : ExecutorTakes(r) \/ OpEnds(r)
  BY <1>2, <1>4 DEF ExecutorTakes, OpEnds, loopVars, syncVars, history
<1>5. CASE HeartbeatProbes \/ WorkEnds
  BY <1>2, <1>5 DEF HeartbeatProbes, WorkEnds, loopVars, history
<1>6. CASE Tick
  BY <1>2, <1>6 DEF Tick, syncVars
<1>7. ~(LoopTop \/ PollTimesOut \/ TakeRequest \/ OpAnswered \/ OpTimesOut
        \/ SyncBegins \/ SyncContinues \/ SyncPersists)
  BY <1>2 DEF LoopTop, PollTimesOut, TakeRequest, OpAnswered, OpTimesOut, SyncBegins,
     SyncContinues, SyncPersists
<1>8. ASSUME NEW r \in Request
      PROVE  ~(CallOnTheLoop(r) \/ RunCoroutine(r) \/ InnerTimeout(r) \/ OuterTimeout(r)
               \/ CallerCancels(r))
  BY <1>2 DEF CallOnTheLoop, RunCoroutine, InnerTimeout, OuterTimeout, OuterDue, CallerCancels
<1>9. ~Lifespan
  BY <1>1 DEF Lifespan, Start, StopBegins, StopEnds, LoopCloses, LoopCancels
<1> QED
  BY <1>3, <1>4, <1>5, <1>6, <1>7, <1>8, <1>9 DEF Next, Loop, Caller, Executor

\* Who starts the worker finds nothing asked; who stops it, nothing to keep.
LEMMA AheadStep ==
  ASSUME AInv, [Next]_vars, InnerExtra =< OuterExtra
  PROVE  AInv'
<1>1. WInv /\ WInv' /\ NewIsQuiet
  BY StepInv DEF AInv
<1>2. CASE UNCHANGED vars
  BY <1>1, <1>2
  DEF AInv, NewIsQuiet, WorkerWaits, WaitingIsHeld, ShortInFront, TimersEnough, Enough, Left,
      InHand, Queued, vars, loopVars, syncVars, timers, history
<1>3. CASE Next
  <2>1. NewIsQuiet'
    BY <1>1, <1>3, NewStep
  <2>2. ASSUME running', ~running PROVE AheadInv'
    <3>1. Start
      BY <1>3, <2>2
      DEF Next, Lifespan, StopBegins, StopEnds, LoopCloses, LoopCancels, Loop, LoopTop,
          PollTimesOut, TakeRequest, OpAnswered, OpTimesOut, SyncBegins, SyncContinues,
          SyncPersists, HeartbeatProbes, WorkEnds, Caller, CallFromThread, CallOnTheLoop,
          CallFromLoop, RunCoroutine, InnerTimeout, OuterTimeout, CallerCancels, Executor,
          ExecutorTakes, OpEnds, Tick
    <3>2. /\ wpc' = "top" /\ call' = call /\ future' = future /\ short' = {}
          /\ \A r \in Request : call[r] \in {"idle", "refused"} /\ future[r] = "none"
      BY <1>1, <2>2, <3>1 DEF Start, NewIsQuiet, history
    <3> QED
      BY <3>2 DEF AheadInv, WorkerWaits, WaitingIsHeld, ShortInFront, TimersEnough
  <2>3. ASSUME running', running PROVE AheadInv'
    <3>1. AheadInv
      BY <2>3 DEF AInv, AheadInv
    <3>2. Tick \/ (\E q \in Request : Joins(q)) \/ TakeRequest \/ Turns \/ Waits
      BY <1>1, <1>3, <2>3, RunningStep
    <3>3. wpc' # "off"
      BY <3>1, <3>2 DEF AheadInv, WorkerWaits, Tick, Joins, TakeRequest, Turns, Waits
    <3> QED
      BY <1>1, <1>3, <2>3, <3>1, <3>2, <3>3, TickStep, JoinsStep, TakeStep, TurnsStep,
         WaitsStep
  <2> QED
    BY <1>1, <2>1, <2>2, <2>3 DEF AInv, AheadInv
<1> QED
  BY <1>2, <1>3

\* A request that is queued behind at most one other is answered before its
\* caller gives up, whatever the timeouts, as long as the worker runs and no
\* coroutine occupied the loop for as long as the margin: the promise of the
\* comment on _QUEUE_WAIT_SLACK.  A thread's margin has to be no less than that
\* of the coroutine it waits for.
THEOREM OneAheadAnswered ==
  ASSUME InnerExtra =< OuterExtra
  PROVE  Spec => []OneAheadIsAnswered
<1>1. Init => AInv
  <2> SUFFICES ASSUME Init PROVE AInv
    OBVIOUS
  <2>1. WInv
    BY InitInv
  <2> QED
    BY <2>1 DEF Init, AInv, NewIsQuiet
<1>2. AInv /\ [Next]_vars => AInv'
  BY AheadStep
<1>3. AInv => OneAheadIsAnswered
  BY DEF AInv, TimersEnough, OneAheadIsAnswered
<1> QED
  BY <1>1, <1>2, <1>3, PTL DEF Spec
=============================================================================
