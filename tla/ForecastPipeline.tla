-------------------------- MODULE ForecastPipeline --------------------------
(***************************************************************************)
(* One forecast run per thread: the stages of core/pipeline/stages.py and  *)
(* core/meta_label/stage.py for each ticker, as the scheduler, the robot   *)
(* and the endpoints start them (core/forecast_runner.py) without          *)
(* excluding one another; the pending-orders task that activates the same  *)
(* consensus rows; the recalculation of past rows; and the runs table      *)
(* across crashes, starts and writes that fail.                            *)
(*                                                                         *)
(* submit_signal is one step here: OrderSubmission has its inside.  Prices, *)
(* levels and votes are those of SignalPath; here a consensus is a signal  *)
(* and whether its confidence reaches the threshold.                       *)
(***************************************************************************)
EXTENDS Naturals, FiniteSets

CONSTANTS
    Runs,         \* threads that run the pipeline once
    Tickers,
    Configs,      \* [auto, meta, guard, started, votes, refusals, faults], one per
                  \* behaviour
    MaxRows,      \* bound: ids of consensus rows
    Recalcs,      \* {} or the thread of a recalculation of today's rows
    PendingTask   \* the pending-orders task

VARIABLES
    config,       \* AUTO_ORDER_SUBMISSION, META_LABEL_*, SKIP_FORECAST_WHEN_EXPOSED,
                  \* the threads that are started, what their votes come to,
                  \* how orders are refused, and the bound on faults: crashes of
                  \* the server and writes that fail
    rows,         \* table consensus: id -> [ticker, state, trade, old]
    lastId,       \* AUTOINCREMENT: an id is never used again
    fresh,        \* history: the ids of rows saved by a run for a direction
    exposed,      \* tickers with an open order or position
    orders,       \* history: [row, rejected] of every order placed: rejected if by
                  \* a run whose own verdict was a reject
    runs,         \* table forecast_runs: run -> status, "unlisted" without a row
    todo,         \* tickers a run has still to process
    at,           \* the stage of a run or a recalculation; "lost" for the row of one
                  \* that ended although the write of its end failed
    ctx,          \* PipelineContext of a run; the ticker and row of a recalculation
    act,          \* activate_consensus_order of a run or the task
    queue,        \* candidates the task has still to activate
    serving,      \* whether the server runs
    faults

vars == <<config, rows, lastId, fresh, exposed, orders, runs, todo, at, ctx, act, queue, serving, faults>>

Threads == Runs \cup Recalcs
Activators == Runs \cup {PendingTask}

\* A thread runs the pipeline, a recalculation or the task, and the settings are
\* those the code tells apart.
ASSUME PipelineAssumption ==
    /\ MaxRows \in Nat
    /\ Runs \cap Recalcs = {} /\ PendingTask \notin Threads
    /\ Configs \subseteq
          [auto : BOOLEAN, meta : {"off", "shadow", "enforce"}, guard : BOOLEAN,
           started : SUBSET Threads, votes : SUBSET {"sure", "unsure", "neutral"},
           refusals : SUBSET {"transient", "permanent", "failed"}, faults : Nat]

States == {"PENDING_ORDER", "ORDER_SUBMITTED", "ORDER_SKIPPED", "EXPIRED"}
Ids == 1..MaxRows
NoId == 0

NoContext == [ticker |-> "none", signal |-> "NEUTRAL", sure |-> FALSE, state |-> "none",
              verdict |-> "none", id |-> NoId]
Idle == [step |-> "idle", id |-> NoId, ticker |-> "none", result |-> "none"]

Init ==
    /\ config \in Configs
    /\ rows = <<>> /\ lastId = 0 /\ fresh = {}
    /\ exposed = {} /\ orders = {}
    /\ runs = [r \in Threads |-> "none"]
    /\ todo = [r \in Runs |-> {}]
    /\ at = [r \in Threads |-> "idle"]
    /\ ctx = [r \in Threads |-> NoContext]
    /\ act = [a \in Activators |-> Idle]
    /\ queue = {} /\ serving = TRUE /\ faults = 0

\* get_last_consensus_id: of the ticker, whoever saved it.
LastOf(ticker) ==
    LET ids == {i \in DOMAIN rows : rows[i].ticker = ticker}
    IN  IF ids = {} THEN NoId ELSE CHOOSE i \in ids : \A j \in ids : j <= i

Insert(ticker, state, isFresh) ==
    LET new == [ticker |-> ticker, state |-> state, trade |-> FALSE, old |-> FALSE]
    IN  /\ lastId < MaxRows
        /\ lastId' = lastId + 1
        /\ rows' = [i \in DOMAIN rows \cup {lastId + 1} |-> IF i = lastId + 1 THEN new ELSE rows[i]]
        /\ fresh' = IF isFresh THEN fresh \cup {lastId + 1} ELSE fresh

\* An UPDATE by id, of no row if a recalculation has deleted it.
Mark(id, state) ==
    rows' = [i \in DOMAIN rows |-> IF i = id THEN [rows[i] EXCEPT !.state = state] ELSE rows[i]]

\* A write to the database fails; whoever wrote swallows it.
WriteFails ==
    /\ faults < config.faults
    /\ faults' = faults + 1

\* An UPDATE by id that may fail.
TryMark(id, state) ==
    \/ Mark(id, state) /\ UNCHANGED faults
    \/ WriteFails /\ UNCHANGED rows

\* create_forecast_run: a run whose row is not written goes on without one.
ListRun(r) ==
    /\ serving /\ runs[r] = "none" /\ r \in config.started
    /\ \/ runs' = [runs EXCEPT ![r] = "running"] /\ UNCHANGED faults
       \/ runs' = [runs EXCEPT ![r] = "unlisted"] /\ WriteFails

\* complete_forecast_run: callers ignore whether it has written.
CompleteRun(r, status) ==
    \/ /\ runs' = [runs EXCEPT ![r] = IF @ = "running" THEN status ELSE @]
       /\ at' = [at EXCEPT ![r] = "idle"]
       /\ UNCHANGED faults
    \/ /\ WriteFails
       /\ at' = [at EXCEPT ![r] = "lost"]
       /\ UNCHANGED runs

-----------------------------------------------------------------------------
(* A run and its stages *)

\* The run is listed, with the active tickers before it.
StartRun(r) ==
    /\ ListRun(r)
    /\ todo' = [todo EXCEPT ![r] = Tickers]
    /\ at' = [at EXCEPT ![r] = "next"]
    /\ UNCHANGED <<config, rows, lastId, fresh, exposed, orders, ctx, act, queue, serving>>

\* The ticker is done, or a stage has raised, which process_ticker swallows.
Done(r) ==
    /\ at' = [at EXCEPT ![r] = "next"]
    /\ ctx' = [ctx EXCEPT ![r] = NoContext]

\* FetchDataStage to TradingExposureGuardStage; a stage may raise.
Begin(r) ==
    /\ at[r] = "next"
    /\ \E t \in todo[r] :
          /\ todo' = [todo EXCEPT ![r] = @ \ {t}]
          /\ \/ Done(r)
             \/ /\ ~(config.guard /\ t \in exposed)
                /\ ctx' = [ctx EXCEPT ![r].ticker = t]
                /\ at' = [at EXCEPT ![r] = "forecast"]
    /\ UNCHANGED <<config, rows, lastId, fresh, exposed, orders, runs, act, queue, serving, faults>>

\* Mutant: a row may be pending whatever its signal.
OrderStateOfAny(signal, ticker) ==
    IF ticker \in exposed THEN "ORDER_SKIPPED" ELSE "PENDING_ORDER"

\* save_consensus reads the exposure before it inserts.
OrderState(signal, ticker) ==
    IF signal = "NEUTRAL" \/ ticker \in exposed THEN "ORDER_SKIPPED" ELSE "PENDING_ORDER"

\* ForecastStage, which may return nothing, and the vote: a direction whose
\* confidence reaches the threshold or not, or none.
Consensus(r) ==
    /\ at[r] = "forecast"
    /\ \/ Done(r)
       \/ /\ \E vote \in config.votes :
                LET signal == IF vote = "neutral" THEN "NEUTRAL" ELSE "LONG"
                IN  ctx' = [ctx EXCEPT ![r].signal = signal, ![r].sure = vote = "sure",
                                ![r].state = OrderState(signal, ctx[r].ticker)]
          /\ at' = [at EXCEPT ![r] = "save"]
    /\ UNCHANGED <<config, rows, lastId, fresh, exposed, orders, runs, todo, act, queue, serving, faults>>

AfterSave(r) ==
    IF ctx[r].signal = "NEUTRAL" THEN Done(r)
    ELSE /\ at' = [at EXCEPT ![r] = IF config.meta = "off" THEN "activate" ELSE "meta"]
         /\ ctx' = [ctx EXCEPT ![r].state = "none"]

\* ConsensusStage does not look at the answer of save_consensus: a direction
\* goes on to the next stages although no row was written.
Save(r) ==
    /\ at[r] = "save"
    /\ \/ Insert(ctx[r].ticker, ctx[r].state, ctx[r].signal # "NEUTRAL")
       \/ UNCHANGED <<rows, lastId, fresh>>
    /\ AfterSave(r)
    /\ UNCHANGED <<config, exposed, orders, runs, todo, act, queue, serving, faults>>

\* What the features and the model come to.
Verdicts == {"PASS", "REJECT"}

\* MetaLabelStage: the last row of the ticker is looked up, then the snapshot
\* of the market is fetched and the features are scored, which may raise.  What
\* the stage writes into the row's meta columns is read by no one here.
MetaScore(r) ==
    /\ at[r] = "meta"
    /\ LET id == LastOf(ctx[r].ticker)
           Goes(stage, verdict) ==
               /\ at' = [at EXCEPT ![r] = stage]
               /\ ctx' = [ctx EXCEPT ![r].verdict = verdict, ![r].id = id]
       IN  \/ id = NoId /\ Goes("activate", "none")
           \/ id # NoId /\ Done(r)
           \/ /\ id # NoId
              /\ \E v \in Verdicts :
                    Goes(IF v = "REJECT" /\ config.meta = "enforce" THEN "reject" ELSE "activate", v)
    /\ UNCHANGED <<config, rows, lastId, fresh, exposed, orders, runs, todo, act, queue, serving, faults>>

\* Mutant: the row is marked, but the run goes on to its next stage.
MetaRejectOnly(r) ==
    /\ at[r] = "reject"
    /\ Mark(ctx[r].id, "ORDER_SKIPPED")
    /\ at' = [at EXCEPT ![r] = "activate"]
    /\ UNCHANGED <<config, lastId, fresh, exposed, orders, runs, todo, ctx, act, queue, serving, faults>>

\* meta_order_blocked, and mark_order_skipped whatever the row's state; the run
\* does not reach OrderActivationStage, even if the row could not be marked.
MetaReject(r) ==
    /\ at[r] = "reject"
    /\ TryMark(ctx[r].id, "ORDER_SKIPPED")
    /\ Done(r)
    /\ UNCHANGED <<config, lastId, fresh, exposed, orders, runs, todo, act, queue, serving>>

\* Mutant: the order is activated in the background.
ActivateAndGo(r) ==
    /\ at[r] = "activate"
    /\ LET id == LastOf(ctx[r].ticker)
       IN  act' = [act EXCEPT ![r] = [Idle EXCEPT !.step = "read", !.id = id]]
    /\ Done(r)
    /\ UNCHANGED <<config, rows, lastId, fresh, exposed, orders, runs, todo, queue, serving, faults>>

\* OrderActivationStage, up to the call of activate_consensus_order.
Activate(r) ==
    /\ at[r] = "activate"
    /\ LET id == LastOf(ctx[r].ticker)
       IN  IF config.auto /\ ctx[r].sure /\ id # NoId
           THEN /\ act' = [act EXCEPT ![r] = [Idle EXCEPT !.step = "read", !.id = id]]
                /\ at' = [at EXCEPT ![r] = "activating"]
                /\ UNCHANGED ctx
           ELSE Done(r) /\ UNCHANGED act
    /\ UNCHANGED <<config, rows, lastId, fresh, exposed, orders, runs, todo, queue, serving, faults>>

Activated(r) ==
    /\ at[r] = "activating" /\ act[r] = Idle
    /\ Done(r)
    /\ UNCHANGED <<config, rows, lastId, fresh, exposed, orders, runs, todo, act, queue, serving, faults>>

\* Mutant: an exception leaves the run as it is.
EndRunDone(r) ==
    /\ at[r] = "next"
    /\ \/ todo[r] = {} /\ CompleteRun(r, "completed")
       \/ /\ todo[r] = Tickers
          /\ at' = [at EXCEPT ![r] = "idle"] /\ UNCHANGED <<runs, faults>>
    /\ todo' = [todo EXCEPT ![r] = {}]
    /\ UNCHANGED <<config, rows, lastId, fresh, exposed, orders, ctx, act, queue, serving>>

\* After the last ticker, or by the handler of an exception before the first.
EndRun(r) ==
    /\ at[r] = "next"
    /\ \/ todo[r] = {} /\ CompleteRun(r, "completed")
       \/ todo[r] = Tickers /\ CompleteRun(r, "failed")
    /\ todo' = [todo EXCEPT ![r] = {}]
    /\ UNCHANGED <<config, rows, lastId, fresh, exposed, orders, ctx, act, queue, serving>>

-----------------------------------------------------------------------------
(* activate_consensus_order *)

\* Mutant: the state of the row is not looked at.
PendingRowAny(id) == id \in DOMAIN rows /\ ~rows[id].trade

\* get_pending_order_row finds the row.
PendingRow(id) == id \in DOMAIN rows /\ rows[id].state = "PENDING_ORDER" /\ ~rows[id].trade

ReadRow(a) ==
    /\ act[a].step = "read"
    /\ act' = [act EXCEPT ![a] = IF PendingRow(act[a].id)
                                 THEN [@ EXCEPT !.step = "submit", !.ticker = rows[act[a].id].ticker]
                                 ELSE Idle]
    /\ UNCHANGED <<config, rows, lastId, fresh, exposed, orders, runs, todo, at, ctx, queue, serving, faults>>

Linked(id) == [i \in DOMAIN rows |-> IF i = id THEN [rows[i] EXCEPT !.trade = TRUE] ELSE rows[i]]

\* submit_signal: refused for now, refused for good, a bracket saved and then
\* failed by the exchange, or placed.
Submit(a) ==
    /\ act[a].step = "submit"
    /\ LET id == act[a].id
           t == act[a].ticker
           Result(result) == act' = [act EXCEPT ![a].step = "mark", ![a].result = result]
       IN  \/ /\ \E refusal \in config.refusals \ {"failed"} : Result(refusal)
              /\ UNCHANGED <<rows, exposed, orders>>
           \/ /\ t \in exposed
              /\ Result("permanent")
              /\ UNCHANGED <<rows, exposed, orders>>
           \/ /\ t \notin exposed /\ "failed" \in config.refusals
              /\ Result("transient")
              /\ rows' = Linked(id)
              /\ UNCHANGED <<exposed, orders>>
           \/ /\ t \notin exposed
              /\ Result("submitted")
              /\ rows' = Linked(id)
              /\ exposed' = exposed \cup {t}
              /\ orders' = orders \cup
                    {[row |-> id, rejected |-> a \in Runs /\ ctx[a].verdict = "REJECT"]}
    /\ UNCHANGED <<config, lastId, fresh, runs, todo, at, ctx, queue, serving, faults>>

\* Mutant: a bracket that was saved counts as submitted.
MarkTransient(a) ==
    /\ act[a].step = "mark"
    /\ \/ act[a].result # "permanent" /\ TryMark(act[a].id, "ORDER_SUBMITTED")
       \/ act[a].result = "permanent" /\ TryMark(act[a].id, "ORDER_SKIPPED")
    /\ act' = [act EXCEPT ![a] = Idle]
    /\ UNCHANGED <<config, lastId, fresh, exposed, orders, runs, todo, at, ctx, queue, serving>>

\* mark_order_submitted, mark_order_skipped, or the row stays pending.
MarkRow(a) ==
    /\ act[a].step = "mark"
    /\ \/ act[a].result = "submitted" /\ TryMark(act[a].id, "ORDER_SUBMITTED")
       \/ act[a].result = "permanent" /\ TryMark(act[a].id, "ORDER_SKIPPED")
       \/ act[a].result = "transient" /\ UNCHANGED <<rows, faults>>
    /\ act' = [act EXCEPT ![a] = Idle]
    /\ UNCHANGED <<config, lastId, fresh, exposed, orders, runs, todo, at, ctx, queue, serving>>

ActivateOrder(a) == ReadRow(a) \/ Submit(a) \/ MarkRow(a)

-----------------------------------------------------------------------------
(* The pending-orders task *)

Pending == {i \in DOMAIN rows : PendingRow(i)}

\* Candidates are the pending rows that are within FORECAST_TTL.
TakeCandidates == queue' = {<<i, rows[i].ticker>> : i \in {j \in Pending : ~rows[j].old}}

\* Mutant: rows past FORECAST_TTL are not taken, and not expired either.
ListPendingOnly ==
    /\ serving /\ queue = {} /\ act[PendingTask] = Idle /\ Pending # {}
    /\ TakeCandidates
    /\ UNCHANGED <<config, rows, lastId, fresh, exposed, orders, runs, todo, at, ctx, act, serving, faults>>

\* expire_stale_pending_orders, then get_pending_order_candidates.
ListPending ==
    /\ serving /\ queue = {} /\ act[PendingTask] = Idle /\ Pending # {}
    /\ \/ /\ rows' = [i \in DOMAIN rows |-> IF i \in Pending /\ rows[i].old
                                            THEN [rows[i] EXCEPT !.state = "EXPIRED"] ELSE rows[i]]
          /\ UNCHANGED faults
       \/ WriteFails /\ UNCHANGED rows
    /\ TakeCandidates
    /\ UNCHANGED <<config, lastId, fresh, exposed, orders, runs, todo, at, ctx, act, serving>>

\* The next candidate: skipped if its ticker is exposed by now, even by an
\* order of its own, or else activated; neither the switch for automatic orders
\* nor the confidence nor the verdict of the meta-label stage is looked at.
NextPending ==
    /\ act[PendingTask] = Idle
    /\ \E candidate \in queue :
          /\ queue' = queue \ {candidate}
          /\ IF candidate[2] \in exposed
             THEN TryMark(candidate[1], "ORDER_SKIPPED") /\ UNCHANGED act
             ELSE /\ act' = [act EXCEPT ![PendingTask] = [Idle EXCEPT !.step = "read",
                                                                   !.id = candidate[1]]]
                  /\ UNCHANGED <<rows, faults>>
    /\ UNCHANGED <<config, lastId, fresh, exposed, orders, runs, todo, at, ctx, serving>>

-----------------------------------------------------------------------------
(* Recalculation of today's group of a ticker, with force *)

\* The first row of the day, if any.
FirstOf(ticker) ==
    LET ids == {i \in DOMAIN rows : rows[i].ticker = ticker}
    IN  IF ids = {} THEN NoId ELSE CHOOSE i \in ids : \A j \in ids : i <= j

\* The row is looked up before the votes are collected and the run is listed.
RecalcStart(r) ==
    /\ ListRun(r)
    /\ \E t \in Tickers :
          ctx' = [ctx EXCEPT ![r].ticker = t, ![r].id = FirstOf(t)]
    /\ at' = [at EXCEPT ![r] = "delete"]
    /\ UNCHANGED <<config, rows, lastId, fresh, exposed, orders, todo, act, queue, serving>>

\* The vote may raise, and then nothing completes the run; or else the row goes,
\* whatever its state by now.  Without a row, or with one that could not be
\* deleted, the recalculation goes on all the same.
RecalcDelete(r) ==
    /\ at[r] = "delete"
    /\ \/ at' = [at EXCEPT ![r] = "idle"] /\ UNCHANGED <<rows, faults>>
       \/ /\ at' = [at EXCEPT ![r] = "insert"]
          /\ \/ rows' = [i \in DOMAIN rows \ {ctx[r].id} |-> rows[i]] /\ UNCHANGED faults
             \/ ctx[r].id # NoId /\ WriteFails /\ UNCHANGED rows
    /\ UNCHANGED <<config, lastId, fresh, exposed, orders, runs, todo, ctx, act, queue, serving>>

\* save_consensus with override_date, which may fail as well.
RecalcInsert(r) ==
    /\ at[r] = "insert"
    /\ \/ Insert(ctx[r].ticker, "ORDER_SKIPPED", FALSE) /\ UNCHANGED faults
       \/ WriteFails /\ UNCHANGED <<rows, lastId, fresh>>
    /\ at' = [at EXCEPT ![r] = "complete"]
    /\ UNCHANGED <<config, exposed, orders, runs, todo, ctx, act, queue, serving>>

RecalcEnd(r) ==
    /\ at[r] = "complete"
    /\ CompleteRun(r, "completed")
    /\ UNCHANGED <<config, rows, lastId, fresh, exposed, orders, todo, ctx, act, queue, serving>>

Recalculate(r) == RecalcStart(r) \/ RecalcDelete(r) \/ RecalcInsert(r) \/ RecalcEnd(r)

-----------------------------------------------------------------------------
(* The rest of the world *)

\* A row that is still pending passes FORECAST_TTL.
Age(i) ==
    /\ i \in Pending /\ ~rows[i].old
    /\ rows' = [rows EXCEPT ![i].old = TRUE]
    /\ UNCHANGED <<config, lastId, fresh, exposed, orders, runs, todo, at, ctx, act, queue, serving, faults>>

\* The order is cancelled or its position closed.
Close(t) ==
    /\ t \in exposed
    /\ exposed' = exposed \ {t}
    /\ UNCHANGED <<config, rows, lastId, fresh, orders, runs, todo, at, ctx, act, queue, serving, faults>>

\* The threads are gone, and with them what they had in hand.
Crash ==
    /\ serving /\ faults < config.faults
    /\ faults' = faults + 1
    /\ serving' = FALSE
    /\ at' = [r \in Threads |-> "idle"]
    /\ todo' = [r \in Runs |-> {}]
    /\ ctx' = [r \in Threads |-> NoContext]
    /\ act' = [a \in Activators |-> Idle]
    /\ queue' = {}
    /\ UNCHANGED <<config, rows, lastId, fresh, exposed, orders, runs>>

\* Mutant: the runs of the last session are left as they are.
RestartOnly ==
    /\ ~serving /\ serving' = TRUE
    /\ UNCHANGED <<config, rows, lastId, fresh, exposed, orders, runs, todo, at, ctx, act, queue, faults>>

\* mark_stuck_runs_failed, whose failure the start swallows: the rows of the last
\* session stay as they are.
Restart ==
    /\ ~serving /\ serving' = TRUE
    /\ \/ /\ runs' = [r \in Threads |-> IF runs[r] = "running" THEN "failed" ELSE runs[r]]
          /\ UNCHANGED <<at, faults>>
       \/ /\ WriteFails
          /\ at' = [r \in Threads |-> IF runs[r] = "running" THEN "lost" ELSE at[r]]
          /\ UNCHANGED runs
    /\ UNCHANGED <<config, rows, lastId, fresh, exposed, orders, todo, ctx, act, queue>>

-----------------------------------------------------------------------------
Run(r) ==
    \/ Begin(r) \/ Consensus(r) \/ Save(r)
    \/ MetaScore(r) \/ MetaReject(r)
    \/ Activate(r) \/ ActivateOrder(r) \/ Activated(r)
    \/ EndRun(r)

ProcessPending == ListPending \/ NextPending \/ ActivateOrder(PendingTask)

Next ==
    \/ \E r \in Runs : StartRun(r) \/ Run(r)
    \/ ProcessPending
    \/ \E r \in Recalcs : Recalculate(r)
    \/ \E i \in Ids : Age(i)
    \/ \E t \in Tickers : Close(t)
    \/ Crash \/ Restart

\* Threads go on, the task is repeated every minute, and rows grow old.
Fairness ==
    /\ \A r \in Runs : WF_vars(Run(r))
    /\ WF_vars(ProcessPending)
    /\ \A i \in Ids : WF_vars(Age(i))

Spec == Init /\ [][Next]_vars /\ Fairness

-----------------------------------------------------------------------------
(* Properties *)

\* Every variable has its type.
TypeOK ==
    /\ DOMAIN rows \subseteq 1..lastId /\ lastId \in 0..MaxRows
    /\ fresh \subseteq 1..lastId
    /\ \A i \in DOMAIN rows : rows[i].state \in States /\ rows[i].ticker \in Tickers
    /\ exposed \subseteq Tickers
    /\ \A r \in Threads : runs[r] \in {"none", "running", "unlisted", "completed", "failed"}
    /\ \A a \in Activators : act[a].step \in {"idle", "read", "submit", "mark"}
    /\ \A r \in Runs : act[r] # Idle => at[r] = "activating"
    /\ queue \subseteq Ids \X Tickers

\* Whatever the stages, the task and a recalculation do to each other's rows, an
\* order is placed only for a direction that a run has saved: never for a neutral
\* consensus, nor for one that was recalculated.
OrderedIsFresh == \A o \in orders : o.row \in fresh

\* A row that says it was submitted has an order, although three writers mark
\* rows by id without looking at their state.
SubmittedHasOrder ==
    \A i \in DOMAIN rows :
        rows[i].state = "ORDER_SUBMITTED" => \E o \in orders : o.row = i

\* A run whose own verdict was a reject places no order where the verdict is
\* enforced, although the row it submits may be another run's and the write of the
\* rejection may fail.  It says nothing of the pending-orders task, which orders
\* such a row if it reads it before the rejection is written or after that write
\* has failed; a rejection that is written is covered by SettledStays.
StageHonoursVerdict ==
    config.meta = "enforce" => \A o \in orders : ~o.rejected

\* A run of the pipeline that the table shows as running has its thread while the
\* server is up: only a failed write, of its own end or of the clean-up at a
\* start, leaves a run there that no thread will complete.
RunningIsAlive == serving => \A r \in Runs : runs[r] = "running" => at[r] # "idle"

\* The conditions together, on a well-typed state, for a run the table and
\* the threads agree on: every order was asked for by a consensus that stands.
OrdersAreEarned ==
    TypeOK /\ OrderedIsFresh /\ SubmittedHasOrder /\ StageHonoursVerdict /\ RunningIsAlive

\* A skipped or expired row that no activator has read while it was pending is
\* settled: no one marks it otherwise, or goes on to submit it.
InHand(i) == \E a \in Activators : act[a].id = i /\ act[a].step \in {"submit", "mark"}
SettledStays ==
    [][\A i \in DOMAIN rows :
          rows[i].state \in {"ORDER_SKIPPED", "EXPIRED"} /\ ~InHand(i)
          => /\ ~InHand(i)'
             /\ i \in DOMAIN rows' => rows'[i].state \in {rows[i].state, "ORDER_SKIPPED"}]_vars

\* A pending row is submitted, skipped or expired at last, unless a bracket was
\* saved for it: such a row is neither a candidate nor expired any more.
PendingEnds == \A i \in Ids : i \in Pending ~> i \notin Pending

\* Every run of the pipeline ends in the table as well, unless the write of its
\* end or the clean-up of a start has failed.
RunEnds == \A r \in Runs : runs[r] = "running" ~> runs[r] # "running" \/ at[r] = "lost"

\* As long as a server that crashed is started again, neither a row nor a run is
\* left unfinished.
WorkEnds == []<>serving => PendingEnds /\ RunEnds

=============================================================================
