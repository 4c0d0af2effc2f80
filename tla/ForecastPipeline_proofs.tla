----------------------- MODULE ForecastPipeline_proofs -----------------------
(***************************************************************************)
(* What is proved of the forecasts, for any threads, tickers, settings and *)
(* number of rows: which of them become orders (ForecastPipeline), and     *)
(* what they are made from: the price table that robots and tasks keep     *)
(* (RobotRunner, PriceHistory) and what a forecast is told of a history    *)
(* (MarketReadings), for any market; and what becomes of the answers: the  *)
(* vote, its levels and the numbers of the order (SignalPath), for any     *)
(* models, prices and instrument.                                          *)
(***************************************************************************)
EXTENDS ForecastPipeline, RobotRunner, ManualOrder, FiniteSetTheorems, SequenceTheorems,
        WellFoundedInduction, TLAPS

CtxFields == {"ticker", "signal", "sure", "state", "verdict", "id"}
ActFields == {"step", "id", "ticker", "result"}
Row == [ticker : Tickers, state : States, trade : BOOLEAN, old : BOOLEAN]
Statuses == {"none", "running", "unlisted", "completed", "failed"}

\* The variables are functions of the threads, which run while the server is up.
ShapesOK ==
    /\ config \in Configs
    /\ DOMAIN runs = Threads /\ DOMAIN todo = Runs /\ DOMAIN at = Threads
    /\ DOMAIN ctx = Threads /\ DOMAIN act = Activators
    /\ \A r \in Threads : runs[r] \in Statuses /\ (~serving => at[r] = "idle")
    /\ queue \subseteq Ids \X Tickers

\* A row that is pending was saved by a run for a direction.
RowsOK ==
    /\ lastId \in 0..MaxRows
    /\ DOMAIN rows \subseteq 1..lastId /\ fresh \subseteq 1..lastId
    /\ \A i \in DOMAIN rows : rows[i] \in Row
    /\ \A i \in DOMAIN rows : rows[i].state = "PENDING_ORDER" => i \in fresh
    /\ exposed \subseteq Tickers

\* The stages a ticker passes with its context.
Working == {"forecast", "save", "meta", "reject", "activate", "activating"}

\* What a run holds in hand fits the stage it is at: it is about to save a
\* pending row for a direction only, a verdict that is enforced keeps it away
\* from the activation, and only there does it activate.
RunOK(r) ==
    /\ todo[r] \subseteq Tickers /\ DOMAIN ctx[r] = CtxFields
    /\ serving /\ runs[r] = "running" => at[r] # "idle"
    /\ runs[r] = "none" => at[r] = "idle"
    /\ at[r] \in Working => ctx[r].ticker \in Tickers
    /\ at[r] = "save" =>
          /\ ctx[r].state \in {"PENDING_ORDER", "ORDER_SKIPPED"}
          /\ ctx[r].state = "PENDING_ORDER" => ctx[r].signal # "NEUTRAL"
    /\ config.meta = "enforce" /\ at[r] \in {"activate", "activating"}
          => ctx[r].verdict # "REJECT"
    /\ act[r] # Idle => at[r] = "activating"

\* A recalculation knows its ticker.
RecalcOK(r) ==
    /\ DOMAIN ctx[r] = CtxFields
    /\ at[r] \in {"delete", "insert"} => ctx[r].ticker \in Tickers

\* What an activator has read pending was fresh then and is for ever, and what it
\* is about to mark as submitted has its order.
ActOK(a) ==
    /\ DOMAIN act[a] = ActFields
    /\ act[a].step \in {"idle", "read", "submit", "mark"}
    /\ act[a].step \in {"submit", "mark"} => act[a].id \in fresh /\ act[a].ticker \in Tickers
    /\ act[a].step = "mark" => act[a].result \in {"submitted", "permanent", "transient"}
    /\ act[a].step = "mark" /\ act[a].result = "submitted" =>
          \E o \in orders : o.row = act[a].id

OrdersOK == OrderedIsFresh /\ SubmittedHasOrder /\ StageHonoursVerdict

PInv ==
    /\ ShapesOK /\ RowsOK /\ OrdersOK
    /\ \A r \in Runs : RunOK(r)
    /\ \A r \in Recalcs : RecalcOK(r)
    /\ \A a \in Activators : ActOK(a)

-----------------------------------------------------------------------------
(* Setting fields of one of several records.                               *)

LEMMA SetsOne ==
  ASSUME NEW f, NEW a \in DOMAIN f, NEW j \in DOMAIN f[a], NEW v,
         NEW g, g = [f EXCEPT ![a][j] = v]
  PROVE  /\ DOMAIN g = DOMAIN f /\ \A b \in DOMAIN f \ {a} : g[b] = f[b]
         /\ DOMAIN g[a] = DOMAIN f[a] /\ g[a][j] = v
         /\ \A l \in DOMAIN f[a] \ {j} : g[a][l] = f[a][l]
OBVIOUS

LEMMA SetsTwo ==
  ASSUME NEW f, NEW a \in DOMAIN f, NEW j \in DOMAIN f[a], NEW k \in DOMAIN f[a], j # k,
         NEW v, NEW w, NEW g, g = [f EXCEPT ![a][j] = v, ![a][k] = w]
  PROVE  /\ DOMAIN g = DOMAIN f /\ \A b \in DOMAIN f \ {a} : g[b] = f[b]
         /\ DOMAIN g[a] = DOMAIN f[a] /\ g[a][j] = v /\ g[a][k] = w
         /\ \A l \in DOMAIN f[a] \ {j, k} : g[a][l] = f[a][l]
OBVIOUS

LEMMA SetsThree ==
  ASSUME NEW f, NEW a \in DOMAIN f, NEW j \in DOMAIN f[a], NEW k \in DOMAIN f[a],
         NEW m \in DOMAIN f[a], j # k, j # m, k # m,
         NEW v, NEW w, NEW x, NEW g, g = [f EXCEPT ![a][j] = v, ![a][k] = w, ![a][m] = x]
  PROVE  /\ DOMAIN g = DOMAIN f /\ \A b \in DOMAIN f \ {a} : g[b] = f[b]
         /\ DOMAIN g[a] = DOMAIN f[a] /\ g[a][j] = v /\ g[a][k] = w /\ g[a][m] = x
         /\ \A l \in DOMAIN f[a] \ {j, k, m} : g[a][l] = f[a][l]
OBVIOUS

-----------------------------------------------------------------------------
LEMMA InitPInv == Init => PInv
<1> SUFFICES ASSUME Init PROVE PInv
  OBVIOUS
<1>1. ShapesOK
  BY DEF Init, ShapesOK, Statuses
<1>2. DOMAIN rows = {} /\ orders = {} /\ fresh = {}
  BY DEF Init
<1>3. RowsOK
  BY <1>2, PipelineAssumption DEF Init, RowsOK, PipelineAssumption
<1>4. OrdersOK
  BY <1>2 DEF OrdersOK, OrderedIsFresh, SubmittedHasOrder, StageHonoursVerdict
<1>5. \A r \in Runs : RunOK(r)
  BY DEF Init, RunOK, NoContext, CtxFields, Threads, Activators, Working
<1>6. \A a \in Activators : ActOK(a)
  BY DEF Init, ActOK, Idle, ActFields
<1>7. \A r \in Recalcs : RecalcOK(r)
  BY DEF Init, RecalcOK, NoContext, CtxFields, Threads
<1> QED
  BY <1>1, <1>3, <1>4, <1>5, <1>6, <1>7 DEF PInv

-----------------------------------------------------------------------------
(* The rows.                                                               *)

\* Rows that are marked, aged, linked or deleted: none becomes pending, and none
\* becomes submitted without an order.
RowsGoOn ==
    /\ DOMAIN rows' \subseteq DOMAIN rows /\ UNCHANGED <<lastId, fresh>>
    /\ orders \subseteq orders'
    /\ \A i \in DOMAIN rows' :
          /\ rows'[i] \in Row
          /\ rows'[i].state = "PENDING_ORDER" => rows[i].state = "PENDING_ORDER"
          /\ rows'[i].state = "ORDER_SUBMITTED" =>
                rows[i].state = "ORDER_SUBMITTED" \/ \E o \in orders' : o.row = i

LEMMA RowsGoOnKeep ==
  ASSUME RowsOK, OrdersOK, RowsGoOn, exposed' \subseteq Tickers
  PROVE  RowsOK' /\ SubmittedHasOrder'
<1>1. RowsOK'
  BY DEF RowsOK, RowsGoOn
<1>2. SubmittedHasOrder'
  BY DEF OrdersOK, SubmittedHasOrder, RowsGoOn
<1> QED
  BY <1>1, <1>2

LEMMA Marked ==
  ASSUME RowsOK, NEW id, NEW state \in States, Mark(id, state)
  PROVE  /\ DOMAIN rows' = DOMAIN rows
         /\ \A i \in DOMAIN rows :
              rows'[i] \in Row /\ rows'[i].state = IF i = id THEN state ELSE rows[i].state
<1>1. rows' = [i \in DOMAIN rows |-> IF i = id THEN [rows[i] EXCEPT !.state = state]
                                     ELSE rows[i]]
  BY DEF Mark
<1>2. \A i \in DOMAIN rows : [rows[i] EXCEPT !.state = state] \in Row
                             /\ [rows[i] EXCEPT !.state = state].state = state
  BY DEF RowsOK, Row
<1> QED
  BY <1>1, <1>2 DEF RowsOK

\* A mark that does not submit lets the rows go on.
LEMMA SkippedGoOn ==
  ASSUME RowsOK, NEW id, TryMark(id, "ORDER_SKIPPED"), UNCHANGED <<lastId, fresh, orders>>
  PROVE  RowsGoOn
<1>1. CASE Mark(id, "ORDER_SKIPPED")
  BY <1>1, Marked DEF RowsGoOn, States
<1>2. CASE UNCHANGED rows
  BY <1>2 DEF RowsGoOn, RowsOK
<1> QED
  BY <1>1, <1>2 DEF TryMark

\* A new row is pending only if it is fresh, and never submitted.
LEMMA InsertKeeps ==
  ASSUME RowsOK, OrdersOK, NEW ticker \in Tickers,
         NEW state \in {"PENDING_ORDER", "ORDER_SKIPPED"}, NEW isFresh \in BOOLEAN,
         state = "PENDING_ORDER" => isFresh,
         Insert(ticker, state, isFresh), UNCHANGED <<exposed, orders>>
  PROVE  RowsOK' /\ SubmittedHasOrder' /\ fresh \subseteq fresh'
<1> DEFINE new == [ticker |-> ticker, state |-> state, trade |-> FALSE, old |-> FALSE]
<1>1. /\ lastId < MaxRows /\ lastId' = lastId + 1
      /\ rows' = [i \in DOMAIN rows \cup {lastId + 1} |->
                    IF i = lastId + 1 THEN new ELSE rows[i]]
      /\ fresh' = IF isFresh THEN fresh \cup {lastId + 1} ELSE fresh
  BY DEF Insert
<1>2. new \in Row /\ new.state = state
  BY DEF Row, States
<1>3. lastId \in Nat /\ lastId' \in 0..MaxRows /\ lastId' \in 1..lastId'
      /\ 1..lastId \subseteq 1..lastId'
  BY <1>1, PipelineAssumption DEF RowsOK, PipelineAssumption
<1> HIDE DEF new
<1>4. DOMAIN rows' = DOMAIN rows \cup {lastId'} /\ rows'[lastId'] = new
      /\ \A i \in DOMAIN rows \ {lastId'} : rows'[i] = rows[i]
  BY <1>1
<1>5. lastId' \notin DOMAIN rows
  BY <1>1, <1>3 DEF RowsOK
<1>6. fresh \subseteq fresh' /\ fresh' \subseteq fresh \cup {lastId'}
      /\ (state = "PENDING_ORDER" => lastId' \in fresh')
  BY <1>1
<1>7. RowsOK'
  <2>1. DOMAIN rows' \subseteq 1..lastId' /\ fresh' \subseteq 1..lastId'
    BY <1>3, <1>4, <1>6 DEF RowsOK
  <2>2. \A i \in DOMAIN rows' : rows'[i] \in Row
    BY <1>2, <1>4 DEF RowsOK
  <2>3. \A i \in DOMAIN rows' : rows'[i].state = "PENDING_ORDER" => i \in fresh'
    BY <1>2, <1>4, <1>6 DEF RowsOK
  <2> QED
    BY <1>3, <2>1, <2>2, <2>3 DEF RowsOK
<1>8. SubmittedHasOrder'
  BY <1>2, <1>4 DEF OrdersOK, SubmittedHasOrder
<1> QED
  BY <1>6, <1>7, <1>8

-----------------------------------------------------------------------------
(* The frames: what one thread does leaves the others as they are.         *)

\* A step of a run's stages that leaves the rows and the activators alone.
LEMMA StageFrame ==
  ASSUME PInv, NEW r \in Runs, serving, RunOK(r)', DOMAIN at' = Threads, DOMAIN ctx' = Threads,
         DOMAIN todo' = Runs, DOMAIN runs' = Threads, runs'[r] \in Statuses,
         \A s \in Threads \ {r} : /\ at'[s] = at[s] /\ runs'[s] = runs[s]
                                  /\ ctx'[s] = ctx[s],
         \A s \in Runs \ {r} : todo'[s] = todo[s],
         UNCHANGED <<config, rows, lastId, fresh, exposed, orders, act, queue, serving>>
  PROVE  PInv'
<1>1. ShapesOK'
  BY DEF PInv, ShapesOK
<1>2. RowsOK' /\ OrdersOK'
  BY DEF PInv, RowsOK, OrdersOK, OrderedIsFresh, SubmittedHasOrder, StageHonoursVerdict
<1>3. \A s \in Runs : RunOK(s)'
  BY DEF PInv, RunOK, Threads
<1>4. \A a \in Activators : ActOK(a)'
  BY DEF PInv, ActOK
<1>5. \A s \in Recalcs : RecalcOK(s)'
  BY PipelineAssumption DEF PInv, RecalcOK, Threads, PipelineAssumption
<1> QED
  BY <1>1, <1>2, <1>3, <1>4, <1>5 DEF PInv

\* A step of an activator that leaves the stages alone.
LEMMA ActFrame ==
  ASSUME PInv, NEW a \in Activators, ActOK(a)', RowsOK', OrdersOK', DOMAIN act' = Activators,
         \A b \in Activators \ {a} : act'[b] = act[b],
         fresh \subseteq fresh', orders \subseteq orders',
         a \in Runs => at[a] = "activating" \/ act'[a] = Idle,
         UNCHANGED <<config, runs, todo, at, ctx, serving>>, queue' \subseteq Ids \X Tickers
  PROVE  PInv'
<1>1. ShapesOK'
  BY DEF PInv, ShapesOK
<1>2. \A s \in Runs : RunOK(s)'
  BY DEF PInv, RunOK, Activators
<1>3. \A b \in Activators \ {a} : ActOK(b)'
  <2> SUFFICES ASSUME NEW b \in Activators \ {a} PROVE ActOK(b)'
    OBVIOUS
  <2>1. act'[b] = act[b] /\ ActOK(b)
    BY DEF PInv
  <2> QED
    BY <2>1 DEF ActOK
<1>4. \A s \in Recalcs : RecalcOK(s)'
  BY DEF PInv, RecalcOK
<1> QED
  BY <1>1, <1>2, <1>3, <1>4 DEF PInv

\* A step that only changes rows.
LEMMA RowsFrame ==
  ASSUME PInv, RowsOK', SubmittedHasOrder', fresh \subseteq fresh',
         UNCHANGED <<config, orders, runs, todo, at, ctx, act, serving>>,
         queue' \subseteq Ids \X Tickers
  PROVE  PInv'
<1>1. ShapesOK'
  BY DEF PInv, ShapesOK
<1>2. OrdersOK'
  BY DEF PInv, OrdersOK, OrderedIsFresh, StageHonoursVerdict
<1>3. \A s \in Runs : RunOK(s)'
  BY DEF PInv, RunOK
<1>4. \A b \in Activators : ActOK(b)'
  BY DEF PInv, ActOK
<1>5. \A s \in Recalcs : RecalcOK(s)'
  BY DEF PInv, RecalcOK
<1> QED
  BY <1>1, <1>2, <1>3, <1>4, <1>5 DEF PInv

\* A step of a thread that changes its stage and the rows, and places no order.
LEMMA SaveFrame ==
  ASSUME PInv, NEW r \in Threads, RowsOK', SubmittedHasOrder', fresh \subseteq fresh', serving,
         r \in Runs => RunOK(r)', r \in Recalcs => RecalcOK(r)',
         DOMAIN at' = Threads, DOMAIN ctx' = Threads,
         DOMAIN runs' = Threads, runs'[r] \in Statuses,
         \A s \in Threads \ {r} : at'[s] = at[s] /\ runs'[s] = runs[s] /\ ctx'[s] = ctx[s],
         UNCHANGED <<config, orders, todo, act, queue, serving>>
  PROVE  PInv'
<1>1. ShapesOK'
  BY DEF PInv, ShapesOK
<1>2. OrdersOK'
  BY DEF PInv, OrdersOK, OrderedIsFresh, StageHonoursVerdict
<1>3. \A s \in Runs : RunOK(s)'
  <2> SUFFICES ASSUME NEW s \in Runs, s # r PROVE RunOK(s)'
    OBVIOUS
  <2>1. RunOK(s) /\ at'[s] = at[s] /\ runs'[s] = runs[s] /\ ctx'[s] = ctx[s]
    BY DEF PInv, Threads
  <2> QED
    BY <2>1 DEF RunOK
<1>4. \A b \in Activators : ActOK(b)'
  BY DEF PInv, ActOK
<1>5. \A s \in Recalcs : RecalcOK(s)'
  <2> SUFFICES ASSUME NEW s \in Recalcs, s # r PROVE RecalcOK(s)'
    OBVIOUS
  <2>1. RecalcOK(s) /\ at'[s] = at[s] /\ ctx'[s] = ctx[s]
    BY DEF PInv, Threads
  <2> QED
    BY <2>1 DEF RecalcOK
<1> QED
  BY <1>1, <1>2, <1>3, <1>4, <1>5 DEF PInv

\* Only at the activation does a run hold an activation.
LEMMA IdleElsewhere ==
  ASSUME PInv, NEW r \in Runs
  PROVE  /\ r \in Threads /\ r \in Activators /\ r \notin Recalcs /\ RunOK(r) /\ ActOK(r)
         /\ at[r] # "activating" => act[r] = Idle
         /\ at[r] # "idle" => serving
BY PipelineAssumption DEF PInv, ShapesOK, RunOK, Threads, Activators, PipelineAssumption

\* A ticker that is done leaves its run at the next, with nothing in hand.
LEMMA DoneKeeps ==
  ASSUME PInv, NEW r \in Runs, Done(r), at[r] # "idle", act[r] = Idle, UNCHANGED <<config, runs, act>>,
         todo'[r] \subseteq Tickers
  PROVE  /\ RunOK(r)' /\ DOMAIN at' = Threads /\ DOMAIN ctx' = Threads
         /\ \A s \in Threads \ {r} : at'[s] = at[s] /\ ctx'[s] = ctx[s]
<1>1. /\ at' = [at EXCEPT ![r] = "next"] /\ ctx' = [ctx EXCEPT ![r] = NoContext]
      /\ DOMAIN at = Threads /\ DOMAIN ctx = Threads /\ r \in Threads
  BY DEF Done, PInv, ShapesOK, Threads
<1>2. at'[r] = "next" /\ ctx'[r] = NoContext /\ act'[r] = Idle /\ runs'[r] # "none"
  BY <1>1, IdleElsewhere DEF RunOK
<1>3. RunOK(r)'
  BY <1>2 DEF RunOK, NoContext, CtxFields, Working
<1> QED
  BY <1>1, <1>3

-----------------------------------------------------------------------------
(* The stages of a run.                                                    *)

LEMMA StartRunKeeps ==
  ASSUME PInv, NEW r \in Runs, StartRun(r)
  PROVE  PInv'
<1>1. /\ todo' = [todo EXCEPT ![r] = Tickers] /\ at' = [at EXCEPT ![r] = "next"]
      /\ UNCHANGED <<config, rows, lastId, fresh, exposed, orders, ctx, act, queue, serving>>
      /\ runs[r] = "none" /\ r \in Threads /\ serving
  BY DEF StartRun, ListRun, Threads
<1>2. ShapesOK
  BY DEF PInv
<1>6. PICK ending \in {"running", "unlisted"} : runs' = [runs EXCEPT ![r] = ending]
  BY DEF StartRun, ListRun
<1>3. at'[r] = "next" /\ todo'[r] = Tickers /\ ctx'[r] = ctx[r] /\ act'[r] = act[r]
      /\ runs'[r] = ending
  BY <1>1, <1>2, <1>6 DEF ShapesOK
<1>4. act[r] = Idle
  BY <1>1, IdleElsewhere DEF RunOK
<1>5. RunOK(r)'
  BY <1>3, <1>4, IdleElsewhere DEF RunOK, Working
<1> QED
  BY <1>1, <1>2, <1>3, <1>5, <1>6, StageFrame DEF ShapesOK, Statuses

LEMMA BeginKeeps ==
  ASSUME PInv, NEW r \in Runs, Begin(r)
  PROVE  PInv'
<1>1. /\ at[r] = "next" /\ ShapesOK /\ r \in Threads
      /\ UNCHANGED <<config, rows, lastId, fresh, exposed, orders, runs, act, queue, serving>>
  BY DEF Begin, PInv, Threads
<1>2. PICK t \in todo[r] :
        /\ todo' = [todo EXCEPT ![r] = @ \ {t}]
        /\ \/ Done(r)
           \/ ctx' = [ctx EXCEPT ![r].ticker = t] /\ at' = [at EXCEPT ![r] = "forecast"]
  BY DEF Begin
<1>3. RunOK(r) /\ act[r] = Idle /\ t \in Tickers
  BY <1>1, IdleElsewhere DEF RunOK
<1>4. DOMAIN todo' = Runs /\ todo'[r] \subseteq Tickers
      /\ \A s \in Runs \ {r} : todo'[s] = todo[s]
  BY <1>1, <1>2, <1>3 DEF ShapesOK, RunOK
<1>5. CASE Done(r)
  BY <1>1, <1>3, <1>4, <1>5, DoneKeeps, StageFrame DEF ShapesOK
<1>6. CASE ctx' = [ctx EXCEPT ![r].ticker = t] /\ at' = [at EXCEPT ![r] = "forecast"]
  <2>1. /\ DOMAIN ctx' = Threads /\ \A s \in Threads \ {r} : ctx'[s] = ctx[s]
        /\ DOMAIN ctx'[r] = CtxFields /\ ctx'[r].ticker = t
    BY <1>1, <1>3, <1>6, SetsOne DEF ShapesOK, RunOK, CtxFields
  <2>2. at'[r] = "forecast" /\ DOMAIN at' = Threads
        /\ \A s \in Threads \ {r} : at'[s] = at[s]
    BY <1>1, <1>6 DEF ShapesOK
  <2>3. RunOK(r)'
    BY <1>1, <1>3, <1>4, <2>1, <2>2 DEF RunOK
  <2> QED
    BY <1>1, <1>4, <2>1, <2>2, <2>3, StageFrame DEF ShapesOK
<1> QED
  BY <1>2, <1>5, <1>6

LEMMA ConsensusKeeps ==
  ASSUME PInv, NEW r \in Runs, Consensus(r)
  PROVE  PInv'
<1>1. /\ at[r] = "forecast" /\ ShapesOK /\ r \in Threads /\ RunOK(r) /\ act[r] = Idle
      /\ UNCHANGED <<config, rows, lastId, fresh, exposed, orders, runs, todo, act, queue,
                     serving>>
  BY IdleElsewhere DEF Consensus, PInv, Threads
<1>2. CASE Done(r)
  BY <1>1, <1>2, DoneKeeps, StageFrame DEF ShapesOK, RunOK
<1>3. CASE ~Done(r)
  <2>1. at' = [at EXCEPT ![r] = "save"]
    BY <1>3 DEF Consensus
  <2>2. PICK vote \in config.votes :
          ctx' = [ctx EXCEPT
                    ![r].signal = IF vote = "neutral" THEN "NEUTRAL" ELSE "LONG",
                    ![r].sure = vote = "sure",
                    ![r].state = OrderState(IF vote = "neutral" THEN "NEUTRAL" ELSE "LONG",
                                            ctx[r].ticker)]
    BY <1>3 DEF Consensus
  <2> DEFINE signal == IF vote = "neutral" THEN "NEUTRAL" ELSE "LONG"
             state == OrderState(signal, ctx[r].ticker)
             sure == vote = "sure"
  <2>3. state \in {"PENDING_ORDER", "ORDER_SKIPPED"}
        /\ (state = "PENDING_ORDER" => signal # "NEUTRAL")
    BY DEF OrderState
  <2>4. ctx' = [ctx EXCEPT ![r].signal = signal, ![r].sure = sure, ![r].state = state]
    BY <2>2
  <2> HIDE DEF signal, state, sure
  <2>5. /\ DOMAIN ctx' = Threads /\ \A s \in Threads \ {r} : ctx'[s] = ctx[s]
        /\ DOMAIN ctx'[r] = CtxFields /\ ctx'[r].signal = signal /\ ctx'[r].state = state
        /\ ctx'[r].ticker = ctx[r].ticker
    BY <1>1, <2>4, SetsThree DEF ShapesOK, RunOK, CtxFields
  <2>6. at'[r] = "save" /\ DOMAIN at' = Threads
        /\ \A s \in Threads \ {r} : at'[s] = at[s]
    BY <1>1, <2>1 DEF ShapesOK
  <2>7. RunOK(r)'
    BY <1>1, <2>3, <2>5, <2>6 DEF RunOK, Working
  <2> QED
    BY <1>1, <2>5, <2>6, <2>7, StageFrame DEF ShapesOK
<1> QED
  BY <1>2, <1>3

\* A run that saves goes on, or is done with a neutral consensus.
LEMMA SaveKeeps ==
  ASSUME PInv, NEW r \in Runs, Save(r)
  PROVE  PInv'
<1>1. /\ at[r] = "save" /\ ShapesOK /\ r \in Threads /\ RunOK(r) /\ act[r] = Idle
      /\ RowsOK /\ OrdersOK /\ config.meta \in {"off", "shadow", "enforce"}
      /\ UNCHANGED <<config, exposed, orders, runs, todo, act, queue, serving>>
  BY IdleElsewhere, PipelineAssumption
  DEF Save, PInv, Threads, ShapesOK, PipelineAssumption
<1>2. RowsOK' /\ SubmittedHasOrder' /\ fresh \subseteq fresh'
  <2>1. CASE Insert(ctx[r].ticker, ctx[r].state, ctx[r].signal # "NEUTRAL")
    BY <1>1, <2>1, InsertKeeps DEF RunOK, Working
  <2>2. CASE UNCHANGED <<rows, lastId, fresh>>
    BY <1>1, <2>2 DEF RowsOK, OrdersOK, SubmittedHasOrder
  <2> QED
    BY <2>1, <2>2 DEF Save
<1>3. /\ RunOK(r)' /\ DOMAIN at' = Threads /\ DOMAIN ctx' = Threads
      /\ \A s \in Threads \ {r} : at'[s] = at[s]
      /\ \A s \in Threads \ {r} : ctx'[s] = ctx[s]
  <2>1. CASE Done(r)
    BY <1>1, <2>1, DoneKeeps DEF RunOK
  <2>2. CASE ~Done(r)
    <3>1. /\ at' = [at EXCEPT ![r] = IF config.meta = "off" THEN "activate" ELSE "meta"]
          /\ ctx' = [ctx EXCEPT ![r].state = "none"]
      BY <2>2 DEF Save, AfterSave
    <3>2. /\ DOMAIN ctx' = Threads /\ \A s \in Threads \ {r} : ctx'[s] = ctx[s]
          /\ DOMAIN ctx'[r] = CtxFields /\ ctx'[r].ticker = ctx[r].ticker
      BY <1>1, <3>1, SetsOne DEF ShapesOK, RunOK, CtxFields
    <3>3. /\ at'[r] \in {"activate", "meta"} /\ DOMAIN at' = Threads
          /\ config.meta = "enforce" => at'[r] = "meta"
          /\ \A s \in Threads \ {r} : at'[s] = at[s]
      BY <1>1, <3>1 DEF ShapesOK
    <3>4. RunOK(r)'
      BY <1>1, <3>2, <3>3 DEF RunOK, Working
    <3> QED
      BY <3>2, <3>3, <3>4
  <2> QED
    BY <2>1, <2>2
<1>4. /\ serving /\ r \notin Recalcs /\ DOMAIN runs' = Threads /\ runs'[r] \in Statuses
      /\ \A s \in Threads \ {r} : runs'[s] = runs[s]
  BY <1>1, IdleElsewhere DEF ShapesOK
<1> QED
  BY <1>1, <1>2, <1>3, <1>4, SaveFrame

\* An enforced reject goes to the rejection, never to the activation.
LEMMA MetaScoreKeeps ==
  ASSUME PInv, NEW r \in Runs, MetaScore(r)
  PROVE  PInv'
<1>1. /\ at[r] = "meta" /\ ShapesOK /\ r \in Threads /\ RunOK(r) /\ act[r] = Idle
      /\ UNCHANGED <<config, rows, lastId, fresh, exposed, orders, runs, todo, act, queue,
                     serving>>
  BY IdleElsewhere DEF MetaScore, PInv, Threads
<1>2. CASE Done(r)
  BY <1>1, <1>2, DoneKeeps, StageFrame DEF ShapesOK, RunOK
<1>3. CASE ~Done(r)
  <2>1. PICK next \in {"activate", "reject"}, verdict \in {"none", "PASS", "REJECT"} :
          \E id : /\ at' = [at EXCEPT ![r] = next]
                  /\ ctx' = [ctx EXCEPT ![r].verdict = verdict, ![r].id = id]
                  /\ config.meta = "enforce" /\ verdict = "REJECT" => next = "reject"
    BY <1>3 DEF MetaScore, Verdicts
  <2>2. /\ DOMAIN ctx' = Threads /\ \A s \in Threads \ {r} : ctx'[s] = ctx[s]
        /\ DOMAIN ctx'[r] = CtxFields /\ ctx'[r].ticker = ctx[r].ticker
        /\ ctx'[r].verdict = verdict
    BY <1>1, <2>1, SetsTwo DEF ShapesOK, RunOK, CtxFields
  <2>3. /\ at'[r] = next /\ DOMAIN at' = Threads
        /\ \A s \in Threads \ {r} : at'[s] = at[s]
    BY <1>1, <2>1 DEF ShapesOK
  <2>4. RunOK(r)'
    BY <1>1, <2>1, <2>2, <2>3 DEF RunOK, Working
  <2> QED
    BY <1>1, <2>2, <2>3, <2>4, StageFrame DEF ShapesOK
<1> QED
  BY <1>2, <1>3

LEMMA MetaRejectKeeps ==
  ASSUME PInv, NEW r \in Runs, MetaReject(r)
  PROVE  PInv'
<1>1. /\ at[r] = "reject" /\ ShapesOK /\ r \in Threads /\ RunOK(r) /\ act[r] = Idle
      /\ RowsOK /\ OrdersOK
      /\ TryMark(ctx[r].id, "ORDER_SKIPPED") /\ Done(r)
      /\ UNCHANGED <<config, lastId, fresh, exposed, orders, runs, todo, act, queue, serving>>
  BY IdleElsewhere DEF MetaReject, PInv, Threads
<1>2. RowsGoOn
  BY <1>1, SkippedGoOn
<1>3. RowsOK' /\ SubmittedHasOrder'
  BY <1>1, <1>2, RowsGoOnKeep DEF RowsOK
<1>4. /\ RunOK(r)' /\ DOMAIN at' = Threads /\ DOMAIN ctx' = Threads
      /\ \A s \in Threads \ {r} : at'[s] = at[s]
      /\ \A s \in Threads \ {r} : ctx'[s] = ctx[s]
  BY <1>1, DoneKeeps DEF RunOK
<1>5. /\ serving /\ r \notin Recalcs /\ DOMAIN runs' = Threads /\ runs'[r] \in Statuses
      /\ \A s \in Threads \ {r} : runs'[s] = runs[s]
  BY <1>1, IdleElsewhere DEF ShapesOK
<1> QED
  BY <1>1, <1>3, <1>4, <1>5, SaveFrame

\* The last row of the ticker is read by id, and only if its consensus is sure.
LEMMA ActivateKeeps ==
  ASSUME PInv, NEW r \in Runs, Activate(r)
  PROVE  PInv'
<1>1. /\ at[r] = "activate" /\ ShapesOK /\ r \in Threads /\ r \in Activators
      /\ RunOK(r) /\ act[r] = Idle
      /\ UNCHANGED <<config, rows, lastId, fresh, exposed, orders, runs, todo, queue, serving>>
  BY IdleElsewhere DEF Activate, PInv
<1>2. CASE Done(r) /\ UNCHANGED act
  BY <1>1, <1>2, DoneKeeps, StageFrame DEF ShapesOK, RunOK
<1>3. CASE ~(Done(r) /\ UNCHANGED act)
  <2>1. PICK id : /\ act' = [act EXCEPT ![r] = [Idle EXCEPT !.step = "read", !.id = id]]
                  /\ at' = [at EXCEPT ![r] = "activating"] /\ UNCHANGED ctx
    BY <1>3 DEF Activate
  <2>2. /\ DOMAIN act' = Activators /\ \A a \in Activators \ {r} : act'[a] = act[a]
        /\ act'[r] = [step |-> "read", id |-> id, ticker |-> "none", result |-> "none"]
    BY <1>1, <2>1 DEF ShapesOK, Idle
  <2>3. /\ at'[r] = "activating" /\ DOMAIN at' = Threads
        /\ \A s \in Threads \ {r} : at'[s] = at[s]
    BY <1>1, <2>1 DEF ShapesOK
  <2>4. ShapesOK'
    BY <1>1, <2>1, <2>2, <2>3 DEF ShapesOK
  <2>5. RowsOK' /\ OrdersOK'
    BY <1>1, <2>1
    DEF PInv, RowsOK, OrdersOK, OrderedIsFresh, SubmittedHasOrder, StageHonoursVerdict
  <2>6. RunOK(r)'
    BY <1>1, <2>1, <2>3 DEF RunOK, Working
  <2>7. \A s \in Runs \ {r} : RunOK(s)'
    BY <1>1, <2>1, <2>2, <2>3 DEF PInv, RunOK, Threads, Activators
  <2>8. ActOK(r)'
    BY <2>2 DEF ActOK, ActFields
  <2>9. \A a \in Activators \ {r} : ActOK(a)'
    BY <1>1, <2>2 DEF PInv, ActOK
  <2>10. \A s \in Recalcs : RecalcOK(s)'
    <3>1. \A s \in Recalcs : RecalcOK(s) /\ s \in Threads \ {r}
      BY IdleElsewhere DEF PInv, Threads
    <3> QED
      BY <2>1, <2>3, <3>1 DEF RecalcOK
  <2> QED
    BY <2>4, <2>5, <2>6, <2>7, <2>8, <2>9, <2>10 DEF PInv
<1> QED
  BY <1>2, <1>3

LEMMA ActivatedKeeps ==
  ASSUME PInv, NEW r \in Runs, Activated(r)
  PROVE  PInv'
BY DoneKeeps, StageFrame, IdleElsewhere DEF Activated, PInv, ShapesOK, RunOK

\* The end of a run is in the table, or lost.
LEMMA Completes ==
  ASSUME PInv, NEW r \in Threads, runs[r] # "none", NEW ending \in {"completed", "failed"},
         CompleteRun(r, ending)
  PROVE  /\ DOMAIN at' = Threads /\ DOMAIN runs' = Threads
         /\ \A s \in Threads \ {r} : at'[s] = at[s] /\ runs'[s] = runs[s]
         /\ runs'[r] \in Statuses \ {"none"}
         /\ \/ at'[r] = "idle" /\ runs'[r] # "running"
            \/ at'[r] = "lost"
BY DEF CompleteRun, PInv, ShapesOK, Statuses

LEMMA EndRunKeeps ==
  ASSUME PInv, NEW r \in Runs, EndRun(r)
  PROVE  PInv'
<1>1. /\ at[r] = "next" /\ ShapesOK /\ r \in Threads /\ RunOK(r) /\ act[r] = Idle
      /\ todo' = [todo EXCEPT ![r] = {}] /\ serving /\ runs[r] # "none"
      /\ UNCHANGED <<config, rows, lastId, fresh, exposed, orders, ctx, act, queue, serving>>
  BY IdleElsewhere DEF EndRun, PInv, RunOK
<1>2. PICK ending \in {"completed", "failed"} : CompleteRun(r, ending)
  BY DEF EndRun
<1>3. /\ DOMAIN at' = Threads /\ DOMAIN runs' = Threads
      /\ \A s \in Threads \ {r} : at'[s] = at[s] /\ runs'[s] = runs[s]
      /\ runs'[r] \in Statuses \ {"none"}
      /\ \/ at'[r] = "idle" /\ runs'[r] # "running"
         \/ at'[r] = "lost"
  BY <1>1, <1>2, Completes
<1>4. todo'[r] = {} /\ DOMAIN todo' = Runs /\ \A s \in Runs \ {r} : todo'[s] = todo[s]
  BY <1>1 DEF ShapesOK
<1>5. RunOK(r)'
  BY <1>1, <1>3, <1>4 DEF RunOK, Working
<1> QED
  BY <1>1, <1>3, <1>4, <1>5, StageFrame DEF ShapesOK

-----------------------------------------------------------------------------
(* The activators.                                                         *)

\* A row that is read pending is fresh.
LEMMA ReadRowKeeps ==
  ASSUME PInv, NEW a \in Activators, ReadRow(a)
  PROVE  PInv'
<1>1. /\ act[a].step = "read" /\ ShapesOK /\ RowsOK /\ OrdersOK /\ ActOK(a)
      /\ UNCHANGED <<config, rows, lastId, fresh, exposed, orders, runs, todo, at, ctx, queue,
                     serving>>
  BY DEF ReadRow, PInv
<1>2. RowsOK' /\ OrdersOK'
  BY <1>1
  DEF RowsOK, OrdersOK, OrderedIsFresh, SubmittedHasOrder, StageHonoursVerdict
<1>3. a \in Runs => at[a] = "activating"
  <2>1. act[a] # Idle
    BY <1>1 DEF Idle
  <2> QED
    BY <2>1 DEF PInv, RunOK
<1>4. /\ DOMAIN act' = Activators /\ \A b \in Activators \ {a} : act'[b] = act[b]
      /\ ActOK(a)'
  <2>1. CASE PendingRow(act[a].id)
    <3>1. act' = [act EXCEPT ![a].step = "submit", ![a].ticker = rows[act[a].id].ticker]
      BY <2>1 DEF ReadRow
    <3>2. /\ DOMAIN act' = Activators /\ \A b \in Activators \ {a} : act'[b] = act[b]
          /\ DOMAIN act'[a] = ActFields /\ act'[a].step = "submit" /\ act'[a].id = act[a].id
          /\ act'[a].ticker = rows[act[a].id].ticker
      BY <1>1, <3>1, SetsTwo DEF ShapesOK, ActOK, ActFields
    <3>3. act[a].id \in fresh /\ rows[act[a].id].ticker \in Tickers
      BY <1>1, <2>1 DEF PendingRow, RowsOK, Row
    <3> QED
      BY <1>1, <3>2, <3>3 DEF ActOK
  <2>2. CASE ~PendingRow(act[a].id)
    <3>1. act' = [act EXCEPT ![a] = Idle]
      BY <2>2 DEF ReadRow
    <3>2. /\ DOMAIN act' = Activators /\ \A b \in Activators \ {a} : act'[b] = act[b]
          /\ act'[a] = Idle
      BY <1>1, <3>1 DEF ShapesOK
    <3> QED
      BY <3>2 DEF ActOK, Idle, ActFields
  <2> QED
    BY <2>1, <2>2
<1> QED
  BY <1>1, <1>2, <1>3, <1>4, ActFrame DEF ShapesOK

\* The order that is placed is for the fresh row that was read, and not that of
\* a run whose verdict keeps it away.
LEMMA SubmitKeeps ==
  ASSUME PInv, NEW a \in Activators, Submit(a)
  PROVE  PInv'
<1> DEFINE id == act[a].id
           t == act[a].ticker
           rejected == a \in Runs /\ ctx[a].verdict = "REJECT"
           order == [row |-> id, rejected |-> rejected]
<1>1. /\ act[a].step = "submit" /\ ShapesOK /\ RowsOK /\ OrdersOK /\ ActOK(a)
      /\ UNCHANGED <<config, lastId, fresh, runs, todo, at, ctx, queue, serving>>
      /\ t \in Tickers /\ id \in fresh
  BY DEF Submit, PInv, ActOK
<1>2. PICK result :
        /\ act' = [act EXCEPT ![a].step = "mark", ![a].result = result]
        /\ result \in {"transient", "permanent", "submitted"}
        /\ \/ /\ result # "submitted" /\ UNCHANGED <<exposed, orders>>
              /\ UNCHANGED rows \/ rows' = Linked(id)
           \/ /\ result = "submitted" /\ rows' = Linked(id)
              /\ exposed' = exposed \cup {t} /\ orders' = orders \cup {order}
  <2>1. config.refusals \subseteq {"transient", "permanent", "failed"}
    BY <1>1, PipelineAssumption DEF ShapesOK, PipelineAssumption
  <2> QED
    BY <2>1 DEF Submit
<1>3. a \in Runs => at[a] = "activating"
  <2>1. act[a] # Idle
    BY <1>1 DEF Idle
  <2> QED
    BY <2>1 DEF PInv, RunOK
<1>4. /\ DOMAIN act' = Activators /\ \A b \in Activators \ {a} : act'[b] = act[b]
      /\ DOMAIN act'[a] = ActFields /\ act'[a].step = "mark" /\ act'[a].id = id
      /\ act'[a].ticker = t /\ act'[a].result = result
  BY <1>1, <1>2, SetsTwo DEF ShapesOK, ActOK, ActFields
<1>5. orders \subseteq orders' /\ exposed' \subseteq Tickers
      /\ (result = "submitted" => order \in orders')
      /\ \A o \in orders' : o \in orders \/ (o = order /\ result = "submitted")
  BY <1>1, <1>2 DEF RowsOK
<1>6. RowsGoOn
  <2>1. CASE UNCHANGED rows
    BY <1>1, <1>5, <2>1 DEF RowsOK, RowsGoOn
  <2>2. CASE rows' = Linked(id)
    <3>1. \A i \in DOMAIN rows : [rows[i] EXCEPT !.trade = TRUE] \in Row
                                 /\ [rows[i] EXCEPT !.trade = TRUE].state = rows[i].state
      BY <1>1 DEF RowsOK, Row
    <3>2. DOMAIN rows' = DOMAIN rows
          /\ \A i \in DOMAIN rows : rows'[i] \in Row /\ rows'[i].state = rows[i].state
      BY <1>1, <2>2, <3>1 DEF Linked, RowsOK
    <3> QED
      BY <1>1, <1>5, <3>2 DEF RowsGoOn
  <2> QED
    BY <1>2, <2>1, <2>2
<1>7. RowsOK' /\ SubmittedHasOrder'
  BY <1>1, <1>5, <1>6, RowsGoOnKeep
<1>8. OrderedIsFresh'
  BY <1>1, <1>5 DEF OrdersOK, OrderedIsFresh
<1>9. StageHonoursVerdict'
  <2>1. config.meta = "enforce" => ~rejected
    BY <1>3 DEF PInv, RunOK
  <2>2. order.rejected = rejected
    OBVIOUS
  <2>3. config' = config /\ \A o \in orders' : o \in orders \/ o = order
    BY <1>1, <1>5
  <2> HIDE DEF order, rejected
  <2> SUFFICES ASSUME config.meta = "enforce", NEW o \in orders' PROVE ~o.rejected
    BY <2>3 DEF StageHonoursVerdict
  <2>4. CASE o \in orders
    BY <1>1, <2>4 DEF OrdersOK, StageHonoursVerdict
  <2>5. CASE o = order
    BY <2>1, <2>2, <2>5
  <2> QED
    BY <2>3, <2>4, <2>5
<1>10. ActOK(a)'
  BY <1>1, <1>2, <1>4, <1>5 DEF ActOK
<1> QED
  BY <1>1, <1>3, <1>4, <1>5, <1>7, <1>8, <1>9, <1>10, ActFrame DEF OrdersOK, ShapesOK

\* A row is marked as submitted only after its order.
LEMMA MarkRowKeeps ==
  ASSUME PInv, NEW a \in Activators, MarkRow(a)
  PROVE  PInv'
<1>1. /\ act[a].step = "mark" /\ ShapesOK /\ RowsOK /\ OrdersOK /\ ActOK(a)
      /\ act' = [act EXCEPT ![a] = Idle]
      /\ UNCHANGED <<config, lastId, fresh, exposed, orders, runs, todo, at, ctx, queue, serving>>
  BY DEF MarkRow, PInv
<1>2. /\ DOMAIN act' = Activators /\ \A b \in Activators \ {a} : act'[b] = act[b]
      /\ act'[a] = Idle
  BY <1>1 DEF ShapesOK
<1>3. ActOK(a)'
  BY <1>2 DEF ActOK, Idle, ActFields
<1>4. RowsGoOn
  <2>1. CASE act[a].result = "submitted" /\ Mark(act[a].id, "ORDER_SUBMITTED")
    <3>1. \E o \in orders : o.row = act[a].id
      BY <1>1, <2>1 DEF ActOK
    <3>2. /\ DOMAIN rows' = DOMAIN rows
          /\ \A i \in DOMAIN rows :
               /\ rows'[i] \in Row
               /\ rows'[i].state = IF i = act[a].id THEN "ORDER_SUBMITTED" ELSE rows[i].state
      BY <1>1, <2>1, Marked DEF States
    <3> QED
      BY <1>1, <3>1, <3>2 DEF RowsGoOn
  <2>2. CASE TryMark(act[a].id, "ORDER_SKIPPED")
    BY <1>1, <2>2, SkippedGoOn
  <2>3. CASE UNCHANGED rows
    BY <1>1, <2>3 DEF RowsOK, RowsGoOn
  <2> QED
    BY <2>1, <2>2, <2>3 DEF MarkRow, TryMark
<1>5. RowsOK' /\ SubmittedHasOrder'
  BY <1>1, <1>4, RowsGoOnKeep DEF RowsOK
<1>6. OrdersOK'
  BY <1>1, <1>5 DEF OrdersOK, OrderedIsFresh, StageHonoursVerdict
<1> QED
  BY <1>1, <1>2, <1>3, <1>5, <1>6, ActFrame DEF ShapesOK

-----------------------------------------------------------------------------
(* The task, the recalculation and the rest of the world.                  *)

LEMMA ListPendingKeeps ==
  ASSUME PInv, ListPending
  PROVE  PInv'
<1>1. /\ RowsOK /\ OrdersOK
      /\ \/ UNCHANGED rows
         \/ rows' = [i \in DOMAIN rows |->
                       IF i \in Pending /\ rows[i].old
                       THEN [rows[i] EXCEPT !.state = "EXPIRED"] ELSE rows[i]]
      /\ queue' = {<<i, rows[i].ticker>> : i \in {j \in Pending : ~rows[j].old}}
      /\ UNCHANGED <<config, lastId, fresh, exposed, orders, runs, todo, at, ctx, act, serving>>
  BY DEF ListPending, TakeCandidates, PInv
<1>2. \A i \in DOMAIN rows : [rows[i] EXCEPT !.state = "EXPIRED"] \in Row
                             /\ [rows[i] EXCEPT !.state = "EXPIRED"].state = "EXPIRED"
  BY <1>1 DEF RowsOK, Row, States
<1>3. RowsGoOn
  BY <1>1, <1>2 DEF RowsGoOn, RowsOK
<1>4. RowsOK' /\ SubmittedHasOrder'
  BY <1>1, <1>3, RowsGoOnKeep DEF RowsOK
<1>5. queue' \subseteq Ids \X Tickers
  <2>1. DOMAIN rows \subseteq Ids /\ \A i \in DOMAIN rows : rows[i].ticker \in Tickers
    BY <1>1, PipelineAssumption DEF RowsOK, Row, Ids, PipelineAssumption
  <2> QED
    BY <1>1, <2>1 DEF Pending
<1> QED
  BY <1>1, <1>4, <1>5, RowsFrame

LEMMA NextPendingKeeps ==
  ASSUME PInv, NextPending
  PROVE  PInv'
<1>1. /\ ShapesOK /\ RowsOK /\ OrdersOK /\ act[PendingTask] = Idle
      /\ PendingTask \in Activators /\ PendingTask \notin Runs
      /\ UNCHANGED <<config, lastId, fresh, exposed, orders, runs, todo, at, ctx, serving>>
  BY PipelineAssumption DEF NextPending, PInv, Activators, Threads, PipelineAssumption
<1>2. PICK candidate \in queue :
        /\ queue' = queue \ {candidate}
        /\ \/ TryMark(candidate[1], "ORDER_SKIPPED") /\ UNCHANGED act
           \/ /\ act' = [act EXCEPT ![PendingTask] = [Idle EXCEPT !.step = "read",
                                                                 !.id = candidate[1]]]
              /\ UNCHANGED rows
  BY DEF NextPending
<1>3. queue' \subseteq Ids \X Tickers
  BY <1>1, <1>2 DEF ShapesOK
<1>4. CASE TryMark(candidate[1], "ORDER_SKIPPED") /\ UNCHANGED act
  <2>1. RowsGoOn
    BY <1>1, <1>4, SkippedGoOn
  <2>2. RowsOK' /\ SubmittedHasOrder'
    BY <1>1, <2>1, RowsGoOnKeep DEF RowsOK
  <2> QED
    BY <1>1, <1>3, <1>4, <2>2, RowsFrame
<1>5. CASE /\ act' = [act EXCEPT ![PendingTask] = [Idle EXCEPT !.step = "read",
                                                              !.id = candidate[1]]]
           /\ UNCHANGED rows
  <2>1. /\ DOMAIN act' = Activators
        /\ \A a \in Activators \ {PendingTask} : act'[a] = act[a]
        /\ act'[PendingTask] = [step |-> "read", id |-> candidate[1], ticker |-> "none",
                                result |-> "none"]
    BY <1>1, <1>5 DEF ShapesOK, Idle
  <2>2. ActOK(PendingTask)'
    BY <2>1 DEF ActOK, ActFields
  <2>3. RowsOK' /\ OrdersOK'
    BY <1>1, <1>5
    DEF RowsOK, OrdersOK, OrderedIsFresh, SubmittedHasOrder, StageHonoursVerdict
  <2> QED
    BY <1>1, <1>3, <2>1, <2>2, <2>3, ActFrame
<1> QED
  BY <1>2, <1>4, <1>5

\* A recalculated row is skipped from the start, and its id is a new one.
LEMMA RecalculateKeeps ==
  ASSUME PInv, NEW r \in Recalcs, Recalculate(r)
  PROVE  PInv'
<1>1. /\ ShapesOK /\ RowsOK /\ OrdersOK /\ RecalcOK(r) /\ r \in Threads /\ r \notin Runs
      /\ SubmittedHasOrder
      /\ at[r] # "idle" => serving
  BY PipelineAssumption DEF PInv, ShapesOK, Threads, PipelineAssumption, OrdersOK
<1>0. /\ DOMAIN runs = Threads /\ runs[r] \in Statuses
      /\ DOMAIN at = Threads /\ DOMAIN ctx = Threads
  BY <1>1 DEF ShapesOK
<1>2. CASE RecalcStart(r)
  <2>1. /\ UNCHANGED <<config, rows, lastId, fresh, exposed, orders, todo, act, queue, serving>>
        /\ at' = [at EXCEPT ![r] = "delete"] /\ ListRun(r)
    BY <1>2 DEF RecalcStart
  <2>2. PICK t \in Tickers : ctx' = [ctx EXCEPT ![r].ticker = t, ![r].id = FirstOf(t)]
    BY <1>2 DEF RecalcStart
  <2>3. /\ DOMAIN ctx' = Threads /\ \A s \in Threads \ {r} : ctx'[s] = ctx[s]
        /\ DOMAIN ctx'[r] = CtxFields /\ ctx'[r].ticker = t
    BY <1>1, <2>2, SetsTwo DEF ShapesOK, RecalcOK, CtxFields
  <2>4. /\ serving /\ DOMAIN at' = Threads /\ DOMAIN runs' = Threads
        /\ runs'[r] \in Statuses
        /\ \A s \in Threads \ {r} : at'[s] = at[s] /\ runs'[s] = runs[s]
    BY <1>0, <1>1, <2>1 DEF ListRun, Statuses
  <2>5. RecalcOK(r)'
    BY <2>3 DEF RecalcOK
  <2>6. RowsOK' /\ SubmittedHasOrder'
    BY <1>1, <2>1 DEF RowsOK, SubmittedHasOrder
  <2>7. \A s \in Threads \ {r} : at'[s] = at[s] /\ runs'[s] = runs[s] /\ ctx'[s] = ctx[s]
    BY <2>3, <2>4
  <2> QED
    BY <1>1, <2>1, <2>3, <2>4, <2>5, <2>6, <2>7, SaveFrame
<1>3. CASE RecalcDelete(r)
  <2>1. /\ UNCHANGED <<config, lastId, fresh, exposed, orders, runs, todo, ctx, act, queue,
                       serving>>
        /\ at[r] = "delete"
        /\ UNCHANGED rows \/ rows' = [i \in DOMAIN rows \ {ctx[r].id} |-> rows[i]]
    BY <1>3 DEF RecalcDelete
  <2>2. PICK next : at' = [at EXCEPT ![r] = next]
    BY <1>3 DEF RecalcDelete
  <2>3. RowsGoOn
    BY <1>1, <2>1 DEF RowsOK, RowsGoOn
  <2>4. RowsOK' /\ SubmittedHasOrder'
    BY <1>1, <2>1, <2>3, RowsGoOnKeep DEF RowsOK
  <2>5. serving /\ DOMAIN at' = Threads /\ DOMAIN runs' = Threads /\ DOMAIN ctx' = Threads
        /\ runs'[r] \in Statuses
    BY <1>0, <1>1, <2>1, <2>2
  <2>6. \A s \in Threads \ {r} : at'[s] = at[s] /\ runs'[s] = runs[s] /\ ctx'[s] = ctx[s]
    BY <1>0, <2>1, <2>2
  <2>7. RecalcOK(r)'
    BY <1>1, <2>1 DEF RecalcOK
  <2> QED
    BY <1>1, <2>1, <2>4, <2>5, <2>6, <2>7, SaveFrame
<1>4. CASE RecalcInsert(r)
  <2>1. /\ at[r] = "insert" /\ at' = [at EXCEPT ![r] = "complete"]
        /\ UNCHANGED <<config, exposed, orders, runs, todo, ctx, act, queue, serving>>
    BY <1>4 DEF RecalcInsert
  <2>2. RowsOK' /\ SubmittedHasOrder' /\ fresh \subseteq fresh'
    <3>1. CASE Insert(ctx[r].ticker, "ORDER_SKIPPED", FALSE)
      BY <1>1, <2>1, <3>1, InsertKeeps DEF RecalcOK
    <3>2. CASE UNCHANGED <<rows, lastId, fresh>>
      BY <1>1, <2>1, <3>2 DEF RowsOK, SubmittedHasOrder
    <3> QED
      BY <1>4, <3>1, <3>2 DEF RecalcInsert
  <2>3. serving /\ DOMAIN at' = Threads /\ DOMAIN runs' = Threads /\ DOMAIN ctx' = Threads
        /\ runs'[r] \in Statuses /\ at'[r] = "complete"
    BY <1>0, <1>1, <2>1
  <2>4. \A s \in Threads \ {r} : at'[s] = at[s] /\ runs'[s] = runs[s] /\ ctx'[s] = ctx[s]
    BY <1>0, <2>1
  <2>5. RecalcOK(r)'
    BY <1>1, <2>1, <2>3 DEF RecalcOK
  <2> QED
    BY <1>1, <2>1, <2>2, <2>3, <2>4, <2>5, SaveFrame
<1>5. CASE RecalcEnd(r)
  <2>1. /\ at[r] = "complete" /\ CompleteRun(r, "completed") /\ serving
        /\ UNCHANGED <<config, rows, lastId, fresh, exposed, orders, todo, ctx, act, queue, serving>>
    BY <1>1, <1>5 DEF RecalcEnd
  <2>2. /\ DOMAIN at' = Threads /\ DOMAIN runs' = Threads /\ runs'[r] \in Statuses
        /\ \A s \in Threads \ {r} : at'[s] = at[s] /\ runs'[s] = runs[s]
        /\ at'[r] \in {"idle", "lost"}
    BY <1>0, <1>1, <2>1 DEF CompleteRun, Statuses
  <2>3. RecalcOK(r)'
    BY <1>1, <2>1, <2>2 DEF RecalcOK
  <2>4. RowsOK' /\ SubmittedHasOrder'
    BY <1>1, <2>1 DEF RowsOK, SubmittedHasOrder
  <2>5. \A s \in Threads \ {r} : at'[s] = at[s] /\ runs'[s] = runs[s] /\ ctx'[s] = ctx[s]
    BY <2>1, <2>2
  <2> QED
    BY <1>0, <1>1, <2>1, <2>2, <2>3, <2>4, <2>5, SaveFrame
<1> QED
  BY <1>2, <1>3, <1>4, <1>5 DEF Recalculate

LEMMA AgeKeeps ==
  ASSUME PInv, NEW i \in Ids, Age(i)
  PROVE  PInv'
<1>1. /\ RowsOK /\ OrdersOK /\ i \in DOMAIN rows /\ queue \subseteq Ids \X Tickers
      /\ rows' = [rows EXCEPT ![i].old = TRUE]
      /\ UNCHANGED <<config, lastId, fresh, exposed, orders, runs, todo, at, ctx, act, queue, serving>>
  BY DEF Age, PInv, Pending, ShapesOK
<1>2. [rows[i] EXCEPT !.old = TRUE] \in Row /\ [rows[i] EXCEPT !.old = TRUE].state = rows[i].state
  BY <1>1 DEF RowsOK, Row
<1>3. DOMAIN rows' = DOMAIN rows
      /\ \A k \in DOMAIN rows : rows'[k] \in Row /\ rows'[k].state = rows[k].state
  BY <1>1, <1>2 DEF RowsOK
<1>4. RowsGoOn
  BY <1>1, <1>3 DEF RowsGoOn
<1>5. RowsOK' /\ SubmittedHasOrder'
  BY <1>1, <1>4, RowsGoOnKeep DEF RowsOK
<1> QED
  BY <1>1, <1>5, RowsFrame

LEMMA CloseKeeps ==
  ASSUME PInv, NEW t \in Tickers, Close(t)
  PROVE  PInv'
<1>1. RowsOK' /\ SubmittedHasOrder'
  BY DEF Close, PInv, RowsOK, OrdersOK, SubmittedHasOrder
<1> QED
  BY <1>1, RowsFrame DEF Close, PInv, ShapesOK

LEMMA CrashKeeps ==
  ASSUME PInv, Crash
  PROVE  PInv'
<1>1. /\ serving' = FALSE
      /\ at' = [r \in Threads |-> "idle"] /\ todo' = [r \in Runs |-> {}]
      /\ ctx' = [r \in Threads |-> NoContext] /\ act' = [a \in Activators |-> Idle]
      /\ queue' = {} /\ UNCHANGED <<config, rows, lastId, fresh, exposed, orders, runs>>
  BY DEF Crash
<1>2. ShapesOK'
  BY <1>1 DEF PInv, ShapesOK
<1>3. RowsOK' /\ OrdersOK'
  BY <1>1
  DEF PInv, RowsOK, OrdersOK, OrderedIsFresh, SubmittedHasOrder, StageHonoursVerdict
<1>4. \A r \in Runs : RunOK(r)'
  <2> SUFFICES ASSUME NEW r \in Runs PROVE RunOK(r)'
    OBVIOUS
  <2>1. /\ r \in Threads /\ ~serving' /\ at'[r] = "idle" /\ todo'[r] = {}
        /\ ctx'[r] = NoContext /\ act'[r] = Idle
    BY <1>1 DEF Threads, Activators
  <2> QED
    BY <2>1 DEF RunOK, NoContext, CtxFields, Working
<1>5. \A a \in Activators : ActOK(a)'
  BY <1>1 DEF ActOK, Idle, ActFields
<1>6. \A r \in Recalcs : RecalcOK(r)'
  BY <1>1 DEF RecalcOK, NoContext, CtxFields, Threads
<1> QED
  BY <1>2, <1>3, <1>4, <1>5, <1>6 DEF PInv

\* A start finds no thread: what the table shows as running is marked, or lost.
LEMMA RestartKeeps ==
  ASSUME PInv, Restart
  PROVE  PInv'
<1>1. /\ ~serving /\ serving' = TRUE /\ ShapesOK
      /\ \A r \in Threads : at[r] = "idle" /\ runs[r] \in Statuses
      /\ UNCHANGED <<config, rows, lastId, fresh, exposed, orders, todo, ctx, act, queue>>
  BY DEF Restart, PInv, ShapesOK
<1>2. /\ DOMAIN runs' = Threads /\ DOMAIN at' = Threads
      /\ \A r \in Threads :
           /\ runs'[r] \in Statuses /\ at'[r] \in {"idle", "lost"}
           /\ runs'[r] = "running" => at'[r] = "lost"
           /\ runs'[r] = "none" => at'[r] = "idle"
  <2>1. CASE /\ runs' = [r \in Threads |-> IF runs[r] = "running" THEN "failed" ELSE runs[r]]
             /\ UNCHANGED at
    BY <1>1, <2>1 DEF ShapesOK, Statuses
  <2>2. CASE /\ at' = [r \in Threads |-> IF runs[r] = "running" THEN "lost" ELSE at[r]]
             /\ UNCHANGED runs
    BY <1>1, <2>2 DEF ShapesOK
  <2> QED
    BY <2>1, <2>2 DEF Restart
<1>3. ShapesOK'
  BY <1>1, <1>2 DEF ShapesOK
<1>4. RowsOK' /\ OrdersOK'
  BY <1>1
  DEF PInv, RowsOK, OrdersOK, OrderedIsFresh, SubmittedHasOrder, StageHonoursVerdict
<1>5. \A r \in Runs : RunOK(r)'
  <2> SUFFICES ASSUME NEW r \in Runs PROVE RunOK(r)'
    OBVIOUS
  <2>1. r \in Threads /\ RunOK(r) /\ act[r] = Idle /\ ctx' = ctx /\ todo' = todo /\ act' = act
    BY <1>1, IdleElsewhere
  <2>2. /\ at'[r] \in {"idle", "lost"} /\ (runs'[r] = "running" => at'[r] = "lost")
        /\ runs'[r] = "none" => at'[r] = "idle"
    BY <1>2, <2>1
  <2> QED
    BY <2>1, <2>2 DEF RunOK, Working
<1>6. \A a \in Activators : ActOK(a)'
  BY <1>1 DEF PInv, ActOK
<1>7. \A r \in Recalcs : RecalcOK(r)'
  BY <1>1, <1>2 DEF PInv, RecalcOK, Threads
<1> QED
  BY <1>3, <1>4, <1>5, <1>6, <1>7 DEF PInv

-----------------------------------------------------------------------------
LEMMA PInvStep == PInv /\ [Next]_vars => PInv'
<1> SUFFICES ASSUME PInv, [Next]_vars PROVE PInv'
  OBVIOUS
<1>1. ASSUME NEW a \in Activators, ActivateOrder(a) PROVE PInv'
  BY <1>1, ReadRowKeeps, SubmitKeeps, MarkRowKeeps DEF ActivateOrder
<1>2. ASSUME NEW r \in Runs, StartRun(r) \/ Run(r) PROVE PInv'
  BY <1>1, <1>2, StartRunKeeps, BeginKeeps, ConsensusKeeps, SaveKeeps, MetaScoreKeeps,
     MetaRejectKeeps, ActivateKeeps, ActivatedKeeps, EndRunKeeps
  DEF Run, Activators
<1>3. CASE ProcessPending
  BY <1>1, <1>3, ListPendingKeeps, NextPendingKeeps DEF ProcessPending, Activators
<1>4. CASE UNCHANGED vars
  <2>1. ShapesOK' /\ RowsOK' /\ OrdersOK'
    BY <1>4
    DEF vars, PInv, ShapesOK, RowsOK, OrdersOK, OrderedIsFresh, SubmittedHasOrder,
        StageHonoursVerdict
  <2>2. \A r \in Runs : RunOK(r)'
    BY <1>4 DEF vars, PInv, RunOK
  <2>3. \A a \in Activators : ActOK(a)'
    BY <1>4 DEF vars, PInv, ActOK
  <2>4. \A r \in Recalcs : RecalcOK(r)'
    BY <1>4 DEF vars, PInv, RecalcOK
  <2> QED
    BY <2>1, <2>2, <2>3, <2>4 DEF PInv
<1> QED
  BY <1>2, <1>3, <1>4, RecalculateKeeps, AgeKeeps, CloseKeeps, CrashKeeps, RestartKeeps
  DEF Next

LEMMA PInvHolds == Spec => []PInv
BY InitPInv, PInvStep, PTL DEF Spec

LEMMA WellTyped == PInv => TypeOK
<1> SUFFICES ASSUME PInv PROVE TypeOK
  OBVIOUS
<1>1. \A i \in DOMAIN rows : rows[i].state \in States /\ rows[i].ticker \in Tickers
  BY DEF PInv, RowsOK, Row
<1>2. \A r \in Runs : act[r] # Idle => at[r] = "activating"
  BY DEF PInv, RunOK
<1>3. \A a \in Activators : act[a].step \in {"idle", "read", "submit", "mark"}
  BY DEF PInv, ActOK
<1> QED
  BY <1>1, <1>2, <1>3 DEF PInv, TypeOK, RowsOK, ShapesOK, Statuses

\* However the runs, the task, a recalculation, crashes, starts and failed writes
\* interleave: an order is placed only for a row that a run saved for a direction, a
\* row that says it was submitted has one, no run that rejects where it is enforced
\* places one itself, and while the server is up a run the table shows as running
\* has its thread, unless the write of its end or a clean-up has failed.
THEOREM OrdersAreAlwaysEarned == Spec => []OrdersAreEarned
<1>1. PInv => OrdersAreEarned
  <2> SUFFICES ASSUME PInv PROVE OrdersAreEarned
    OBVIOUS
  <2>1. RunningIsAlive
    BY DEF PInv, RunOK, RunningIsAlive
  <2> QED
    BY <2>1, WellTyped DEF PInv, OrdersOK, OrdersAreEarned
<1> QED
  BY <1>1, PInvHolds, PTL

-----------------------------------------------------------------------------
(* What is settled stays so.                                               *)

\* Only a row that is pending is taken in hand.
LEMMA HandStep ==
  ASSUME PInv, Next, NEW i, InHand(i)', ~InHand(i)
  PROVE  PendingRow(i)
<1>1. PICK a \in Activators : act'[a].id = i /\ act'[a].step \in {"submit", "mark"}
  BY DEF InHand
<1>2. /\ ShapesOK /\ \A b \in Activators : ActOK(b)
      /\ \A b \in Activators : ~(act[b].id = i /\ act[b].step \in {"submit", "mark"})
  BY DEF PInv, InHand
<1>3. act'[a] # act[a]
  BY <1>1, <1>2
<1>4. CASE \E b \in Activators : ActivateOrder(b)
  <2>1. PICK b \in Activators : ActivateOrder(b)
    BY <1>4
  <2>2. DOMAIN act = Activators /\ ActOK(b)
    BY <1>2 DEF ShapesOK
  <2>3. CASE MarkRow(b)
    BY <1>1, <1>3, <2>2, <2>3 DEF MarkRow, Idle
  <2>4. CASE Submit(b)
    <3>1. \E result : act' = [act EXCEPT ![b].step = "mark", ![b].result = result]
          /\ act[b].step = "submit"
      BY <2>4 DEF Submit
    <3>2. /\ act[b].step = "submit" /\ act'[b].id = act[b].id
          /\ \A c \in Activators \ {b} : act'[c] = act[c]
      BY <2>2, <3>1, SetsTwo DEF ActOK, ActFields
    <3> QED
      BY <1>1, <1>2, <1>3, <3>2
  <2>5. CASE ReadRow(b)
    <3>1. CASE PendingRow(act[b].id)
      <4>1. act' = [act EXCEPT ![b].step = "submit", ![b].ticker = rows[act[b].id].ticker]
        BY <2>5, <3>1 DEF ReadRow
      <4>2. act'[b].id = act[b].id /\ \A c \in Activators \ {b} : act'[c] = act[c]
        BY <2>2, <4>1, SetsTwo DEF ActOK, ActFields
      <4> QED
        BY <1>1, <1>3, <3>1, <4>2
    <3>2. CASE ~PendingRow(act[b].id)
      BY <1>1, <1>3, <2>2, <2>5, <3>2 DEF ReadRow, Idle
    <3> QED
      BY <3>1, <3>2
  <2> QED
    BY <2>1, <2>3, <2>4, <2>5 DEF ActivateOrder
<1>5. CASE \E r \in Runs : Activate(r)
  <2>1. PICK r \in Runs : Activate(r)
    BY <1>5
  <2>2. \/ UNCHANGED act
        \/ \E id : act' = [act EXCEPT ![r] = [Idle EXCEPT !.step = "read", !.id = id]]
    BY <2>1 DEF Activate
  <2> QED
    BY <1>1, <1>2, <1>3, <2>2 DEF ShapesOK, Idle
<1>6. CASE NextPending
  <2>1. \/ UNCHANGED act
        \/ \E id : act' = [act EXCEPT ![PendingTask] = [Idle EXCEPT !.step = "read", !.id = id]]
    BY <1>6 DEF NextPending
  <2> QED
    BY <1>1, <1>2, <1>3, <2>1 DEF ShapesOK, Idle
<1>7. CASE Crash
  BY <1>1, <1>7 DEF Crash, Idle
<1>8. CASE UNCHANGED act
  BY <1>3, <1>8
<1> QED
  BY <1>4, <1>5, <1>6, <1>7, <1>8
  DEF Next, Run, StartRun, Begin, Consensus, Save, MetaScore, MetaReject, Activated, EndRun,
      ProcessPending, ListPending, Recalculate, RecalcStart, RecalcDelete, RecalcInsert,
      RecalcEnd, Restart, Age, Close, Activators

\* A row that no one has in hand is marked as skipped only, unless it is pending.
LEMMA SettledStep ==
  ASSUME PInv, Next, NEW i \in DOMAIN rows, i \in DOMAIN rows', ~PendingRow(i), ~InHand(i),
         rows[i].state \in {"ORDER_SKIPPED", "EXPIRED"}
  PROVE  rows'[i].state \in {rows[i].state, "ORDER_SKIPPED"}
<1>1. RowsOK /\ rows[i] \in Row /\ i \in 1..lastId /\ lastId \in Nat
  BY PipelineAssumption DEF PInv, RowsOK, PipelineAssumption
<1>2. ASSUME NEW ticker, NEW state, NEW isFresh, Insert(ticker, state, isFresh)
      PROVE  rows'[i] = rows[i]
  BY <1>1, <1>2 DEF Insert
<1>3. ASSUME NEW id, TryMark(id, "ORDER_SKIPPED")
      PROVE  rows'[i].state \in {rows[i].state, "ORDER_SKIPPED"}
  BY <1>1, <1>3, Marked DEF States, TryMark
<1>4. CASE \E b \in Activators : ActivateOrder(b)
  <2>1. PICK b \in Activators : ActivateOrder(b)
    BY <1>4
  <2>2. CASE ReadRow(b)
    BY <2>2 DEF ReadRow
  <2>3. CASE Submit(b)
    <3>1. UNCHANGED rows \/ rows' = Linked(act[b].id)
      BY <2>3 DEF Submit
    <3>2. rows'[i].state = rows[i].state
      BY <1>1, <3>1 DEF Linked, Row
    <3> QED
      BY <3>2
  <2>4. CASE MarkRow(b)
    <3>1. act[b].id # i
      BY <2>4 DEF MarkRow, InHand
    <3>2. UNCHANGED rows \/ \E state : Mark(act[b].id, state)
      BY <2>4 DEF MarkRow, TryMark
    <3>3. rows'[i] = rows[i]
      BY <3>1, <3>2 DEF Mark
    <3> QED
      BY <3>3
  <2> QED
    BY <2>1, <2>2, <2>3, <2>4 DEF ActivateOrder
<1>5. CASE \E r \in Runs : Save(r) \/ MetaReject(r)
  BY <1>2, <1>3, <1>5 DEF Save, MetaReject
<1>6. CASE ListPending
  BY <1>6 DEF ListPending, Pending
<1>7. CASE NextPending
  BY <1>3, <1>7 DEF NextPending
<1>8. CASE \E r \in Recalcs : Recalculate(r)
  <2>1. PICK r \in Recalcs : Recalculate(r)
    BY <1>8
  <2>2. CASE RecalcStart(r)
    BY <2>2 DEF RecalcStart
  <2>3. CASE RecalcDelete(r)
    <3>1. UNCHANGED rows \/ \E first : rows' = [k \in DOMAIN rows \ {first} |-> rows[k]]
      BY <2>3 DEF RecalcDelete
    <3>2. rows'[i] = rows[i]
      BY <3>1
    <3> QED
      BY <3>2
  <2>4. CASE RecalcInsert(r)
    BY <1>2, <2>4 DEF RecalcInsert
  <2>5. CASE RecalcEnd(r)
    BY <2>5 DEF RecalcEnd
  <2> QED
    BY <2>1, <2>2, <2>3, <2>4, <2>5 DEF Recalculate
<1>9. CASE \E k \in Ids : Age(k)
  BY <1>9 DEF Age, Pending
<1>10. CASE UNCHANGED rows
  BY <1>10
<1> QED
  BY <1>4, <1>5, <1>6, <1>7, <1>8, <1>9, <1>10
  DEF Next, Run, StartRun, Begin, Consensus, MetaScore, Activate, Activated, EndRun,
      ProcessPending, Close, Crash, Restart, Activators

\* A row that was skipped or has expired, and that no activator read while it was
\* still pending, is never submitted afterwards: no thread takes it in hand again
\* or marks it otherwise, whatever ids the others hold.
THEOREM SettledRowsStay == Spec => SettledStays
<1> DEFINE Stays ==
      \A i \in DOMAIN rows :
        rows[i].state \in {"ORDER_SKIPPED", "EXPIRED"} /\ ~InHand(i)
        => /\ ~InHand(i)'
           /\ i \in DOMAIN rows' => rows'[i].state \in {rows[i].state, "ORDER_SKIPPED"}
<1>1. PInv /\ [Next]_vars => [Stays]_vars
  <2> SUFFICES ASSUME PInv, Next, NEW i \in DOMAIN rows,
                      rows[i].state \in {"ORDER_SKIPPED", "EXPIRED"}, ~InHand(i)
               PROVE  /\ ~InHand(i)'
                      /\ i \in DOMAIN rows' =>
                           rows'[i].state \in {rows[i].state, "ORDER_SKIPPED"}
    OBVIOUS
  <2>1. ~PendingRow(i)
    BY DEF PendingRow
  <2> QED
    BY <2>1, HandStep, SettledStep
<1> QED
  BY <1>1, PInvHolds, PTL DEF Spec, SettledStays

-----------------------------------------------------------------------------
(* Least and greatest days.                                                *)

LEMMA LeastIsThere ==
  ASSUME NEW S \in SUBSET Nat, S # {}
  PROVE  \E i \in S : \A j \in S : i =< j
<1> DEFINE below == {ss \in Nat \X Nat : ss[1] < ss[2]}
<1>1. below = OpToRel(<, Nat)
  BY Zenon DEF OpToRel
<1>2. IsWellFoundedOn(below, Nat)
  BY <1>1, NatLessThanWellFounded, Zenon
<1> HIDE DEF below
<1>3. PICK i \in S : \A j \in S : ~(<<j, i>> \in below)
  BY <1>2, WFMin
<1>4. \A j \in S : i =< j
  <2> SUFFICES ASSUME NEW j \in S, j < i PROVE FALSE
    OBVIOUS
  <2>1. <<j, i>> \in Nat \X Nat /\ <<j, i>>[1] < <<j, i>>[2]
    OBVIOUS
  <2>2. <<j, i>> \in below
    BY <2>1, Zenon DEF below
  <2> QED
    BY <1>3, <2>2
<1> QED
  BY <1>4

LEMMA MinIsLeast ==
  ASSUME NEW S \in SUBSET Nat, S # {}
  PROVE  Min(S) \in S /\ \A j \in S : Min(S) =< j
BY LeastIsThere DEF Min

LEMMA MaxIsGreatest ==
  ASSUME NEW n \in Nat, NEW S \in SUBSET (0 .. n), S # {}
  PROVE  Max(S) \in S /\ \A j \in S : j =< Max(S)
<1> DEFINE T == {n - x : x \in S}
<1>1. T \in SUBSET Nat /\ T # {}
  <2>1. \A x \in S : x \in 0 .. n /\ n - x \in Nat
    OBVIOUS
  <2> QED
    BY <2>1
<1>2. PICK t \in T : \A u \in T : t =< u
  BY <1>1, LeastIsThere, Zenon
<1>3. PICK x \in S : t = n - x
  BY <1>2
<1>4. \A y \in S : y =< x
  BY <1>2, <1>3
<1> QED
  BY <1>4 DEF Max

\* Of a finite set of days there is an i-th one for each i.
LEMMA NthDay ==
  ASSUME NEW S \in SUBSET Nat, IsFiniteSet(S), NEW i \in 1 .. Cardinality(S)
  PROVE  \E d \in S : Cardinality({e \in S : e < d}) = i - 1
<1> DEFINE size == Cardinality(S)
           Before(d) == {e \in S : e < d}
           Bad == {j \in 1 .. size : ~\E d \in S : Cardinality(Before(d)) = j - 1}
<1>0. size \in Nat
  BY FS_CardinalityType
<1>1. 1 \notin Bad
  <2> SUFFICES ASSUME 1 \in 1 .. size PROVE \E d \in S : Cardinality(Before(d)) = 1 - 1
    OBVIOUS
  <2>1. S # {}
    BY <1>0, FS_EmptySet
  <2>2. PICK d \in S : \A e \in S : d =< e
    BY <2>1, LeastIsThere
  <2>3. Before(d) = {}
    <3>1. \A e \in S : e \in Nat
      OBVIOUS
    <3>2. \A e \in S : ~(e < d)
      BY <2>2, <3>1
    <3> QED
      BY <3>2
  <2>4. Cardinality(Before(d)) = 0
    BY <2>3, FS_EmptySet
  <2> QED
    BY <2>4
<1>2. ASSUME NEW j \in 1 .. size, j + 1 \in Bad PROVE j \in Bad
  <2> SUFFICES ASSUME NEW d \in S, Cardinality(Before(d)) = j - 1 PROVE FALSE
    OBVIOUS
  <2>0. j \in Nat /\ j < size /\ d \in Nat
    BY <1>0, <1>2
  <2> DEFINE upto == Before(d) \cup {d}
             After == {e \in S : e > d}
  <2>1. IsFiniteSet(Before(d)) /\ d \notin Before(d)
    BY <2>0, FS_Subset
  <2>2. Cardinality(upto) = j
    <3> DEFINE before == Before(d)
    <3>1. IsFiniteSet(before) /\ d \notin before /\ Cardinality(before) = j - 1
      BY <1>2, <2>1
    <3> HIDE DEF before
    <3>2. Cardinality(before \cup {d}) = Cardinality(before) + 1
      BY <3>1, FS_AddElement
    <3>3. Cardinality(before \cup {d}) = j
      BY <2>0, <3>1, <3>2
    <3> QED
      BY <3>3 DEF before
  <2>3. After # {}
    <3> SUFFICES ASSUME After = {} PROVE FALSE
      OBVIOUS
    <3>1. \A e \in S : e < d \/ e = d \/ e > d
      BY <2>0
    <3>2. S = upto
      BY <3>1
    <3> QED
      BY <2>0, <2>2, <3>2
  <2>4. PICK next \in After : \A e \in After : next =< e
    <3>1. After \in SUBSET Nat
      OBVIOUS
    <3> QED
      BY <2>3, <3>1, LeastIsThere
  <2>5. Before(next) = upto
    <3>1. \A e \in S : e \in Nat /\ (e > d => next =< e)
      BY <2>4
    <3>2. next \in Nat /\ next \in S /\ next > d
      BY <2>4
    <3>3. \A e \in S : e < next <=> (e < d \/ e = d)
      BY <2>0, <3>1, <3>2
    <3> QED
      BY <3>3
  <2>6. Cardinality(Before(next)) = (j + 1) - 1
    BY <2>0, <2>2, <2>5
  <2> QED
    BY <1>2, <2>4, <2>6
<1>3. Bad = {}
  <2> SUFFICES ASSUME Bad # {} PROVE FALSE
    OBVIOUS
  <2>1. Bad \in SUBSET Nat /\ \A j \in Bad : j \in 1 .. size
    BY <1>0
  <2> HIDE DEF Bad
  <2>2. PICK k \in Bad : \A j \in Bad : k =< j
    BY <2>1, LeastIsThere
  <2>3. k \in 1 .. size /\ k # 1
    BY <1>1, <2>1, <2>2
  <2>4. k - 1 \in 1 .. size /\ (k - 1) + 1 = k
    BY <1>0, <2>3
  <2>5. k - 1 \in Bad
    BY <1>2, <2>4
  <2> QED
    BY <2>2, <2>3, <2>5
<1> QED
  BY <1>3

-----------------------------------------------------------------------------
(* Sums.  SumFunction takes the values one after the other: that there is  *)
(* a function like the one it defines by recursion, and what all of its    *)
(* values have in common, follows from the least counterexample.           *)

Pick(s) == CHOOSE x \in s : TRUE
Summed(f, s, g) == IF s = {} THEN 0 ELSE f[Pick(s)] + g[s \ {Pick(s)}]

LEMMA PickOne ==
  ASSUME NEW s, s # {}, IsFiniteSet(s)
  PROVE  /\ Pick(s) \in s /\ IsFiniteSet(s \ {Pick(s)})
         /\ Cardinality(s) \in Nat \ {0}
         /\ Cardinality(s \ {Pick(s)}) = Cardinality(s) - 1
<1>1. Pick(s) \in s
  BY DEF Pick
<1>2. IsFiniteSet(s \ {Pick(s)}) /\ Cardinality(s \ {Pick(s)}) = Cardinality(s) - 1
  BY <1>1, FS_RemoveElement
<1>3. Cardinality(s) \in Nat /\ Cardinality(s) # 0
  BY FS_CardinalityType, FS_EmptySet
<1> QED
  BY <1>1, <1>2, <1>3

\* A property of sets that is lost by no element put back is one of all.
LEMMA NoLeastSet ==
  ASSUME NEW S, IsFiniteSet(S), NEW Bad \in SUBSET SUBSET S, {} \notin Bad,
         \A s \in Bad : s # {} => s \ {Pick(s)} \in Bad
  PROVE  Bad = {}
<1> SUFFICES ASSUME Bad # {} PROVE FALSE
  OBVIOUS
<1> DEFINE sizes == {Cardinality(s) : s \in Bad}
<1>1. \A s \in Bad : IsFiniteSet(s) /\ s # {} /\ Cardinality(s) \in Nat
  <2> SUFFICES ASSUME NEW s \in Bad PROVE IsFiniteSet(s) /\ s # {} /\ Cardinality(s) \in Nat
    OBVIOUS
  <2>1. s \in SUBSET S /\ s # {}
    OBVIOUS
  <2>2. IsFiniteSet(s)
    BY <2>1, FS_Subset
  <2> QED
    BY <2>1, <2>2, FS_CardinalityType
<1>2. sizes \in SUBSET Nat /\ sizes # {}
  BY <1>1
<1>3. PICK k \in sizes : \A j \in sizes : k =< j
  BY <1>2, LeastIsThere
<1>4. PICK s \in Bad : k = Cardinality(s)
  BY <1>3
<1>5. s \ {Pick(s)} \in Bad /\ Cardinality(s \ {Pick(s)}) = k - 1 /\ k \in Nat
  BY <1>1, <1>4, PickOne
<1>6. k - 1 \in sizes
  BY <1>5
<1> QED
  BY <1>3, <1>5, <1>6

LEMMA SumExists ==
  ASSUME NEW f, IsFiniteSet(DOMAIN f)
  PROVE  \E g : g = [s \in SUBSET DOMAIN f |-> Summed(f, s, g)]
<1> DEFINE D == DOMAIN f
           Sums(g, m) == \A s \in SUBSET D : Cardinality(s) =< m => g[s] = Summed(f, s, g)
           Bad == {m \in Nat : ~\E g : DOMAIN g = SUBSET D /\ Sums(g, m)}
<1>0. \A s \in SUBSET D : IsFiniteSet(s) /\ Cardinality(s) \in Nat
                          /\ Cardinality(s) =< Cardinality(D)
  BY FS_Subset, FS_CardinalityType
<1>1. 0 \notin Bad
  <2> DEFINE g == [s \in SUBSET D |-> 0]
  <2>1. \A s \in SUBSET D : Cardinality(s) =< 0 => s = {}
    BY <1>0, FS_EmptySet
  <2>2. Sums(g, 0)
    BY <2>1 DEF Summed
  <2> QED
    BY <2>2
<1>2. ASSUME NEW m \in Nat, m + 1 \in Bad PROVE m \in Bad
  <2> SUFFICES ASSUME NEW f0, DOMAIN f0 = SUBSET D, Sums(f0, m) PROVE FALSE
    OBVIOUS
  <2> DEFINE g == [s \in SUBSET D |-> IF Cardinality(s) = m + 1 THEN Summed(f, s, f0) ELSE f0[s]]
  <2>1. ASSUME NEW s \in SUBSET D, Cardinality(s) =< m + 1
        PROVE  g[s] = Summed(f, s, g)
    <3>1. CASE s = {}
      <4>1. Cardinality(s) = 0 /\ m + 1 # 0
        BY <3>1, FS_EmptySet
      <4>2. g[s] = f0[s] /\ f0[s] = Summed(f, s, f0)
        BY <4>1
      <4> QED
        BY <3>1, <4>2 DEF Summed
    <3>2. CASE s # {}
      <4> DEFINE t == s \ {Pick(s)}
      <4>1. t \in SUBSET D /\ Cardinality(t) = Cardinality(s) - 1
        BY <1>0, <3>2, PickOne
      <4>2. g[t] = f0[t]
        BY <1>0, <2>1, <4>1
      <4>3. Summed(f, s, g) = Summed(f, s, f0)
        BY <4>2 DEF Summed
      <4>4. g[s] = Summed(f, s, f0)
        BY <1>0, <2>1
      <4> QED
        BY <4>3, <4>4
    <3> QED
      BY <3>1, <3>2
  <2>2. DOMAIN g = SUBSET D
    OBVIOUS
  <2> HIDE DEF g
  <2>3. Sums(g, m + 1)
    BY <2>1
  <2> QED
    BY <1>2, <2>2, <2>3
<1>3. Bad = {}
  <2> SUFFICES ASSUME Bad # {} PROVE FALSE
    OBVIOUS
  <2>1. Bad \in SUBSET Nat
    OBVIOUS
  <2> HIDE DEF Bad
  <2>2. PICK k \in Bad : \A j \in Bad : k =< j
    BY <2>1, LeastIsThere
  <2>3. k \in Nat /\ k # 0
    BY <1>1, <2>1
  <2>4. k - 1 \in Nat /\ (k - 1) + 1 = k
    BY <2>3
  <2>5. k - 1 \in Bad
    BY <1>2, <2>4
  <2> QED
    BY <2>2, <2>3, <2>5
<1>4. PICK g : DOMAIN g = SUBSET D /\ Sums(g, Cardinality(D))
  BY <1>3, FS_CardinalityType
<1>5. \A s \in SUBSET D : g[s] = Summed(f, s, g)
  BY <1>0, <1>4
<1> DEFINE h == [s \in SUBSET D |-> g[s]]
<1>6. \A s \in SUBSET D : h[s] = Summed(f, s, h)
  <2> SUFFICES ASSUME NEW s \in SUBSET D PROVE h[s] = Summed(f, s, h)
    OBVIOUS
  <2>1. h[s \ {Pick(s)}] = g[s \ {Pick(s)}]
    OBVIOUS
  <2>2. h[s] = g[s]
    OBVIOUS
  <2> HIDE DEF h
  <2> QED
    BY <1>5, <2>1, <2>2 DEF Summed
<1>7. h = [s \in SUBSET D |-> h[s]]
  OBVIOUS
<1> HIDE DEF h
<1>8. h = [s \in SUBSET D |-> Summed(f, s, h)]
  BY <1>6, <1>7
<1> QED
  BY <1>8

LEMMA SumKnown ==
  ASSUME NEW f, IsFiniteSet(DOMAIN f)
  PROVE  \E g : /\ Total(f) = g[DOMAIN f]
                /\ \A s \in SUBSET DOMAIN f : g[s] = Summed(f, s, g)
<1> DEFINE g == CHOOSE g : g = [s \in SUBSET DOMAIN f |-> Summed(f, s, g)]
<1>1. Total(f) = g[DOMAIN f]
  BY DEF Total, SumFunction, SumFunctionOnSet, FoldFunctionOnSet, MapThenFoldSet, Summed, Pick
<1>2. g = [s \in SUBSET DOMAIN f |-> Summed(f, s, g)]
  <2>1. \E h : h = [s \in SUBSET DOMAIN f |-> Summed(f, s, h)]
    BY SumExists
  <2> QED
    BY <2>1
<1> HIDE DEF g
<1>3. \A s \in SUBSET DOMAIN f : g[s] = Summed(f, s, g)
  BY <1>2
<1> QED
  BY <1>1, <1>3

\* The sum of numbers is one, and of opposite numbers the opposite.
LEMMA TotalOpposite ==
  ASSUME NEW f, NEW h, IsFiniteSet(DOMAIN f), DOMAIN h = DOMAIN f,
         \A i \in DOMAIN f : f[i] \in Int /\ h[i] = -f[i]
  PROVE  Total(f) \in Int /\ Total(h) = -Total(f)
<1>1. PICK p : /\ Total(f) = p[DOMAIN f]
               /\ \A s \in SUBSET DOMAIN f : p[s] = Summed(f, s, p)
  BY SumKnown
<1>2. PICK q : /\ Total(h) = q[DOMAIN f]
               /\ \A s \in SUBSET DOMAIN f : q[s] = Summed(h, s, q)
  BY SumKnown
<1> DEFINE Bad == {s \in SUBSET DOMAIN f : ~(p[s] \in Int /\ q[s] = -p[s])}
<1>3. {} \notin Bad
  <2>1. {} \in SUBSET DOMAIN f
    OBVIOUS
  <2>2. p[{}] = 0
    BY <1>1, <2>1 DEF Summed
  <2>3. q[{}] = 0
    BY <1>2, <2>1 DEF Summed
  <2> QED
    BY <2>2, <2>3
<1>4. ASSUME NEW s \in Bad, s # {} PROVE s \ {Pick(s)} \in Bad
  <2> DEFINE t == s \ {Pick(s)}
  <2>1. s \in SUBSET DOMAIN f /\ t \in SUBSET DOMAIN f
    OBVIOUS
  <2>2. Pick(s) \in DOMAIN f
    BY <1>4, <2>1 DEF Pick
  <2>3. p[s] = f[Pick(s)] + p[t] /\ q[s] = h[Pick(s)] + q[t]
    BY <1>1, <1>2, <1>4, <2>1 DEF Summed
  <2>4. f[Pick(s)] \in Int /\ h[Pick(s)] = -f[Pick(s)]
    BY <2>2
  <2> HIDE DEF t
  <2>5. p[t] \in Int /\ q[t] = -p[t] => p[s] \in Int /\ q[s] = -p[s]
    BY <2>3, <2>4
  <2> QED
    BY <2>1, <2>5 DEF t
<1>5. Bad = {}
  <2>1. Bad \in SUBSET SUBSET DOMAIN f
    OBVIOUS
  <2> HIDE DEF Bad
  <2> QED
    BY <1>3, <1>4, <2>1, NoLeastSet
<1>6. p[DOMAIN f] \in Int /\ q[DOMAIN f] = -p[DOMAIN f]
  BY <1>5
<1> QED
  BY <1>1, <1>2, <1>6

LEMMA TotalNat ==
  ASSUME NEW f, IsFiniteSet(DOMAIN f), \A i \in DOMAIN f : f[i] \in Nat
  PROVE  Total(f) \in Nat
<1>1. PICK p : /\ Total(f) = p[DOMAIN f]
               /\ \A s \in SUBSET DOMAIN f : p[s] = Summed(f, s, p)
  BY SumKnown
<1> DEFINE Bad == {s \in SUBSET DOMAIN f : ~(p[s] \in Nat)}
<1>2. {} \notin Bad
  <2>1. {} \in SUBSET DOMAIN f
    OBVIOUS
  <2>2. p[{}] = 0
    BY <1>1, <2>1 DEF Summed
  <2> QED
    BY <2>2
<1>3. ASSUME NEW s \in Bad, s # {} PROVE s \ {Pick(s)} \in Bad
  <2> DEFINE t == s \ {Pick(s)}
  <2>1. s \in SUBSET DOMAIN f /\ t \in SUBSET DOMAIN f
    OBVIOUS
  <2>2. Pick(s) \in DOMAIN f
    BY <1>3, <2>1 DEF Pick
  <2>3. p[s] = f[Pick(s)] + p[t]
    BY <1>1, <1>3, <2>1 DEF Summed
  <2> HIDE DEF t
  <2>4. p[t] \in Nat => p[s] \in Nat
    BY <2>2, <2>3
  <2> QED
    BY <2>1, <2>4 DEF t
<1>4. Bad = {}
  <2>1. Bad \in SUBSET SUBSET DOMAIN f
    OBVIOUS
  <2> HIDE DEF Bad
  <2> QED
    BY <1>2, <1>3, <2>1, NoLeastSet
<1> QED
  BY <1>1, <1>4

-----------------------------------------------------------------------------
(* The readings of a history and of the same history upside down.          *)

LEMMA Periods ==
  /\ Fast \in Nat \ {0} /\ Middle \in Nat \ {0} /\ Slow \in Nat \ {0}
  /\ Period \in Nat \ {0} /\ Scale \in Nat \ {0}
  /\ Fast < Middle /\ Middle < Slow /\ Period < Slow
  /\ \A p \in {Fast, Middle, Slow} : Scale % p = 0
BY PeriodsAssumption DEF PeriodsAssumption

\* Two sequences of numbers, one the opposite of the other.
Opposites(a, b) ==
  /\ a \in Seq(Int) /\ b \in Seq(Int) /\ Len(a) = Len(b)
  /\ \A i \in 1 .. Len(a) : b[i] = -a[i]

LEMMA LatestIs ==
  ASSUME NEW T, NEW s \in Seq(T), NEW k \in 1 .. Len(s)
  PROVE  /\ Latest(s, k) \in Seq(T) /\ Len(Latest(s, k)) = k
         /\ \A i \in 1 .. k : Len(s) - k + i \in 1 .. Len(s) /\ Latest(s, k)[i] = s[Len(s) - k + i]
<1> DEFINE n == Len(s)
           from == n - k + 1
<1>1. n \in Nat /\ from \in 1 .. n /\ n - from + 1 = k
  BY LenProperties
<1>2. \A i \in from .. n : s[i] \in T
  BY <1>1, ElementOfSeq
<1>3. /\ SubSeq(s, from, n) \in Seq(T)
      /\ Len(SubSeq(s, from, n)) = IF from <= n THEN n - from + 1 ELSE 0
      /\ \A i \in 1 .. n - from + 1 : SubSeq(s, from, n)[i] = s[from + i - 1]
  <2>1. from \in Int /\ n \in Int
    BY <1>1
  <2> HIDE DEF from, n
  <2> QED
    BY <1>2, <2>1, SubSeqProperties
<1>4. Latest(s, k) = SubSeq(s, from, n)
  BY DEF Latest
<1> HIDE DEF from
<1>5. \A i \in 1 .. k : from + i - 1 = n - k + i /\ n - k + i \in 1 .. n
  BY <1>1 DEF from
<1> HIDE DEF n
<1>6. Len(Latest(s, k)) = k
  BY <1>1, <1>3, <1>4
<1>7. \A i \in 1 .. k : Latest(s, k)[i] = s[n - k + i]
  BY <1>1, <1>3, <1>4, <1>5
<1> QED
  BY <1>3, <1>4, <1>5, <1>6, <1>7 DEF n

LEMMA SeqDomain ==
  ASSUME NEW T, NEW s \in Seq(T)
  PROVE  /\ Len(s) \in Nat /\ DOMAIN s = 1 .. Len(s) /\ IsFiniteSet(DOMAIN s)
         /\ \A i \in DOMAIN s : s[i] \in T
<1>1. Len(s) \in Nat /\ DOMAIN s = 1 .. Len(s)
  BY LenProperties
<1>2. IsFiniteSet(1 .. Len(s))
  BY <1>1, FS_Interval
<1> QED
  BY <1>1, <1>2, ElementOfSeq

LEMMA TotalOfOpposites ==
  ASSUME NEW a, NEW b, Opposites(a, b)
  PROVE  Total(a) \in Int /\ Total(b) = -Total(a)
<1>1. IsFiniteSet(DOMAIN a) /\ DOMAIN b = DOMAIN a
      /\ \A i \in DOMAIN a : a[i] \in Int /\ b[i] = -a[i]
  BY SeqDomain DEF Opposites
<1> QED
  BY <1>1, TotalOpposite

LEMMA TotalOfNaturals ==
  ASSUME NEW a \in Seq(Nat)
  PROVE  Total(a) \in Nat
BY SeqDomain, TotalNat

LEMMA LatestOfOpposites ==
  ASSUME NEW a, NEW b, Opposites(a, b), NEW k \in 1 .. Len(a)
  PROVE  Opposites(Latest(a, k), Latest(b, k))
<1>1. /\ Latest(a, k) \in Seq(Int) /\ Len(Latest(a, k)) = k
      /\ \A i \in 1 .. k : Len(a) - k + i \in 1 .. Len(a) /\ Latest(a, k)[i] = a[Len(a) - k + i]
  BY LatestIs DEF Opposites
<1>2. /\ Latest(b, k) \in Seq(Int) /\ Len(Latest(b, k)) = k
      /\ \A i \in 1 .. k : Latest(b, k)[i] = b[Len(b) - k + i]
  <2>1. b \in Seq(Int) /\ k \in 1 .. Len(b)
    BY DEF Opposites
  <2> QED
    BY <2>1, LatestIs
<1> QED
  BY <1>1, <1>2 DEF Opposites

\* A history is one of bars; upside down it is one of numbers.
AnyBar == [open : Int, high : Int, low : Int, close : Int, volume : Nat]

LEMMA BarFields ==
  ASSUME NEW bar \in Bar
  PROVE  /\ bar.open \in Nat \ {0} /\ bar.high \in Nat \ {0} /\ bar.low \in Nat \ {0}
         /\ bar.close \in Nat \ {0} /\ bar.volume \in Nat
BY DEF Bar

LEMMA MirroredIs ==
  ASSUME NEW bars \in Seq(Bar)
  PROVE  /\ Mirrored(bars) \in Seq(AnyBar) /\ Len(Mirrored(bars)) = Len(bars)
         /\ \A i \in 1 .. Len(bars) :
              /\ bars[i] \in Bar
              /\ Mirrored(bars)[i] = [open |-> -bars[i].open, high |-> -bars[i].low,
                                      low |-> -bars[i].high, close |-> -bars[i].close,
                                      volume |-> bars[i].volume]
<1>1. Len(bars) \in Nat /\ DOMAIN bars = 1 .. Len(bars) /\ \A i \in DOMAIN bars : bars[i] \in Bar
  BY SeqDomain
<1> DEFINE n == Len(bars)
           turned(i) == [open |-> -bars[i].open, high |-> -bars[i].low, low |-> -bars[i].high,
                         close |-> -bars[i].close, volume |-> bars[i].volume]
           mirror == [i \in 1 .. n |-> turned(i)]
<1>2. Mirrored(bars) = mirror
  BY <1>1 DEF Mirrored
<1>3. ASSUME NEW i \in 1 .. n PROVE turned(i) \in AnyBar
  <2> DEFINE bar == bars[i]
  <2>1. bar \in Bar
    BY <1>1
  <2> HIDE DEF bar
  <2>2. /\ -bar.open \in Int /\ -bar.high \in Int /\ -bar.low \in Int
        /\ -bar.close \in Int /\ bar.volume \in Nat
    BY <2>1, BarFields
  <2>3. [open |-> -bar.open, high |-> -bar.low, low |-> -bar.high,
         close |-> -bar.close, volume |-> bar.volume] \in AnyBar
    BY <2>2 DEF AnyBar
  <2> QED
    BY <2>3 DEF bar
<1> HIDE DEF turned
<1>4. mirror \in Seq(AnyBar) /\ Len(mirror) = n /\ \A i \in 1 .. n : mirror[i] = turned(i)
  BY <1>1, <1>3
<1> HIDE DEF mirror
<1> QED
  BY <1>1, <1>2, <1>4 DEF turned

LEMMA ClosesAre ==
  ASSUME NEW bars \in Seq(Bar)
  PROVE  /\ Closes(bars) \in Seq(Nat \ {0}) /\ Len(Closes(bars)) = Len(bars)
         /\ \A i \in 1 .. Len(bars) : Closes(bars)[i] = bars[i].close
         /\ Opposites(Closes(bars), Closes(Mirrored(bars)))
<1> DEFINE n == Len(bars)
           plus == Closes(bars)
           minus == Closes(Mirrored(bars))
<1>1. n \in Nat /\ DOMAIN bars = 1 .. n /\ \A i \in 1 .. n : bars[i].close \in Nat \ {0}
  <2>1. n \in Nat /\ DOMAIN bars = 1 .. n /\ \A i \in 1 .. n : bars[i] \in Bar
    BY SeqDomain
  <2> HIDE DEF n
  <2> QED
    BY <2>1, BarFields
<1>2. DOMAIN Mirrored(bars) = 1 .. n /\ \A i \in 1 .. n : Mirrored(bars)[i].close = -bars[i].close
  BY <1>1, MirroredIs DEF Mirrored
<1>3. plus = [i \in 1 .. n |-> bars[i].close]
  BY <1>1 DEF Closes
<1>4. minus = [i \in 1 .. n |-> Mirrored(bars)[i].close]
  BY <1>2 DEF Closes
<1>5. plus \in Seq(Nat \ {0}) /\ Len(plus) = n /\ \A i \in 1 .. n : plus[i] = bars[i].close
  BY <1>1, <1>3
<1>6. minus \in Seq(Int) /\ Len(minus) = n /\ \A i \in 1 .. n : minus[i] = -bars[i].close
  BY <1>1, <1>2, <1>4
<1>7. plus \in Seq(Int)
  BY <1>1, <1>3
<1> HIDE DEF plus, minus
<1>8. Opposites(plus, minus)
  BY <1>5, <1>6, <1>7 DEF Opposites
<1> QED
  BY <1>5, <1>8 DEF plus, minus

LEMMA AverageIs ==
  ASSUME NEW bars \in Seq(Bar), NEW k \in {Fast, Middle, Slow}
  PROVE  /\ Average(bars, k) \in Nat
         /\ Len(bars) >= k => Average(Mirrored(bars), k) = -Average(bars, k)
<1>0. k \in Nat \ {0} /\ Scale \div k \in Nat /\ Len(bars) \in Nat
  BY Periods, SeqDomain
<1>1. CASE Len(bars) < k
  BY <1>0, <1>1 DEF Average
<1>2. CASE Len(bars) >= k
  <2> DEFINE a == Latest(Closes(bars), k)
             b == Latest(Closes(Mirrored(bars)), k)
             c == Scale \div k
  <2>1. k \in 1 .. Len(Closes(bars)) /\ Closes(bars) \in Seq(Nat \ {0})
        /\ Opposites(Closes(bars), Closes(Mirrored(bars)))
    BY <1>0, <1>2, ClosesAre
  <2>2. Opposites(a, b)
    BY <2>1, LatestOfOpposites
  <2>3. Total(a) \in Nat
    <3>1. a \in Seq(Nat \ {0})
      BY <2>1, LatestIs
    <3> HIDE DEF a
    <3>2. a \in Seq(Nat)
      BY <3>1, SeqMonotonic
    <3> QED
      BY <3>2, TotalOfNaturals
  <2>4. Total(b) = -Total(a)
    BY <2>2, TotalOfOpposites
  <2>5. Average(bars, k) = Total(a) * c
    BY <1>0, <1>2 DEF Average
  <2>6. Average(Mirrored(bars), k) = Total(b) * c
    BY <1>0, <1>2, MirroredIs DEF Average
  <2>7. c \in Nat
    BY <1>0
  <2> HIDE DEF a, b, c
  <2>8. Total(a) * c \in Nat /\ (-Total(a)) * c = -(Total(a) * c)
    BY <2>3, <2>7
  <2> QED
    BY <2>4, <2>5, <2>6, <2>8
<1> QED
  BY <1>0, <1>1, <1>2

\* The changes from one bar to the next, as a sequence.
LEMMA ChangesAre ==
  ASSUME NEW n \in Nat \ {0}, NEW f, DOMAIN f = 1 .. n - 1, \A i \in 1 .. n - 1 : f[i] \in Nat,
         f = [i \in 1 .. n - 1 |-> f[i]], NEW k \in Nat, k < n, k # 0
  PROVE  f \in Seq(Nat) /\ Len(f) = n - 1 /\ Total(Latest(f, k)) \in Nat
<1>1. n - 1 \in Nat
  OBVIOUS
<1>2. f \in Seq(Nat) /\ Len(f) = n - 1
  BY <1>1
<1>3. k \in 1 .. Len(f)
  BY <1>2
<1>4. Latest(f, k) \in Seq(Nat)
  BY <1>2, <1>3, LatestIs
<1> QED
  BY <1>2, <1>4, TotalOfNaturals

LEMMA AboveIs ==
  ASSUME NEW x \in Int, NEW y \in Int
  PROVE  Above(x, y) \in Nat /\ Above(-x, -y) = Above(y, x)
BY DEF Above

\* The gains of the one are the losses of the other.
LEMMA RsiIs ==
  ASSUME NEW bars \in Seq(Bar), Len(bars) >= Period + 1
  PROVE  \E plus, minus \in Nat :
           /\ Rsi(bars) = IF minus = 0 THEN <<1, 1>> ELSE <<plus, plus + minus>>
           /\ Rsi(Mirrored(bars)) = IF plus = 0 THEN <<1, 1>> ELSE <<minus, plus + minus>>
<1> DEFINE n == Len(bars)
           c == Closes(bars)
           m == Closes(Mirrored(bars))
           plus == Total(Latest(Gains(c), Period))
           minus == Total(Latest(Losses(c), Period))
<1>0. n \in Nat \ {0} /\ Period \in Nat \ {0} /\ Period < n
  BY Periods, SeqDomain
<1>1. /\ Len(c) = n /\ Len(m) = n
      /\ \A i \in 1 .. n : c[i] \in Int /\ m[i] = -c[i]
  <2>1. Opposites(c, m) /\ Len(c) = n
    BY ClosesAre
  <2>2. Len(m) = n
    BY <2>1 DEF Opposites
  <2>3. \A i \in 1 .. Len(c) : c[i] \in Int
    BY <2>1, ElementOfSeq DEF Opposites
  <2> QED
    BY <2>1, <2>2, <2>3 DEF Opposites
<1> HIDE DEF n, c, m
<1>2. \A i \in 1 .. n - 1 :
        /\ i \in 1 .. n /\ i + 1 \in 1 .. n
        /\ Above(c[i + 1], c[i]) \in Nat /\ Above(c[i], c[i + 1]) \in Nat
        /\ Above(m[i + 1], m[i]) = Above(c[i], c[i + 1])
        /\ Above(m[i], m[i + 1]) = Above(c[i + 1], c[i])
  <2> SUFFICES ASSUME NEW i \in 1 .. n - 1
               PROVE  /\ i \in 1 .. n /\ i + 1 \in 1 .. n
                      /\ Above(c[i + 1], c[i]) \in Nat /\ Above(c[i], c[i + 1]) \in Nat
                      /\ Above(m[i + 1], m[i]) = Above(c[i], c[i + 1])
                      /\ Above(m[i], m[i + 1]) = Above(c[i + 1], c[i])
    OBVIOUS
  <2>1. i \in 1 .. n /\ i + 1 \in 1 .. n
    BY <1>0
  <2>2. c[i] \in Int /\ c[i + 1] \in Int /\ m[i] = -c[i] /\ m[i + 1] = -c[i + 1]
    BY <1>1, <2>1
  <2> QED
    BY <2>1, <2>2, AboveIs
<1>3. Gains(c) = [i \in 1 .. n - 1 |-> Above(c[i + 1], c[i])]
      /\ Losses(c) = [i \in 1 .. n - 1 |-> Above(c[i], c[i + 1])]
  BY <1>1 DEF Gains, Losses
<1>4. Gains(m) = Losses(c) /\ Losses(m) = Gains(c)
  <2>1. Gains(m) = [i \in 1 .. n - 1 |-> Above(m[i + 1], m[i])]
        /\ Losses(m) = [i \in 1 .. n - 1 |-> Above(m[i], m[i + 1])]
    BY <1>1 DEF Gains, Losses
  <2> QED
    BY <1>2, <1>3, <2>1
<1>5. plus \in Nat
  <2> DEFINE f == Gains(c)
  <2>1. DOMAIN f = 1 .. n - 1 /\ \A i \in 1 .. n - 1 : f[i] \in Nat
    BY <1>2, <1>3
  <2>2. f = [i \in 1 .. n - 1 |-> f[i]]
    BY <1>3
  <2> HIDE DEF f
  <2> QED
    BY <1>0, <2>1, <2>2, ChangesAre DEF f
<1>6. minus \in Nat
  <2> DEFINE f == Losses(c)
  <2>1. DOMAIN f = 1 .. n - 1 /\ \A i \in 1 .. n - 1 : f[i] \in Nat
    BY <1>2, <1>3
  <2>2. f = [i \in 1 .. n - 1 |-> f[i]]
    BY <1>3
  <2> HIDE DEF f
  <2> QED
    BY <1>0, <2>1, <2>2, ChangesAre DEF f
<1>7. Rsi(bars) = IF minus = 0 THEN <<1, 1>> ELSE <<plus, plus + minus>>
  BY <1>0 DEF Rsi, n, c
<1>8. Rsi(Mirrored(bars)) = IF plus = 0 THEN <<1, 1>> ELSE <<minus, minus + plus>>
  <2>1. Len(Mirrored(bars)) = n
    BY MirroredIs DEF n
  <2>2. Rsi(Mirrored(bars)) =
          IF Total(Latest(Losses(m), Period)) = 0 THEN <<1, 1>>
          ELSE <<Total(Latest(Gains(m), Period)),
                 Total(Latest(Gains(m), Period)) + Total(Latest(Losses(m), Period))>>
    BY <1>0, <2>1 DEF Rsi, m
  <2> QED
    BY <1>4, <2>2
<1> HIDE DEF plus, minus
<1>9. minus + plus = plus + minus
  BY <1>5, <1>6
<1> QED
  BY <1>5, <1>6, <1>7, <1>8, <1>9

\* The rises of the highs in the one are the falls of the lows in the other.
LEMMA MovesAre ==
  ASSUME NEW bars \in Seq(Bar)
  PROVE  \E plus, minus \in Nat :
           /\ DirectionalMoves(bars) = <<plus, minus>>
           /\ DirectionalMoves(Mirrored(bars)) = <<minus, plus>>
<1> DEFINE n == Len(bars)
           m == Mirrored(bars)
           R(h, i) == IF Rises(h, i) > Falls(h, i) THEN Above(Rises(h, i), 0) ELSE 0
           F(h, i) == IF Falls(h, i) > Rises(h, i) THEN Above(Falls(h, i), 0) ELSE 0
           rise == [i \in 1 .. n - 1 |-> R(bars, i)]
           fall == [i \in 1 .. n - 1 |-> F(bars, i)]
           plus == Total(Latest(rise, Period))
           minus == Total(Latest(fall, Period))
<1>0. n \in Nat /\ Period \in Nat \ {0} /\ Len(m) = n
  BY Periods, SeqDomain, MirroredIs
<1>1. CASE n < Period + 1
  <2>1. DirectionalMoves(bars) = <<0, 0>> /\ DirectionalMoves(m) = <<0, 0>>
    BY <1>0, <1>1 DEF DirectionalMoves
  <2> QED
    BY <2>1
<1>2. CASE ~(n < Period + 1)
  <2>1. \A i \in 1 .. n :
          /\ bars[i].high \in Int /\ bars[i].low \in Int
          /\ m[i].high = -bars[i].low /\ m[i].low = -bars[i].high
    <3> SUFFICES ASSUME NEW i \in 1 .. n
                 PROVE  /\ bars[i].high \in Int /\ bars[i].low \in Int
                        /\ m[i].high = -bars[i].low /\ m[i].low = -bars[i].high
      OBVIOUS
    <3> DEFINE bar == bars[i]
    <3>1. bar \in Bar /\ m[i] = [open |-> -bar.open, high |-> -bar.low, low |-> -bar.high,
                                 close |-> -bar.close, volume |-> bar.volume]
      BY MirroredIs
    <3> HIDE DEF bar
    <3>2. bar.high \in Int /\ bar.low \in Int
      BY <3>1, BarFields
    <3>3. m[i].high = -bar.low /\ m[i].low = -bar.high
      BY <3>1
    <3> QED
      BY <3>2, <3>3 DEF bar
  <2>2. \A i \in 1 .. n - 1 :
          /\ R(bars, i) \in Nat /\ F(bars, i) \in Nat
          /\ R(m, i) = F(bars, i) /\ F(m, i) = R(bars, i)
    <3> SUFFICES ASSUME NEW i \in 1 .. n - 1
                 PROVE  /\ R(bars, i) \in Nat /\ F(bars, i) \in Nat
                        /\ R(m, i) = F(bars, i) /\ F(m, i) = R(bars, i)
      OBVIOUS
    <3>1. i \in 1 .. n /\ i + 1 \in 1 .. n
      BY <1>0
    <3>2. Rises(bars, i) \in Int /\ Falls(bars, i) \in Int
          /\ Rises(m, i) = Falls(bars, i) /\ Falls(m, i) = Rises(bars, i)
      <4>1. /\ bars[i].high \in Int /\ bars[i].low \in Int
            /\ bars[i + 1].high \in Int /\ bars[i + 1].low \in Int
            /\ m[i].high = -bars[i].low /\ m[i].low = -bars[i].high
            /\ m[i + 1].high = -bars[i + 1].low /\ m[i + 1].low = -bars[i + 1].high
        BY <2>1, <3>1
      <4>2. /\ Rises(bars, i) = bars[i + 1].high - bars[i].high
            /\ Falls(bars, i) = bars[i].low - bars[i + 1].low
        BY DEF Rises, Falls
      <4>3. /\ Rises(m, i) = m[i + 1].high - m[i].high
            /\ Falls(m, i) = m[i].low - m[i + 1].low
        BY DEF Rises, Falls
      <4> DEFINE hi == bars[i].high
                 lo == bars[i].low
                 nextHi == bars[i + 1].high
                 nextLo == bars[i + 1].low
      <4>4. /\ hi \in Int /\ lo \in Int /\ nextHi \in Int /\ nextLo \in Int
            /\ Rises(bars, i) = nextHi - hi /\ Falls(bars, i) = lo - nextLo
            /\ Rises(m, i) = (-nextLo) - (-lo) /\ Falls(m, i) = (-hi) - (-nextHi)
        BY <4>1, <4>2, <4>3
      <4> HIDE DEF m, hi, lo, nextHi, nextLo
      <4> QED
        BY <4>4
    <3>3. Above(Rises(bars, i), 0) \in Nat /\ Above(Falls(bars, i), 0) \in Nat
      BY <3>2, AboveIs
    <3> QED
      BY <3>2, <3>3
  <2>3. DirectionalMoves(bars) = <<plus, minus>>
    BY <1>0, <1>2 DEF DirectionalMoves
  <2>4. DirectionalMoves(m) = <<Total(Latest([i \in 1 .. n - 1 |-> R(m, i)], Period)),
                                Total(Latest([i \in 1 .. n - 1 |-> F(m, i)], Period))>>
    BY <1>0, <1>2 DEF DirectionalMoves
  <2> HIDE DEF n, m, R, F
  <2>5. [i \in 1 .. n - 1 |-> R(m, i)] = fall /\ [i \in 1 .. n - 1 |-> F(m, i)] = rise
    BY <2>2
  <2>6. /\ DOMAIN rise = 1 .. n - 1 /\ \A i \in 1 .. n - 1 : rise[i] \in Nat
        /\ DOMAIN fall = 1 .. n - 1 /\ \A i \in 1 .. n - 1 : fall[i] \in Nat
        /\ rise = [i \in 1 .. n - 1 |-> rise[i]] /\ fall = [i \in 1 .. n - 1 |-> fall[i]]
    BY <2>2
  <2> HIDE DEF rise, fall
  <2>7. n \in Nat \ {0} /\ Period < n /\ Period \in Nat \ {0}
    BY <1>0, <1>2
  <2>8. plus \in Nat /\ minus \in Nat
    BY <2>6, <2>7, ChangesAre
  <2> HIDE DEF plus, minus
  <2>9. DirectionalMoves(m) = <<minus, plus>>
    BY <2>4, <2>5 DEF plus, minus
  <2> QED
    BY <2>3, <2>8, <2>9 DEF m
<1> QED
  BY <1>1, <1>2

LEMMA VolumeIs ==
  ASSUME NEW bars \in Seq(Bar), bars # <<>>
  PROVE  Volume(bars) \in Int /\ Volume(Mirrored(bars)) = -Volume(bars)
<1> DEFINE n == Len(bars)
           m == Mirrored(bars)
           S(h, i) == CASE h[i + 1].close > h[i].close -> h[i + 1].volume
                        [] h[i + 1].close < h[i].close -> -h[i + 1].volume
                        [] OTHER -> 0
           a == [i \in 1 .. n - 1 |-> S(bars, i)]
           b == [i \in 1 .. n - 1 |-> S(m, i)]
<1>0. n \in Nat \ {0} /\ Len(m) = n
  BY SeqDomain, MirroredIs, EmptySeq
<1>1. Volume(bars) = Total(a) /\ Volume(m) = Total(b)
  BY <1>0 DEF Volume
<1>2. \A i \in 1 .. n :
        /\ bars[i].close \in Int /\ bars[i].volume \in Int
        /\ m[i].close = -bars[i].close /\ m[i].volume = bars[i].volume
  <2> SUFFICES ASSUME NEW i \in 1 .. n
               PROVE  /\ bars[i].close \in Int /\ bars[i].volume \in Int
                      /\ m[i].close = -bars[i].close /\ m[i].volume = bars[i].volume
    OBVIOUS
  <2> DEFINE bar == bars[i]
  <2>1. bar \in Bar /\ m[i] = [open |-> -bar.open, high |-> -bar.low, low |-> -bar.high,
                               close |-> -bar.close, volume |-> bar.volume]
    BY MirroredIs
  <2> HIDE DEF bar
  <2>2. bar.close \in Int /\ bar.volume \in Int
    BY <2>1, BarFields
  <2>3. m[i].close = -bar.close /\ m[i].volume = bar.volume
    BY <2>1
  <2> QED
    BY <2>2, <2>3 DEF bar
<1>3. \A i \in 1 .. n - 1 : S(bars, i) \in Int /\ S(m, i) = -S(bars, i)
  <2> SUFFICES ASSUME NEW i \in 1 .. n - 1
               PROVE  S(bars, i) \in Int /\ S(m, i) = -S(bars, i)
    OBVIOUS
  <2>1. i \in 1 .. n /\ i + 1 \in 1 .. n
    BY <1>0
  <2> QED
    BY <1>2, <2>1
<1> HIDE DEF n, m, S
<1>4. Opposites(a, b)
  <2>1. n - 1 \in Nat
    BY <1>0
  <2>2. a \in Seq(Int) /\ Len(a) = n - 1 /\ b \in Seq(Int) /\ Len(b) = n - 1
    <3>1. \A i \in 1 .. n - 1 : S(bars, i) \in Int /\ S(m, i) \in Int
      BY <1>3
    <3>2. a \in Seq(Int) /\ Len(a) = n - 1
      BY <2>1, <3>1
    <3>3. b \in Seq(Int) /\ Len(b) = n - 1
      BY <2>1, <3>1
    <3> QED
      BY <3>2, <3>3
  <2>3. \A i \in 1 .. n - 1 : b[i] = -a[i]
    BY <1>3
  <2> QED
    BY <2>2, <2>3 DEF Opposites
<1> HIDE DEF a, b
<1> QED
  BY <1>1, <1>4, TotalOfOpposites DEF m

-----------------------------------------------------------------------------
(* The claims of a market and of the same market upside down.              *)

\* The strength of a trend is that of its opposite, and is not both at once.
LEMMA StrengthIs ==
  ASSUME NEW plus \in Nat, NEW minus \in Nat
  PROVE  /\ AdxAbove25(<<plus, minus>>) <=> AdxAbove25(<<minus, plus>>)
         /\ AdxBelow20(<<plus, minus>>) <=> AdxBelow20(<<minus, plus>>)
         /\ AdxAbove40(<<plus, minus>>) <=> AdxAbove40(<<minus, plus>>)
         /\ ~(AdxAbove25(<<plus, minus>>) /\ AdxBelow20(<<plus, minus>>))
BY DEF AdxAbove25, AdxBelow20, AdxAbove40, Above

\* Readings and those of the market upside down.
Reversed(r, o) ==
  /\ {r.price, r.fast, r.middle, r.slow, r.obv} \subseteq Int
  /\ o.price = -r.price /\ o.obv = -r.obv
  /\ o.fast = -r.fast /\ o.middle = -r.middle /\ o.slow = -r.slow
  /\ \E plus, minus \in Nat : r.moves = <<plus, minus>> /\ o.moves = <<minus, plus>>

LEMMA LastBar ==
  ASSUME NEW bars \in Seq(Bar), bars # <<>>
  PROVE  /\ Readings(bars).price \in Nat \ {0}
         /\ Readings(Mirrored(bars)).price = -Readings(bars).price
<1> DEFINE n == Len(bars)
           bar == bars[n]
<1>1. n \in 1 .. n
  BY SeqDomain, EmptySeq
<1>2. /\ bar \in Bar /\ Len(Mirrored(bars)) = n
      /\ Mirrored(bars)[n] = [open |-> -bar.open, high |-> -bar.low, low |-> -bar.high,
                              close |-> -bar.close, volume |-> bar.volume]
  BY <1>1, MirroredIs
<1>3. Readings(bars).price = bar.close * Scale
  BY DEF Readings
<1>4. Readings(Mirrored(bars)).price = Mirrored(bars)[n].close * Scale
  BY <1>2 DEF Readings
<1> HIDE DEF bar, n
<1>5. bar.close \in Nat \ {0} /\ Scale \in Nat \ {0} /\ Mirrored(bars)[n].close = -bar.close
  BY <1>2, BarFields, Periods
<1> DEFINE c == bar.close
<1> HIDE DEF c
<1>6. c \in Nat \ {0} /\ Readings(bars).price = c * Scale
      /\ Readings(Mirrored(bars)).price = (-c) * Scale
  BY <1>3, <1>4, <1>5 DEF c
<1>7. c * Scale \in Nat \ {0} /\ (-c) * Scale = -(c * Scale)
  BY <1>5, <1>6
<1> QED
  BY <1>6, <1>7

LEMMA ReadingsReversed ==
  ASSUME NEW bars \in Seq(Bar), Len(bars) >= Slow
  PROVE  Reversed(Readings(bars), Readings(Mirrored(bars)))
<1> DEFINE r == Readings(bars)
           o == Readings(Mirrored(bars))
<1>1. /\ r.fast = Average(bars, Fast) /\ r.middle = Average(bars, Middle)
      /\ r.slow = Average(bars, Slow) /\ r.obv = Volume(bars)
      /\ r.moves = DirectionalMoves(bars)
      /\ o.fast = Average(Mirrored(bars), Fast) /\ o.middle = Average(Mirrored(bars), Middle)
      /\ o.slow = Average(Mirrored(bars), Slow) /\ o.obv = Volume(Mirrored(bars))
      /\ o.moves = DirectionalMoves(Mirrored(bars))
  BY DEF Readings
<1>2. /\ Len(bars) \in Nat /\ Len(bars) >= Fast /\ Len(bars) >= Middle /\ bars # <<>>
  BY Periods, SeqDomain, EmptySeq
<1>3. /\ r.fast \in Nat /\ r.middle \in Nat /\ r.slow \in Nat
      /\ o.fast = -r.fast /\ o.middle = -r.middle /\ o.slow = -r.slow
  BY <1>1, <1>2, AverageIs
<1>4. r.obv \in Int /\ o.obv = -r.obv
  BY <1>1, <1>2, VolumeIs
<1>5. \E plus, minus \in Nat : r.moves = <<plus, minus>> /\ o.moves = <<minus, plus>>
  BY <1>1, MovesAre
<1>6. r.price \in Nat /\ o.price = -r.price
  BY <1>2, LastBar
<1> HIDE DEF r, o
<1>7. {r.price, r.fast, r.middle, r.slow, r.obv} \subseteq Int
  BY <1>3, <1>4, <1>6
<1>8. Reversed(r, o)
  BY <1>3, <1>4, <1>5, <1>6, <1>7 DEF Reversed
<1> QED
  BY <1>8 DEF r, o

LEMMA OppositeIs ==
  /\ Opposite("up") = "down" /\ Opposite("down") = "up"
  /\ Opposite("above") = "below" /\ Opposite("below") = "above" /\ Opposite("on") = "on"
  /\ Opposite("overbought") = "oversold" /\ Opposite("oversold") = "overbought"
  /\ Opposite("neutral") = "neutral"
  /\ Opposite("STRONG_UPTREND") = "STRONG_DOWNTREND"
  /\ Opposite("STRONG_DOWNTREND") = "STRONG_UPTREND"
  /\ Opposite("RANGING") = "RANGING" /\ Opposite("WEAK_TREND") = "WEAK_TREND"
BY DEF Opposite

LEMMA OppositesOfTrends ==
  /\ Opposite("sideways") = "sideways" /\ Opposite("moderate") = "moderate"
  /\ Opposite("strong") = "strong" /\ Opposite("very strong") = "very strong"
  /\ Opposite("in transition") = "in transition" /\ Opposite("not stacked") = "not stacked"
  /\ Opposite("bullish below the average") = "bearish above the average"
  /\ Opposite("bearish above the average") = "bullish below the average"
BY DEF Opposite

LEMMA RegimesOpposite ==
  ASSUME NEW r, NEW o, Reversed(r, o)
  PROVE  Structure(o) = Opposite(Structure(r)) /\ Regime(o) = Opposite(Regime(r))
<1> DEFINE p == r.price
           f == r.fast
           m == r.middle
           s == r.slow
<1>1. /\ p \in Int /\ f \in Int /\ m \in Int /\ s \in Int
      /\ o.price = -p /\ o.fast = -f /\ o.middle = -m /\ o.slow = -s
  BY DEF Reversed
<1>2. PICK plus, minus \in Nat : r.moves = <<plus, minus>> /\ o.moves = <<minus, plus>>
  BY DEF Reversed
<1>3. /\ AdxAbove25(o.moves) <=> AdxAbove25(r.moves)
      /\ AdxBelow20(o.moves) <=> AdxBelow20(r.moves)
      /\ ~(AdxAbove25(r.moves) /\ AdxBelow20(r.moves))
  BY <1>2, StrengthIs
<1>4. /\ Structure(r) = CASE f > m /\ m > s -> "bullish" [] f < m /\ m < s -> "bearish"
                          [] OTHER -> "mixed"
      /\ Structure(o) = CASE o.fast > o.middle /\ o.middle > o.slow -> "bullish"
                          [] o.fast < o.middle /\ o.middle < o.slow -> "bearish"
                          [] OTHER -> "mixed"
  BY DEF Structure
<1> HIDE DEF p, f, m, s
<1>5. /\ (o.fast > o.middle /\ o.middle > o.slow) <=> (f < m /\ m < s)
      /\ (o.fast < o.middle /\ o.middle < o.slow) <=> (f > m /\ m > s)
      /\ ~((f > m /\ m > s) /\ (f < m /\ m < s))
      /\ (o.price < o.fast) <=> (p > f)
      /\ (o.price > o.fast) <=> (p < f)
  BY <1>1
<1>6. Structure(o) = Opposite(Structure(r))
      /\ (Structure(o) = "bullish" <=> Structure(r) = "bearish")
      /\ (Structure(o) = "bearish" <=> Structure(r) = "bullish")
  BY <1>4, <1>5 DEF Opposite
<1>7. (r.price > r.fast <=> p > f) /\ (r.price < r.fast <=> p < f)
  BY DEF p, f
<1> DEFINE strongUp == AdxAbove25(r.moves) /\ Structure(r) = "bullish" /\ r.price > r.fast
           strongDown == AdxAbove25(r.moves) /\ Structure(r) = "bearish" /\ r.price < r.fast
           ranging == AdxBelow20(r.moves)
<1>8. Regime(r) = CASE strongUp -> "STRONG_UPTREND" [] strongDown -> "STRONG_DOWNTREND"
                    [] ranging -> "RANGING" [] OTHER -> "WEAK_TREND"
  BY DEF Regime
<1>9. /\ (AdxAbove25(o.moves) /\ Structure(o) = "bullish" /\ o.price > o.fast) <=> strongDown
      /\ (AdxAbove25(o.moves) /\ Structure(o) = "bearish" /\ o.price < o.fast) <=> strongUp
      /\ AdxBelow20(o.moves) <=> ranging
      /\ ~(strongUp /\ strongDown) /\ ~(strongUp /\ ranging) /\ ~(strongDown /\ ranging)
  BY <1>3, <1>5, <1>6, <1>7
<1> HIDE DEF strongUp, strongDown, ranging
<1>10. Regime(o) = CASE strongDown -> "STRONG_UPTREND" [] strongUp -> "STRONG_DOWNTREND"
                     [] ranging -> "RANGING" [] OTHER -> "WEAK_TREND"
  BY <1>9 DEF Regime
<1>11. CASE strongUp
  <2>1. Regime(r) = "STRONG_UPTREND" /\ Regime(o) = "STRONG_DOWNTREND"
    BY <1>8, <1>9, <1>10, <1>11
  <2> QED
    BY <1>6, <2>1, OppositeIs
<1>12. CASE strongDown
  <2>1. Regime(r) = "STRONG_DOWNTREND" /\ Regime(o) = "STRONG_UPTREND"
    BY <1>8, <1>9, <1>10, <1>12
  <2> QED
    BY <1>6, <2>1, OppositeIs
<1>13. CASE ranging
  <2>1. Regime(r) = "RANGING" /\ Regime(o) = "RANGING"
    BY <1>8, <1>9, <1>10, <1>13
  <2> QED
    BY <1>6, <2>1, OppositeIs
<1>14. CASE ~strongUp /\ ~strongDown /\ ~ranging
  <2>1. Regime(r) = "WEAK_TREND" /\ Regime(o) = "WEAK_TREND"
    BY <1>8, <1>10, <1>14
  <2> QED
    BY <1>6, <2>1, OppositeIs
<1> QED
  BY <1>6, <1>11, <1>12, <1>13, <1>14

\* The share of the gains against 70 and 30 percent.
Oscillator(share) ==
  CASE 10 * share[1] > 7 * share[2] -> "overbought"
    [] 10 * share[1] < 3 * share[2] -> "oversold"
    [] OTHER -> "neutral"

LEMMA OscillatorIs ==
  ASSUME NEW part \in Nat, NEW whole \in Nat
  PROVE  Oscillator(<<part, whole>>) =
           IF 10 * part > 7 * whole THEN "overbought"
           ELSE IF 10 * part < 3 * whole THEN "oversold" ELSE "neutral"
<1> DEFINE high == 10 * part > 7 * whole
           low == 10 * part < 3 * whole
<1>1. ~(high /\ low)
  OBVIOUS
<1>2. Oscillator(<<part, whole>>) =
        CASE high -> "overbought" [] low -> "oversold" [] OTHER -> "neutral"
  BY DEF Oscillator
<1> HIDE DEF high, low
<1>3. Oscillator(<<part, whole>>) =
        IF high THEN "overbought" ELSE IF low THEN "oversold" ELSE "neutral"
  <2>1. CASE high
    BY <1>1, <1>2, <2>1
  <2>2. CASE low
    BY <1>1, <1>2, <2>2
  <2>3. CASE ~high /\ ~low
    BY <1>2, <2>3
  <2> QED
    BY <2>1, <2>2, <2>3
<1> QED
  BY <1>3 DEF high, low

LEMMA OscillatorsOpposite ==
  ASSUME NEW bars \in Seq(Bar), Len(bars) >= Slow,
         ~(Rsi(bars) = <<1, 1>> /\ Rsi(Mirrored(bars)) = <<1, 1>>)
  PROVE  Oscillator(Rsi(Mirrored(bars))) = Opposite(Oscillator(Rsi(bars)))
<1>1. Len(bars) >= Period + 1
  BY Periods, SeqDomain
<1>2. PICK plus, minus \in Nat :
        /\ Rsi(bars) = IF minus = 0 THEN <<1, 1>> ELSE <<plus, plus + minus>>
        /\ Rsi(Mirrored(bars)) = IF plus = 0 THEN <<1, 1>> ELSE <<minus, plus + minus>>
  BY <1>1, RsiIs
<1>3. Oscillator(<<1, 1>>) = "overbought"
  BY OscillatorIs
<1>4. CASE plus = 0 /\ minus = 0
  BY <1>2, <1>4
<1>5. CASE plus # 0 /\ minus = 0
  <2>1. Rsi(bars) = <<1, 1>> /\ Rsi(Mirrored(bars)) = <<0, plus>>
    BY <1>2, <1>5
  <2>2. Oscillator(<<0, plus>>) = "oversold"
    BY <1>5, OscillatorIs
  <2> QED
    BY <1>3, <2>1, <2>2, OppositeIs
<1>6. CASE plus = 0 /\ minus # 0
  <2>1. Rsi(bars) = <<0, minus>> /\ Rsi(Mirrored(bars)) = <<1, 1>>
    BY <1>2, <1>6
  <2>2. Oscillator(<<0, minus>>) = "oversold"
    BY <1>6, OscillatorIs
  <2> QED
    BY <1>3, <2>1, <2>2, OppositeIs
<1>7. CASE plus # 0 /\ minus # 0
  <2>1. Rsi(bars) = <<plus, plus + minus>> /\ Rsi(Mirrored(bars)) = <<minus, plus + minus>>
    BY <1>2, <1>7
  <2>2. plus + minus \in Nat
    OBVIOUS
  <2>3. /\ 10 * minus > 7 * (plus + minus) <=> 10 * plus < 3 * (plus + minus)
        /\ 10 * minus < 3 * (plus + minus) <=> 10 * plus > 7 * (plus + minus)
        /\ ~(10 * plus > 7 * (plus + minus) /\ 10 * plus < 3 * (plus + minus))
    OBVIOUS
  <2>4. /\ Oscillator(<<plus, plus + minus>>) =
             IF 10 * plus > 7 * (plus + minus) THEN "overbought"
             ELSE IF 10 * plus < 3 * (plus + minus) THEN "oversold" ELSE "neutral"
        /\ Oscillator(<<minus, plus + minus>>) =
             IF 10 * minus > 7 * (plus + minus) THEN "overbought"
             ELSE IF 10 * minus < 3 * (plus + minus) THEN "oversold" ELSE "neutral"
    BY <2>2, OscillatorIs
  <2>5. Oscillator(<<minus, plus + minus>>) = Opposite(Oscillator(<<plus, plus + minus>>))
    BY <2>3, <2>4, OppositeIs
  <2> QED
    BY <2>1, <2>5
<1> QED
  BY <1>4, <1>5, <1>6, <1>7

\* The strength of the trend is told alike, the position of the price and the
\* reason of the regime the other way round, a price on the average included.
LEMMA StrengthsAlike ==
  ASSUME NEW r, NEW o, Reversed(r, o)
  PROVE  Strength(o.moves) = Opposite(Strength(r.moves))
<1>1. PICK plus, minus \in Nat : r.moves = <<plus, minus>> /\ o.moves = <<minus, plus>>
  BY DEF Reversed
<1> DEFINE low == AdxBelow20(r.moves)
           high == AdxAbove25(r.moves) /\ ~AdxAbove40(r.moves)
           top == AdxAbove40(r.moves)
<1>2. /\ AdxBelow20(o.moves) <=> low
      /\ (AdxAbove25(o.moves) /\ ~AdxAbove40(o.moves)) <=> high
      /\ AdxAbove40(o.moves) <=> top
  BY <1>1, StrengthIs
<1>3. Strength(r.moves) = CASE low -> "sideways" [] high -> "strong" [] top -> "very strong"
                            [] OTHER -> "moderate"
  BY DEF Strength
<1>4. Strength(o.moves) = CASE AdxBelow20(o.moves) -> "sideways"
                            [] AdxAbove25(o.moves) /\ ~AdxAbove40(o.moves) -> "strong"
                            [] AdxAbove40(o.moves) -> "very strong" [] OTHER -> "moderate"
  BY DEF Strength
<1>5. ~(low /\ high) /\ ~(low /\ top) /\ ~(high /\ top)
  BY <1>1, StrengthIs DEF AdxAbove40, AdxBelow20, Above
<1> HIDE DEF low, high, top
<1>6. Strength(o.moves) = Strength(r.moves)
      /\ Strength(r.moves) \in {"sideways", "strong", "very strong", "moderate"}
  <2>1. CASE low
    BY <1>2, <1>3, <1>4, <1>5, <2>1
  <2>2. CASE high
    BY <1>2, <1>3, <1>4, <1>5, <2>2
  <2>3. CASE top
    BY <1>2, <1>3, <1>4, <1>5, <2>3
  <2>4. CASE ~low /\ ~high /\ ~top
    BY <1>2, <1>3, <1>4, <2>4
  <2> QED
    BY <2>1, <2>2, <2>3, <2>4
<1> QED
  BY <1>6, OppositesOfTrends

LEMMA SidesOpposite ==
  ASSUME NEW r, NEW o, Reversed(r, o)
  PROVE  PriceSide(o) = Opposite(PriceSide(r))
<1> DEFINE p == r.price
           f == r.fast
<1>1. p \in Int /\ f \in Int /\ o.price = -p /\ o.fast = -f
  BY DEF Reversed
<1>2. /\ PriceSide(r) = CASE p > f -> "above" [] p < f -> "below" [] OTHER -> "on"
      /\ PriceSide(o) = CASE o.price > o.fast -> "above" [] o.price < o.fast -> "below"
                          [] OTHER -> "on"
  BY DEF PriceSide
<1> HIDE DEF p, f
<1>3. /\ (o.price > o.fast) <=> (p < f)
      /\ (o.price < o.fast) <=> (p > f)
      /\ ~(p > f /\ p < f)
  BY <1>1
<1>4. CASE p > f
  BY <1>2, <1>3, <1>4, OppositeIs
<1>5. CASE p < f
  BY <1>2, <1>3, <1>5, OppositeIs
<1>6. CASE ~(p > f) /\ ~(p < f)
  BY <1>2, <1>3, <1>6, OppositeIs
<1> QED
  BY <1>4, <1>5, <1>6

LEMMA RationalesOpposite ==
  ASSUME NEW r, NEW o, Reversed(r, o)
  PROVE  Rationale(o) = Opposite(Rationale(r))
<1> DEFINE p == r.price
           f == r.fast
           trend == AdxAbove25(r.moves)
           hung == Structure(r) = "bullish" /\ p <= f
           propped == Structure(r) = "bearish" /\ p >= f
<1>1. /\ p \in Int /\ f \in Int /\ o.price = -p /\ o.fast = -f
      /\ Regime(o) = Opposite(Regime(r)) /\ Structure(o) = Opposite(Structure(r))
  BY RegimesOpposite DEF Reversed
<1>2. PICK plus, minus \in Nat : r.moves = <<plus, minus>> /\ o.moves = <<minus, plus>>
  BY DEF Reversed
<1>3. AdxAbove25(o.moves) <=> trend
  BY <1>2, StrengthIs
<1>4. Structure(r) \in {"bullish", "bearish", "mixed"}
  BY DEF Structure
<1>5. /\ Structure(o) = "bullish" <=> Structure(r) = "bearish"
      /\ Structure(o) = "bearish" <=> Structure(r) = "bullish"
  BY <1>1, <1>4 DEF Opposite
<1>6. (o.price <= o.fast <=> p >= f) /\ (o.price >= o.fast <=> p <= f)
  <2> HIDE DEF p, f
  <2> QED
    BY <1>1
<1>7. Regime(r) \in {"STRONG_UPTREND", "STRONG_DOWNTREND", "RANGING", "WEAK_TREND"}
  BY DEF Regime
<1>8. Regime(o) = "WEAK_TREND" <=> Regime(r) = "WEAK_TREND"
  BY <1>1, <1>7, OppositeIs
<1>9. CASE Regime(r) # "WEAK_TREND"
  <2>1. Rationale(r) = Regime(r) /\ Rationale(o) = Regime(o)
    BY <1>8, <1>9 DEF Rationale
  <2> QED
    BY <1>1, <2>1
<1>10. CASE Regime(r) = "WEAK_TREND" /\ ~trend
  <2>1. Rationale(r) = "in transition" /\ Rationale(o) = "in transition"
    BY <1>3, <1>8, <1>10 DEF Rationale
  <2> QED
    BY <2>1, OppositesOfTrends
<1>11. CASE Regime(r) = "WEAK_TREND" /\ trend
  <2>1. Rationale(r) = CASE hung -> "bullish below the average"
                         [] propped -> "bearish above the average" [] OTHER -> "not stacked"
    BY <1>11 DEF Rationale
  <2>2. Rationale(o) =
          CASE Structure(o) = "bullish" /\ o.price <= o.fast -> "bullish below the average"
            [] Structure(o) = "bearish" /\ o.price >= o.fast -> "bearish above the average"
            [] OTHER -> "not stacked"
    BY <1>3, <1>8, <1>11 DEF Rationale
  <2>3. /\ (Structure(o) = "bullish" /\ o.price <= o.fast) <=> propped
        /\ (Structure(o) = "bearish" /\ o.price >= o.fast) <=> hung
        /\ ~(hung /\ propped)
    BY <1>5, <1>6
  <2> HIDE DEF hung, propped
  <2>4. CASE hung
    BY <2>1, <2>2, <2>3, <2>4, OppositesOfTrends
  <2>5. CASE propped
    BY <2>1, <2>2, <2>3, <2>5, OppositesOfTrends
  <2>6. CASE ~hung /\ ~propped
    BY <2>1, <2>2, <2>3, <2>6, OppositesOfTrends
  <2> QED
    BY <2>4, <2>5, <2>6
<1> QED
  BY <1>9, <1>10, <1>11

Arrow(volume) == IF volume > 0 THEN "up" ELSE "down"

LEMMA ArrowsOpposite ==
  ASSUME NEW volume \in Int, volume # 0
  PROVE  Arrow(-volume) = Opposite(Arrow(volume))
<1>1. CASE volume > 0
  BY <1>1, OppositeIs DEF Arrow
<1>2. CASE volume < 0
  BY <1>2, OppositeIs DEF Arrow
<1> QED
  BY <1>1, <1>2

LEMMA ClaimsAre ==
  ASSUME NEW bars
  PROVE  LET r == Readings(bars)
         IN  /\ Claims(bars).regime = Regime(r) /\ Claims(bars).rationale = Rationale(r)
             /\ Claims(bars).strength = Strength(r.moves) /\ Claims(bars).structure = Structure(r)
             /\ Claims(bars).price = PriceSide(r) /\ Claims(bars).volume = Arrow(r.obv)
             /\ Claims(bars).rsi = Oscillator(Rsi(bars)) /\ r.obv = Volume(bars)
BY DEF Claims, Arrow, Oscillator, Readings

LEMMA ClaimsOpposite ==
  ASSUME NEW bars \in Seq(Bar), Len(bars) >= Slow,
         NEW c \in {"regime", "rationale", "strength", "structure", "price", "volume", "rsi"},
         ~Tied(bars, c)
  PROVE  Claims(Mirrored(bars))[c] = Opposite(Claims(bars)[c])
<1> DEFINE r == Readings(bars)
           o == Readings(Mirrored(bars))
           here == Claims(bars)
           there == Claims(Mirrored(bars))
<1>1. Reversed(r, o)
  BY ReadingsReversed
<1>2. /\ here.regime = Regime(r) /\ here.rationale = Rationale(r)
      /\ here.strength = Strength(r.moves) /\ here.structure = Structure(r)
      /\ here.price = PriceSide(r) /\ here.volume = Arrow(r.obv)
      /\ here.rsi = Oscillator(Rsi(bars)) /\ r.obv = Volume(bars)
  BY ClaimsAre
<1>3. /\ there.regime = Regime(o) /\ there.rationale = Rationale(o)
      /\ there.strength = Strength(o.moves) /\ there.structure = Structure(o)
      /\ there.price = PriceSide(o) /\ there.volume = Arrow(o.obv)
      /\ there.rsi = Oscillator(Rsi(Mirrored(bars)))
  BY ClaimsAre
<1>4. c = "volume" => r.obv # 0
  BY <1>2 DEF Tied
<1>5. c = "rsi" => Oscillator(Rsi(Mirrored(bars))) = Opposite(Oscillator(Rsi(bars)))
  BY OscillatorsOpposite DEF Tied
<1> HIDE DEF r, o, here, there
<1>6. /\ Regime(o) = Opposite(Regime(r)) /\ Structure(o) = Opposite(Structure(r))
      /\ Rationale(o) = Opposite(Rationale(r)) /\ PriceSide(o) = Opposite(PriceSide(r))
      /\ Strength(o.moves) = Opposite(Strength(r.moves))
  BY <1>1, RegimesOpposite, RationalesOpposite, SidesOpposite, StrengthsAlike
<1>7. c = "volume" => Arrow(o.obv) = Opposite(Arrow(r.obv))
  BY <1>1, <1>4, ArrowsOpposite DEF Reversed
<1>8. there[c] = Opposite(here[c])
  BY <1>2, <1>3, <1>5, <1>6, <1>7
<1> QED
  BY <1>8 DEF here, there

\* The methods asked about two markets upside down of each other.
LEMMA MethodsOpposite ==
  ASSUME NEW bars \in Seq(Bar), Len(bars) >= Slow
  PROVE  LET regime == Claims(bars).regime
             called == Methods(regime)
             other == Methods(Claims(Mirrored(bars)).regime)
         IN  /\ called \ other = IF regime = "STRONG_UPTREND" THEN {"volume_breakout"} ELSE {}
             /\ other \ called = IF regime = "STRONG_DOWNTREND" THEN {"volume_breakout"} ELSE {}
<1> DEFINE regime == Claims(bars).regime
           there == Claims(Mirrored(bars)).regime
<1>1. there = Opposite(regime)
  BY ClaimsOpposite DEF Tied
<1>2. regime \in {"STRONG_UPTREND", "STRONG_DOWNTREND", "RANGING", "WEAK_TREND"}
  BY ClaimsAre DEF Regime
<1> HIDE DEF regime, there
<1>3. CASE regime = "STRONG_UPTREND"
  <2>1. there = "STRONG_DOWNTREND"
    BY <1>1, <1>3, OppositeIs
  <2> QED
    BY <1>3, <2>1 DEF Methods, regime, there
<1>4. CASE regime = "STRONG_DOWNTREND"
  <2>1. there = "STRONG_UPTREND"
    BY <1>1, <1>4, OppositeIs
  <2> QED
    BY <1>4, <2>1 DEF Methods, regime, there
<1>5. CASE regime \in {"RANGING", "WEAK_TREND"}
  <2>1. there = regime
    BY <1>1, <1>5, OppositeIs
  <2> QED
    BY <1>5, <2>1 DEF regime, there
<1> QED
  BY <1>2, <1>3, <1>4, <1>5

\* With fewer bars than the slowest average takes that average is zero.
LEMMA ClaimsOfFew ==
  ASSUME NEW bars \in Seq(Bar), bars # <<>>, ~(Len(bars) >= Slow)
  PROVE  Claims(bars).structure # "bearish" /\ Claims(bars).regime # "STRONG_DOWNTREND"
<1> DEFINE r == Readings(bars)
<1>1. r.slow = 0
  <2>1. Len(bars) < Slow
    BY Periods, SeqDomain
  <2> QED
    BY <2>1 DEF Readings, Average
<1>2. r.middle \in Nat
  BY AverageIs DEF Readings
<1>3. Claims(bars).structure = Structure(r) /\ Claims(bars).regime = Regime(r)
  BY ClaimsAre
<1> HIDE DEF r
<1>4. Structure(r) # "bearish"
  <2>1. ~(r.middle < r.slow)
    BY <1>1, <1>2
  <2> QED
    BY <2>1 DEF Structure
<1>5. Regime(r) # "STRONG_DOWNTREND"
  BY <1>4 DEF Regime
<1> QED
  BY <1>3, <1>4, <1>5

-----------------------------------------------------------------------------
(* The levels of a vote.  The k-th smallest of some levels, and what it     *)
(* keeps of what is true of every single forecast.                          *)

AtMost(a, places, x) == {i \in places : a[i] <= x}
Below(a, places, x) == {i \in places : a[i] < x}

LEMMA GreatestLevel ==
  ASSUME NEW S \in SUBSET Int, IsFiniteSet(S), S # {}
  PROVE  \E x \in S : \A y \in S : y <= x
<1> DEFINE Bad == {s \in SUBSET S : s # {} /\ ~\E x \in s : \A y \in s : y <= x}
<1>1. ASSUME NEW s \in Bad PROVE s \ {Pick(s)} \in Bad
  <2> DEFINE p == Pick(s)
  <2>1. p \in s /\ s \subseteq Int /\ ~\E x \in s : \A y \in s : y <= x
    BY DEF Pick
  <2> HIDE DEF p
  <2>2. s \ {p} # {}
    <3> SUFFICES ASSUME s \ {p} = {} PROVE FALSE
      OBVIOUS
    <3>1. \A y \in s : y = p
      OBVIOUS
    <3> QED
      BY <2>1, <3>1
  <2>3. ASSUME NEW m \in s \ {p}, \A y \in s \ {p} : y <= m PROVE FALSE
    <3>1. CASE p <= m
      BY <2>1, <2>3, <3>1
    <3>2. CASE m <= p
      BY <2>1, <2>3, <3>2
    <3> QED
      BY <2>1, <3>1, <3>2
  <2> QED
    BY <2>2, <2>3 DEF p
<1>2. Bad \in SUBSET SUBSET S /\ {} \notin Bad
  OBVIOUS
<1>3. S \in SUBSET S
  OBVIOUS
<1> HIDE DEF Bad
<1>4. Bad = {}
  BY <1>1, <1>2, NoLeastSet
<1> QED
  BY <1>3, <1>4 DEF Bad

LEMMA LeastLevel ==
  ASSUME NEW S \in SUBSET Int, IsFiniteSet(S), S # {}
  PROVE  \E x \in S : \A y \in S : x <= y
<1> DEFINE Bad == {s \in SUBSET S : s # {} /\ ~\E x \in s : \A y \in s : x <= y}
<1>1. ASSUME NEW s \in Bad PROVE s \ {Pick(s)} \in Bad
  <2> DEFINE p == Pick(s)
  <2>1. p \in s /\ s \subseteq Int /\ ~\E x \in s : \A y \in s : x <= y
    BY DEF Pick
  <2> HIDE DEF p
  <2>2. s \ {p} # {}
    <3> SUFFICES ASSUME s \ {p} = {} PROVE FALSE
      OBVIOUS
    <3>1. \A y \in s : y = p
      OBVIOUS
    <3> QED
      BY <2>1, <3>1
  <2>3. ASSUME NEW m \in s \ {p}, \A y \in s \ {p} : m <= y PROVE FALSE
    <3>1. CASE m <= p
      BY <2>1, <2>3, <3>1
    <3>2. CASE p <= m
      BY <2>1, <2>3, <3>2
    <3> QED
      BY <2>1, <3>1, <3>2
  <2> QED
    BY <2>2, <2>3 DEF p
<1>2. Bad \in SUBSET SUBSET S /\ {} \notin Bad
  OBVIOUS
<1>3. S \in SUBSET S
  OBVIOUS
<1> HIDE DEF Bad
<1>4. Bad = {}
  BY <1>1, <1>2, NoLeastSet
<1> QED
  BY <1>3, <1>4 DEF Bad

\* Levels at finitely many places.
LevelsAt(a, places) == IsFiniteSet(places) /\ \A i \in places : a[i] \in Int

LEMMA Counts ==
  ASSUME NEW a, NEW P, LevelsAt(a, P)
  PROVE  /\ Cardinality(P) \in Nat
         /\ \A x : /\ IsFiniteSet(AtMost(a, P, x)) /\ IsFiniteSet(Below(a, P, x))
                   /\ Cardinality(AtMost(a, P, x)) \in Nat
                   /\ Cardinality(Below(a, P, x)) \in Nat
         /\ \A x, y \in Int : x < y =>
                Cardinality(AtMost(a, P, x)) <= Cardinality(Below(a, P, y))
<1>1. IsFiniteSet(P) /\ Cardinality(P) \in Nat
  BY FS_CardinalityType DEF LevelsAt
<1>2. ASSUME NEW x
      PROVE  /\ IsFiniteSet(AtMost(a, P, x)) /\ IsFiniteSet(Below(a, P, x))
             /\ Cardinality(AtMost(a, P, x)) \in Nat /\ Cardinality(Below(a, P, x)) \in Nat
  <2>1. AtMost(a, P, x) \subseteq P /\ Below(a, P, x) \subseteq P
    BY DEF AtMost, Below
  <2>2. IsFiniteSet(AtMost(a, P, x)) /\ IsFiniteSet(Below(a, P, x))
    BY <1>1, <2>1, FS_Subset
  <2> QED
    BY <2>2, FS_CardinalityType
<1>3. ASSUME NEW x \in Int, NEW y \in Int, x < y
      PROVE  Cardinality(AtMost(a, P, x)) <= Cardinality(Below(a, P, y))
  <2>1. AtMost(a, P, x) \subseteq Below(a, P, y)
    BY <1>3 DEF AtMost, Below, LevelsAt
  <2> QED
    BY <1>2, <2>1, FS_Subset
<1> QED
  BY <1>1, <1>2, <1>3

\* x is the k-th smallest.
IsRanked(a, P, k, x) ==
  /\ x \in {a[i] : i \in P}
  /\ Cardinality(Below(a, P, x)) < k
  /\ k <= Cardinality(AtMost(a, P, x))

LEMMA RankedIs ==
  ASSUME NEW a, NEW P, LevelsAt(a, P), NEW k \in 1 .. Cardinality(P)
  PROVE  IsRanked(a, P, k, Ranked(a, P, k)) /\ Ranked(a, P, k) \in Int
<1> DEFINE R == {a[i] : i \in P}
           Enough == {x \in R : k <= Cardinality(AtMost(a, P, x))}
<1>1. R \in SUBSET Int /\ IsFiniteSet(R)
  <2>1. R \in SUBSET Int
    BY DEF LevelsAt
  <2>2. IsFiniteSet(R)
    <3>1. PICK n \in Nat : \E s : s \in Surjection(1 .. n, P)
      BY FS_NatSurjection DEF LevelsAt, ExistsSurjection
    <3>3. PICK s : s \in Surjection(1 .. n, P)
      BY <3>1
    <3> DEFINE f == [j \in 1 .. n |-> a[s[j]]]
    <3>2. f \in Surjection(1 .. n, R)
      BY <3>3 DEF Surjection
    <3> HIDE DEF f, R
    <3> QED
      BY <3>2, FS_NatSurjection DEF ExistsSurjection
  <2> QED
    BY <2>1, <2>2
<1>2. Enough # {}
  <2>1. P # {}
    BY FS_EmptySet DEF LevelsAt
  <2>2. PICK g \in R : \A y \in R : y <= g
    <3>1. R # {}
      BY <2>1
    <3> HIDE DEF R
    <3> QED
      BY <1>1, <3>1, GreatestLevel
  <2>3. AtMost(a, P, g) = P
    BY <2>2 DEF AtMost
  <2>4. k <= Cardinality(P)
    OBVIOUS
  <2> QED
    BY <2>2, <2>3, <2>4
<1>3. Enough \in SUBSET Int /\ IsFiniteSet(Enough)
  <2>1. Enough \subseteq R
    OBVIOUS
  <2> HIDE DEF R, Enough
  <2> QED
    BY <1>1, <2>1, FS_Subset
<1>4. PICK x \in Enough : \A y \in Enough : x <= y
  <2> HIDE DEF Enough
  <2> QED
    BY <1>2, <1>3, LeastLevel
<1>5. x \in R /\ x \in Int /\ k <= Cardinality(AtMost(a, P, x))
  BY <1>1, <1>4
<1>6. Cardinality(Below(a, P, x)) < k
  <2> DEFINE lesser == {y \in R : y < x}
  <2>1. CASE lesser = {}
    <3>1. Below(a, P, x) = {}
      BY <2>1 DEF Below
    <3> QED
      BY <3>1, FS_EmptySet
  <2>2. CASE lesser # {}
    <3>1. lesser \in SUBSET Int /\ IsFiniteSet(lesser)
      <4>1. lesser \subseteq R
        OBVIOUS
      <4> HIDE DEF lesser, R
      <4> QED
        BY <1>1, <4>1, FS_Subset
    <3>2. PICK y \in lesser : \A z \in lesser : z <= y
      <4> HIDE DEF lesser
      <4> QED
        BY <2>2, <3>1, GreatestLevel
    <3>3. y \in R /\ y < x /\ y \in Int
      BY <1>1, <3>2
    <3>4. Below(a, P, x) = AtMost(a, P, y)
      <4>1. \A i \in P : a[i] \in Int /\ (a[i] < x => a[i] \in lesser)
        BY <1>1
      <4> QED
        BY <1>5, <3>2, <3>3, <4>1 DEF Below, AtMost
    <3>5. y \notin Enough
      BY <1>4, <1>5, <3>3
    <3>6. ~(k <= Cardinality(AtMost(a, P, y)))
      BY <3>3, <3>5
    <3>7. Cardinality(AtMost(a, P, y)) \in Nat
      BY Counts
    <3> QED
      BY <3>4, <3>6, <3>7
  <2> QED
    BY <2>1, <2>2
<1>7. Ranked(a, P, k) = CHOOSE z \in R : Cardinality(Below(a, P, z)) < k
                                          /\ k <= Cardinality(AtMost(a, P, z))
  BY DEF Ranked, Below, AtMost
<1>8. /\ Ranked(a, P, k) \in R /\ Cardinality(Below(a, P, Ranked(a, P, k))) < k
      /\ k <= Cardinality(AtMost(a, P, Ranked(a, P, k)))
  <2> HIDE DEF R
  <2> QED
    BY <1>5, <1>6, <1>7
<1>9. Ranked(a, P, k) \in Int
  BY <1>1, <1>8
<1> QED
  BY <1>8, <1>9 DEF IsRanked

\* There is one k-th smallest.
LEMMA RankedOne ==
  ASSUME NEW a, NEW P, LevelsAt(a, P), NEW k \in 1 .. Cardinality(P),
         NEW x, IsRanked(a, P, k, x)
  PROVE  Ranked(a, P, k) = x
<1> DEFINE y == Ranked(a, P, k)
<1>1. IsRanked(a, P, k, y) /\ y \in Int
  BY RankedIs
<1>2. x \in Int
  BY DEF IsRanked, LevelsAt
<1> HIDE DEF y
<1>3. k \in Nat
  BY Counts
<1>4. ASSUME NEW u \in Int, NEW v \in Int, IsRanked(a, P, k, u), IsRanked(a, P, k, v), u < v
      PROVE  FALSE
  <2>1. Cardinality(AtMost(a, P, u)) <= Cardinality(Below(a, P, v))
    BY <1>4, Counts
  <2>2. /\ k <= Cardinality(AtMost(a, P, u)) /\ Cardinality(Below(a, P, v)) < k
        /\ Cardinality(AtMost(a, P, u)) \in Nat /\ Cardinality(Below(a, P, v)) \in Nat
    BY <1>4, Counts DEF IsRanked
  <2> QED
    BY <1>3, <2>1, <2>2
<1>5. ~(x < y) /\ ~(y < x)
  BY <1>1, <1>2, <1>4
<1>6. x = y
  BY <1>1, <1>2, <1>5
<1> QED
  BY <1>6 DEF y

\* Levels that are below others place by place, by more than a gap, are so rank
\* by rank.
LEMMA RankedBelow ==
  ASSUME NEW a, NEW b, NEW P, LevelsAt(a, P), LevelsAt(b, P), NEW g \in Nat,
         \A i \in P : a[i] + g < b[i],
         NEW k \in 1 .. Cardinality(P)
  PROVE  Ranked(a, P, k) + g < Ranked(b, P, k)
<1> DEFINE x == Ranked(a, P, k)
           y == Ranked(b, P, k)
<1>1. IsRanked(a, P, k, x) /\ x \in Int /\ IsRanked(b, P, k, y) /\ y \in Int
  BY RankedIs
<1> HIDE DEF x, y
<1>2. ASSUME ~(x + g < y) PROVE FALSE
  <2>1. AtMost(b, P, y) \subseteq Below(a, P, x)
    BY <1>1, <1>2 DEF AtMost, Below, LevelsAt
  <2>2. Cardinality(AtMost(b, P, y)) <= Cardinality(Below(a, P, x))
    BY <2>1, Counts, FS_Subset
  <2>3. /\ k <= Cardinality(AtMost(b, P, y)) /\ Cardinality(Below(a, P, x)) < k
        /\ Cardinality(AtMost(b, P, y)) \in Nat /\ Cardinality(Below(a, P, x)) \in Nat
        /\ k \in Nat
    BY <1>1, Counts DEF IsRanked
  <2> QED
    BY <2>2, <2>3
<1> QED
  BY <1>2 DEF x, y

\* A level that every place keeps to, every rank keeps to.
LEMMA RankedAmong ==
  ASSUME NEW a, NEW P, LevelsAt(a, P), NEW k \in 1 .. Cardinality(P)
  PROVE  \E i \in P : Ranked(a, P, k) = a[i]
BY RankedIs DEF IsRanked

LEMMA TwoRanks ==
  ASSUME NEW n \in Nat \ {0}
  PROVE  /\ (n + 1) \div 2 \in 1 .. n /\ n \div 2 + 1 \in 1 .. n
         /\ (n + 1) \div 2 + (n \div 2 + 1) = n + 1
OBVIOUS

\* Levels reflected at an axis have their ranks reflected, in the other order.
LEMMA RankedReflected ==
  ASSUME NEW a, NEW b, NEW P, LevelsAt(a, P), NEW axis \in Int,
         \A i \in P : b[i] = 2 * axis - a[i],
         NEW k \in 1 .. Cardinality(P)
  PROVE  /\ Cardinality(P) + 1 - k \in 1 .. Cardinality(P)
         /\ Ranked(b, P, k) = 2 * axis - Ranked(a, P, Cardinality(P) + 1 - k)
<1> DEFINE n == Cardinality(P)
           m == n + 1 - k
           x == Ranked(a, P, m)
           y == 2 * axis - x
<1>1. n \in Nat /\ k \in Nat /\ m \in 1 .. n /\ IsFiniteSet(P) /\ LevelsAt(b, P)
  <2>1. n \in Nat /\ IsFiniteSet(P)
    BY Counts DEF LevelsAt
  <2>2. LevelsAt(b, P)
    BY DEF LevelsAt
  <2> HIDE DEF n
  <2>3. k \in 1 .. n
    BY DEF n
  <2> QED
    BY <2>1, <2>2, <2>3
<1> HIDE DEF n, m
<1>2. IsRanked(a, P, m, x) /\ x \in Int
  BY <1>1, RankedIs DEF n
<1> HIDE DEF x
<1>3. Below(b, P, y) = P \ AtMost(a, P, x)
  BY <1>2 DEF Below, AtMost, LevelsAt
<1>4. AtMost(b, P, y) = P \ Below(a, P, x)
  BY <1>2 DEF Below, AtMost, LevelsAt
<1>5. /\ Cardinality(Below(b, P, y)) = n - Cardinality(AtMost(a, P, x))
      /\ Cardinality(AtMost(b, P, y)) = n - Cardinality(Below(a, P, x))
  <2>1. AtMost(a, P, x) \subseteq P /\ Below(a, P, x) \subseteq P
    BY DEF AtMost, Below
  <2>3. P \cap AtMost(a, P, x) = AtMost(a, P, x) /\ P \cap Below(a, P, x) = Below(a, P, x)
    BY <2>1
  <2>4. /\ Cardinality(P \ AtMost(a, P, x)) = Cardinality(P) - Cardinality(P \cap AtMost(a, P, x))
        /\ Cardinality(P \ Below(a, P, x)) = Cardinality(P) - Cardinality(P \cap Below(a, P, x))
    BY <1>1, FS_Difference, Zenon
  <2> QED
    BY <1>3, <1>4, <2>3, <2>4 DEF n
<1>6. /\ Cardinality(Below(a, P, x)) < m /\ m <= Cardinality(AtMost(a, P, x))
      /\ Cardinality(Below(a, P, x)) \in Nat /\ Cardinality(AtMost(a, P, x)) \in Nat
  BY <1>2, Counts DEF IsRanked
<1>7. Cardinality(Below(b, P, y)) < k /\ k <= Cardinality(AtMost(b, P, y))
  BY <1>1, <1>5, <1>6 DEF m
<1>8. y \in {b[i] : i \in P}
  BY <1>2 DEF IsRanked
<1>9. IsRanked(b, P, k, y)
  BY <1>7, <1>8 DEF IsRanked
<1>10. Ranked(b, P, k) = y
  BY <1>1, <1>9, RankedOne DEF n
<1> QED
  BY <1>1, <1>10 DEF y, x, m, n

\* The medians of positive levels are their two middle ranks.
LEMMA MedianIs ==
  ASSUME NEW a, LevelsAt(a, DOMAIN a), DOMAIN a # {}, \A i \in DOMAIN a : a[i] > 0
  PROVE  LET n == Cardinality(DOMAIN a)
         IN  /\ n \in Nat \ {0}
             /\ MedianTwice(a) = Ranked(a, DOMAIN a, (n + 1) \div 2)
                                 + Ranked(a, DOMAIN a, n \div 2 + 1)
<1>1. {i \in DOMAIN a : a[i] > 0} = DOMAIN a
  OBVIOUS
<1>2. Cardinality(DOMAIN a) \in Nat /\ Cardinality(DOMAIN a) # 0
  BY Counts, FS_EmptySet DEF LevelsAt
<1> QED
  BY <1>1, <1>2 DEF MedianTwice

LEMMA MedianBelow ==
  ASSUME NEW a, NEW b, DOMAIN b = DOMAIN a, LevelsAt(a, DOMAIN a), LevelsAt(b, DOMAIN a),
         DOMAIN a # {}, NEW g \in Nat, \A i \in DOMAIN a : 0 < a[i] /\ a[i] + g < b[i]
  PROVE  /\ MedianTwice(a) \in Nat /\ MedianTwice(b) \in Nat
         /\ 0 < MedianTwice(a) /\ MedianTwice(a) + 2 * g < MedianTwice(b)
<1> DEFINE P == DOMAIN a
           n == Cardinality(P)
           k == (n + 1) \div 2
           l == n \div 2 + 1
<1>1. n \in Nat \ {0} /\ k \in 1 .. n /\ l \in 1 .. n
  <2>1. n \in Nat \ {0}
    BY MedianIs
  <2> HIDE DEF n
  <2> QED
    BY <2>1, TwoRanks
<1>2. /\ MedianTwice(a) = Ranked(a, P, k) + Ranked(a, P, l)
      /\ MedianTwice(b) = Ranked(b, P, k) + Ranked(b, P, l)
  <2>1. \A i \in P : b[i] > 0
    BY DEF LevelsAt
  <2> QED
    BY <2>1, MedianIs
<1> HIDE DEF k, l
<1>3. /\ Ranked(a, P, k) \in Int /\ Ranked(a, P, l) \in Int
      /\ Ranked(b, P, k) \in Int /\ Ranked(b, P, l) \in Int
      /\ Ranked(a, P, k) > 0 /\ Ranked(a, P, l) > 0
  BY <1>1, RankedIs, RankedAmong
<1>4. Ranked(a, P, k) + g < Ranked(b, P, k) /\ Ranked(a, P, l) + g < Ranked(b, P, l)
  BY <1>1, RankedBelow
<1> HIDE DEF P, n
<1> QED
  BY <1>2, <1>3, <1>4

\* A median is within the bounds of its levels.
LEMMA MedianWithin ==
  ASSUME NEW a, LevelsAt(a, DOMAIN a), DOMAIN a # {}, \A i \in DOMAIN a : a[i] > 0
  PROVE  /\ MedianTwice(a) \in Nat \ {0}
         /\ \A lo \in Int : (\A i \in DOMAIN a : lo <= a[i]) => 2 * lo <= MedianTwice(a)
         /\ \A hi \in Int : (\A i \in DOMAIN a : a[i] <= hi) => MedianTwice(a) <= 2 * hi
<1> DEFINE P == DOMAIN a
           n == Cardinality(P)
           k == (n + 1) \div 2
           l == n \div 2 + 1
<1>1. n \in Nat \ {0} /\ k \in 1 .. n /\ l \in 1 .. n
  <2>1. n \in Nat \ {0}
    BY MedianIs
  <2> HIDE DEF n
  <2> QED
    BY <2>1, TwoRanks
<1>2. MedianTwice(a) = Ranked(a, P, k) + Ranked(a, P, l)
  BY MedianIs
<1> HIDE DEF k, l
<1>3. PICK i \in P : Ranked(a, P, k) = a[i]
  BY <1>1, RankedAmong
<1>4. PICK j \in P : Ranked(a, P, l) = a[j]
  BY <1>1, RankedAmong
<1>5. a[i] \in Int /\ a[i] > 0 /\ a[j] \in Int /\ a[j] > 0
  BY DEF LevelsAt
<1> QED
  BY <1>2, <1>3, <1>4, <1>5

\* Where a combination of two levels is bounded at every place, so is that of
\* a rank of the one and the opposite rank of the other.
LEMMA RankedCovers ==
  ASSUME NEW s, NEW t, NEW P, LevelsAt(s, P), LevelsAt(t, P), NEW c \in Int,
         \A i \in P : 2 * t[i] + 3 * s[i] >= c,
         NEW u \in 1 .. Cardinality(P), NEW v \in 1 .. Cardinality(P),
         u + v = Cardinality(P) + 1
  PROVE  /\ Ranked(t, P, u) \in Int /\ Ranked(s, P, v) \in Int
         /\ 2 * Ranked(t, P, u) + 3 * Ranked(s, P, v) >= c
<1> DEFINE n == Cardinality(P)
           x == Ranked(t, P, u)
           y == Ranked(s, P, v)
<1>1. IsRanked(t, P, u, x) /\ x \in Int /\ IsRanked(s, P, v, y) /\ y \in Int
  BY RankedIs
<1>2. n \in Nat
  BY Counts
<1> HIDE DEF x, y
<1>3. /\ u <= Cardinality(AtMost(t, P, x)) /\ v <= Cardinality(AtMost(s, P, y))
      /\ Cardinality(AtMost(t, P, x)) \in Nat /\ Cardinality(AtMost(s, P, y)) \in Nat
      /\ IsFiniteSet(AtMost(t, P, x)) /\ IsFiniteSet(AtMost(s, P, y))
  BY <1>1, Counts DEF IsRanked
<1>4. PICK i \in AtMost(t, P, x) : i \in AtMost(s, P, y)
  <2> SUFFICES ASSUME AtMost(t, P, x) \cap AtMost(s, P, y) = {} PROVE FALSE
    OBVIOUS
  <2>1. Cardinality(AtMost(t, P, x) \cup AtMost(s, P, y))
          = Cardinality(AtMost(t, P, x)) + Cardinality(AtMost(s, P, y)) - 0
    BY <1>3, FS_Union, FS_EmptySet
  <2>2. AtMost(t, P, x) \cup AtMost(s, P, y) \subseteq P
    BY DEF AtMost
  <2>3. Cardinality(AtMost(t, P, x) \cup AtMost(s, P, y)) <= n
    BY <2>2, FS_Subset DEF LevelsAt
  <2> QED
    BY <1>2, <1>3, <2>1, <2>3
<1>5. /\ t[i] <= x /\ s[i] <= y /\ t[i] \in Int /\ s[i] \in Int
      /\ 2 * t[i] + 3 * s[i] >= c
  BY <1>4 DEF AtMost, LevelsAt
<1>6. 2 * x + 3 * y >= c
  BY <1>1, <1>5
<1> QED
  BY <1>1, <1>6 DEF x, y

LEMMA RankedCovered ==
  ASSUME NEW s, NEW t, NEW P, LevelsAt(s, P), LevelsAt(t, P), NEW c \in Int,
         \A i \in P : 2 * t[i] + 3 * s[i] <= c,
         NEW u \in 1 .. Cardinality(P), NEW v \in 1 .. Cardinality(P),
         u + v = Cardinality(P) + 1
  PROVE  /\ Ranked(t, P, u) \in Int /\ Ranked(s, P, v) \in Int
         /\ 2 * Ranked(t, P, u) + 3 * Ranked(s, P, v) <= c
<1> DEFINE n == Cardinality(P)
           a == [i \in P |-> -s[i]]
           b == [i \in P |-> -t[i]]
<1>1. LevelsAt(a, P) /\ LevelsAt(b, P) /\ \A i \in P : 2 * b[i] + 3 * a[i] >= -c
  BY DEF LevelsAt
<1>2. \A i \in P : a[i] = 2 * 0 - s[i] /\ b[i] = 2 * 0 - t[i]
  BY DEF LevelsAt
<1>3. n \in Nat /\ n + 1 - u = v /\ n + 1 - v = u
  BY Counts
<1> HIDE DEF a, b, n
<1>4. PICK z \in Int : z = 0
  OBVIOUS
<1>5. /\ Ranked(b, P, v) = 2 * z - Ranked(t, P, u)
      /\ Ranked(a, P, u) = 2 * z - Ranked(s, P, v)
  <2>1. \A i \in P : a[i] = 2 * z - s[i] /\ b[i] = 2 * z - t[i]
    BY <1>2, <1>4
  <2>2. /\ Ranked(b, P, v) = 2 * z - Ranked(t, P, n + 1 - v)
        /\ Ranked(a, P, u) = 2 * z - Ranked(s, P, n + 1 - u)
    BY <2>1, RankedReflected DEF n
  <2> QED
    BY <1>3, <2>2
<1>6. v + u = Cardinality(P) + 1
  BY <1>3 DEF n
<1>7. 2 * Ranked(b, P, v) + 3 * Ranked(a, P, u) >= -c
  BY <1>1, <1>6, RankedCovers
<1>8. Ranked(t, P, u) \in Int /\ Ranked(s, P, v) \in Int
  BY RankedIs
<1> QED
  BY <1>4, <1>5, <1>7, <1>8

\* So it is with the medians, whose two ranks are opposite to each other.
LEMMA MedianCovers ==
  ASSUME NEW s, NEW t, DOMAIN t = DOMAIN s, LevelsAt(s, DOMAIN s), LevelsAt(t, DOMAIN s),
         DOMAIN s # {}, NEW c \in Int, \A i \in DOMAIN s : s[i] > 0 /\ t[i] > 0
  PROVE  /\ (\A i \in DOMAIN s : 2 * t[i] + 3 * s[i] >= c) =>
                2 * MedianTwice(t) + 3 * MedianTwice(s) >= 2 * c
         /\ (\A i \in DOMAIN s : 2 * t[i] + 3 * s[i] <= c) =>
                2 * MedianTwice(t) + 3 * MedianTwice(s) <= 2 * c
<1> DEFINE P == DOMAIN s
           n == Cardinality(P)
           k == (n + 1) \div 2
           l == n \div 2 + 1
<1>1. n \in Nat \ {0} /\ k \in 1 .. n /\ l \in 1 .. n /\ k + l = n + 1
  <2>1. n \in Nat \ {0}
    BY MedianIs
  <2> HIDE DEF n
  <2> QED
    BY <2>1, TwoRanks
<1>2. /\ MedianTwice(s) = Ranked(s, P, k) + Ranked(s, P, l)
      /\ MedianTwice(t) = Ranked(t, P, k) + Ranked(t, P, l)
  BY MedianIs
<1> HIDE DEF k, l
<1>3. l + k = n + 1
  BY <1>1 DEF k, l
<1>4. /\ Ranked(t, P, k) \in Int /\ Ranked(s, P, l) \in Int
      /\ Ranked(t, P, l) \in Int /\ Ranked(s, P, k) \in Int
  BY <1>1, RankedIs
<1>5. ASSUME \A i \in P : 2 * t[i] + 3 * s[i] >= c
      PROVE  /\ 2 * Ranked(t, P, k) + 3 * Ranked(s, P, l) >= c
             /\ 2 * Ranked(t, P, l) + 3 * Ranked(s, P, k) >= c
  BY <1>1, <1>3, <1>5, RankedCovers
<1>6. ASSUME \A i \in P : 2 * t[i] + 3 * s[i] <= c
      PROVE  /\ 2 * Ranked(t, P, k) + 3 * Ranked(s, P, l) <= c
             /\ 2 * Ranked(t, P, l) + 3 * Ranked(s, P, k) <= c
  BY <1>1, <1>3, <1>6, RankedCovered
<1> HIDE DEF n
<1>7. ASSUME \A i \in P : 2 * t[i] + 3 * s[i] >= c
      PROVE  2 * MedianTwice(t) + 3 * MedianTwice(s) >= 2 * c
  BY <1>2, <1>4, <1>5, <1>7
<1>8. ASSUME \A i \in P : 2 * t[i] + 3 * s[i] <= c
      PROVE  2 * MedianTwice(t) + 3 * MedianTwice(s) <= 2 * c
  BY <1>2, <1>4, <1>6, <1>8
<1> QED
  BY <1>7, <1>8

\* Levels that are there and have a positive reflection, by more than a gap: the
\* median of the reflected levels is the reflected median.
LEMMA MedianReflected ==
  ASSUME NEW a, NEW b, NEW axis \in Int, DOMAIN b = DOMAIN a, IsFiniteSet(DOMAIN a),
         NEW g \in Nat,
         \A i \in DOMAIN a : /\ a[i] \in Int
                             /\ a[i] = 0 \/ (g < a[i] /\ a[i] < 2 * axis - g)
                             /\ b[i] = Reflect(a[i], axis)
  PROVE  /\ MedianTwice(a) \in Nat
         /\ MedianTwice(b) = Reflect(MedianTwice(a), 2 * axis)
         /\ MedianTwice(a) = 0 \/ (2 * g < MedianTwice(a) /\ MedianTwice(a) < 4 * axis - 2 * g)
<1> DEFINE P == {i \in DOMAIN a : a[i] > 0}
           n == Cardinality(P)
           k == (n + 1) \div 2
           l == n \div 2 + 1
<1>1. {i \in DOMAIN b : b[i] > 0} = P
  BY DEF Reflect, Absent
<1>2. CASE P = {}
  BY <1>1, <1>2 DEF MedianTwice, Reflect, Absent
<1>3. CASE P # {}
  <2>1. LevelsAt(a, P) /\ IsFiniteSet(P)
    <3>1. P \subseteq DOMAIN a
      OBVIOUS
    <3>2. IsFiniteSet(P)
      BY <3>1, FS_Subset
    <3> QED
      BY <3>2 DEF LevelsAt
  <2>2. \A i \in P : b[i] = 2 * axis - a[i] /\ g < a[i] /\ a[i] < 2 * axis - g
    BY DEF Reflect, Absent
  <2>3. MedianTwice(a) = Ranked(a, P, k) + Ranked(a, P, l)
    BY <1>3 DEF MedianTwice
  <2>4. MedianTwice(b) = Ranked(b, P, k) + Ranked(b, P, l)
    BY <1>1, <1>3 DEF MedianTwice
  <2> HIDE DEF P
  <2>5. n \in Nat \ {0}
    BY <1>3, <2>1, FS_CardinalityType, FS_EmptySet
  <2> HIDE DEF n
  <2>6. k \in 1 .. n /\ l \in 1 .. n /\ k + l = n + 1
    BY <2>5, TwoRanks
  <2> HIDE DEF k, l
  <2>7. n + 1 - k = l /\ n + 1 - l = k
    BY <2>5, <2>6
  <2>8. Ranked(b, P, k) = 2 * axis - Ranked(a, P, n + 1 - k)
    BY <2>1, <2>2, <2>6, RankedReflected DEF n
  <2>9. Ranked(b, P, l) = 2 * axis - Ranked(a, P, n + 1 - l)
    BY <2>1, <2>2, <2>6, RankedReflected DEF n
  <2>10. PICK i \in P : Ranked(a, P, k) = a[i]
    BY <2>1, <2>6, RankedAmong DEF n
  <2>11. PICK j \in P : Ranked(a, P, l) = a[j]
    BY <2>1, <2>6, RankedAmong DEF n
  <2>12. /\ a[i] \in Int /\ g < a[i] /\ a[i] < 2 * axis - g
         /\ a[j] \in Int /\ g < a[j] /\ a[j] < 2 * axis - g
    BY <2>1, <2>2 DEF LevelsAt
  <2>13. /\ MedianTwice(a) \in Nat /\ MedianTwice(a) # 0
         /\ 2 * g < MedianTwice(a) /\ MedianTwice(a) < 4 * axis - 2 * g
    BY <2>3, <2>10, <2>11, <2>12
  <2>14. MedianTwice(b) = 2 * (2 * axis) - MedianTwice(a)
    <3>1. Ranked(b, P, k) = 2 * axis - a[j] /\ Ranked(b, P, l) = 2 * axis - a[i]
      BY <2>7, <2>8, <2>9, <2>10, <2>11
    <3> QED
      BY <2>3, <2>4, <2>10, <2>11, <2>12, <3>1
  <2> QED
    BY <2>13, <2>14 DEF Reflect, Absent
<1> QED
  BY <1>2, <1>3

-----------------------------------------------------------------------------
(* The weights of a vote.                                                   *)

\* A property of sets that every set passes on to one without one of its
\* elements is one of no set.
LEMMA NoSmallest ==
  ASSUME NEW S, IsFiniteSet(S), NEW Bad \in SUBSET SUBSET S,
         \A s \in Bad : \E x \in s : s \ {x} \in Bad
  PROVE  Bad = {}
<1> SUFFICES ASSUME Bad # {} PROVE FALSE
  OBVIOUS
<1> DEFINE sizes == {Cardinality(s) : s \in Bad}
<1>1. ASSUME NEW s \in Bad PROVE IsFiniteSet(s) /\ Cardinality(s) \in Nat
  <2>1. s \in SUBSET S
    OBVIOUS
  <2> QED
    BY <2>1, FS_Subset, FS_CardinalityType
<1>2. sizes \in SUBSET Nat /\ sizes # {}
  BY <1>1
<1>3. PICK k \in sizes : \A j \in sizes : k =< j
  BY <1>2, LeastIsThere
<1>4. PICK s \in Bad : k = Cardinality(s)
  BY <1>3
<1>5. PICK x \in s : s \ {x} \in Bad
  BY <1>4
<1>6. Cardinality(s \ {x}) = k - 1 /\ k \in Nat
  BY <1>1, <1>4, <1>5, FS_RemoveElement
<1>7. k - 1 \in sizes
  BY <1>5, <1>6
<1> QED
  BY <1>3, <1>6, <1>7

\* p sums up the values of f over each set of places.
IsSum(f, p) == \A s \in SUBSET DOMAIN f : p[s] = Summed(f, s, p)

LEMMA SumAnyOrder ==
  ASSUME NEW f, NEW p, IsFiniteSet(DOMAIN f), IsSum(f, p), \A i \in DOMAIN f : f[i] \in Nat
  PROVE  \A s \in SUBSET DOMAIN f : /\ p[s] \in Nat
                                    /\ \A x \in s : p[s] = f[x] + p[s \ {x}]
<1> DEFINE D == DOMAIN f
           Odd == {s \in SUBSET D : p[s] \notin Nat}
           Bad == {s \in SUBSET D : \E x \in s : p[s] # f[x] + p[s \ {x}]}
<1>1. p[{}] = 0
  BY DEF IsSum, Summed
<1>2. ASSUME NEW s \in SUBSET D, s # {}
      PROVE  /\ Pick(s) \in s /\ Pick(s) \in D /\ s \ {Pick(s)} \in SUBSET D
             /\ p[s] = f[Pick(s)] + p[s \ {Pick(s)}]
  <2>1. Pick(s) \in s
    BY <1>2 DEF Pick
  <2>2. p[s] = Summed(f, s, p)
    BY DEF IsSum
  <2> QED
    BY <1>2, <2>1, <2>2 DEF Summed
<1>3. Odd = {}
  <2>1. ASSUME NEW s \in Odd PROVE s # {} /\ s \ {Pick(s)} \in Odd
    <3>1. s # {}
      BY <1>1
    <3> DEFINE q == Pick(s)
    <3>2. q \in D /\ s \ {q} \in SUBSET D /\ p[s] = f[q] + p[s \ {q}] /\ p[s] \notin Nat
      BY <1>2, <3>1
    <3> HIDE DEF q
    <3>3. f[q] \in Nat
      BY <3>2
    <3>4. p[s \ {q}] \notin Nat
      BY <3>2, <3>3
    <3> QED
      BY <3>1, <3>2, <3>4 DEF q
  <2>2. Odd \in SUBSET SUBSET D
    OBVIOUS
  <2> HIDE DEF Odd
  <2>3. {} \notin Odd
    BY <2>1
  <2> QED
    BY <2>1, <2>2, <2>3, NoLeastSet
<1>4. \A s \in SUBSET D : p[s] \in Nat
  BY <1>3
<1>5. Bad = {}
  <2>1. ASSUME NEW s \in Bad PROVE \E x \in s : s \ {x} \in Bad
    <3>1. PICK x \in s : p[s] # f[x] + p[s \ {x}]
      OBVIOUS
    <3> DEFINE q == Pick(s)
               t == s \ {q}
               u == s \ {x}
               v == (s \ {q}) \ {x}
    <3>2. s \in SUBSET D /\ s # {} /\ t \in SUBSET D /\ u \in SUBSET D /\ v \in SUBSET D
      BY <3>1
    <3>3. q \in s /\ p[s] = f[q] + p[t]
      BY <1>2, <3>2
    <3> HIDE DEF q
    <3>4. q # x
      BY <3>1, <3>3
    <3>5. x \in t /\ q \in u /\ t \ {x} = v /\ u \ {q} = v
      BY <3>1, <3>3, <3>4
    <3> SUFFICES ASSUME t \notin Bad, u \notin Bad PROVE FALSE
      BY <3>1, <3>3
    <3>6. p[t] = f[x] + p[v] /\ p[u] = f[q] + p[v]
      BY <3>2, <3>5
    <3>7. p[t] \in Nat /\ p[u] \in Nat /\ p[v] \in Nat /\ p[s] \in Nat
      BY <1>4, <3>2
    <3>8. f[x] \in Nat /\ f[q] \in Nat
      BY <3>1, <3>2, <3>3
    <3>9. p[s] # f[x] + p[u]
      BY <3>1
    <3> HIDE DEF t, u, v
    <3> QED
      BY <3>3, <3>6, <3>7, <3>8, <3>9
  <2>2. Bad \in SUBSET SUBSET D
    OBVIOUS
  <2> HIDE DEF Bad
  <2> QED
    BY <2>1, <2>2, NoSmallest
<1> QED
  BY <1>4, <1>5

LEMMA SumOfTwo ==
  ASSUME NEW f, NEW p, IsFiniteSet(DOMAIN f), IsSum(f, p), \A i \in DOMAIN f : f[i] \in Nat,
         NEW A \in SUBSET DOMAIN f, NEW B \in SUBSET DOMAIN f, A \cap B = {}
  PROVE  p[A] + p[B] <= p[DOMAIN f] /\ p[A] \in Nat /\ p[B] \in Nat
<1> DEFINE D == DOMAIN f
           Bad(S, T) == {s \in SUBSET S : p[s \cup T] # p[s] + p[T]}
<1>1. \A s \in SUBSET D : p[s] \in Nat /\ \A x \in s : p[s] = f[x] + p[s \ {x}]
  BY SumAnyOrder
<1>2. p[{}] = 0
  BY DEF IsSum, Summed
<1>3. ASSUME NEW S \in SUBSET D, NEW T \in SUBSET D, S \cap T = {}
      PROVE  p[S \cup T] = p[S] + p[T]
  <2>1. {} \notin Bad(S, T)
    <3>1. p[T] \in Nat /\ {} \cup T = T
      BY <1>1
    <3> QED
      BY <1>2, <3>1
  <2>2. ASSUME NEW s \in Bad(S, T), s # {} PROVE s \ {Pick(s)} \in Bad(S, T)
    <3> DEFINE q == Pick(s)
               t == s \ {q}
    <3>1. q \in s
      BY <2>2 DEF Pick
    <3> HIDE DEF q
    <3>2. /\ s \in SUBSET D /\ t \in SUBSET D /\ s \cup T \in SUBSET D /\ t \cup T \in SUBSET D
          /\ q \in s \cup T /\ (s \cup T) \ {q} = t \cup T /\ q \in D /\ t \in SUBSET S
      BY <1>3, <3>1
    <3>3. p[s] = f[q] + p[t] /\ p[s \cup T] = f[q] + p[t \cup T]
      BY <1>1, <3>1, <3>2
    <3>4. p[s \cup T] # p[s] + p[T]
      OBVIOUS
    <3>5. f[q] \in Nat /\ p[t] \in Nat /\ p[T] \in Nat /\ p[t \cup T] \in Nat
      BY <1>1, <3>2
    <3> HIDE DEF t
    <3>6. p[t \cup T] # p[t] + p[T]
      BY <3>3, <3>4, <3>5
    <3> QED
      BY <3>2, <3>6 DEF t, q
  <2>3. Bad(S, T) \in SUBSET SUBSET S /\ IsFiniteSet(S)
    BY FS_Subset
  <2>4. S \in SUBSET S
    OBVIOUS
  <2>5. Bad(S, T) = {}
    <3> HIDE DEF Bad
    <3> QED
      BY <2>1, <2>2, <2>3, NoLeastSet
  <2> QED
    BY <2>4, <2>5
<1>4. p[A \cup B] = p[A] + p[B]
  BY <1>3
<1>5. p[(A \cup B) \cup (D \ (A \cup B))] = p[A \cup B] + p[D \ (A \cup B)]
  <2>1. A \cup B \in SUBSET D /\ D \ (A \cup B) \in SUBSET D
        /\ (A \cup B) \cap (D \ (A \cup B)) = {}
    OBVIOUS
  <2> HIDE DEF D
  <2> QED
    BY <1>3, <2>1
<1>6. (A \cup B) \cup (D \ (A \cup B)) = D
  OBVIOUS
<1>7. p[A] \in Nat /\ p[B] \in Nat /\ p[A \cup B] \in Nat /\ p[D \ (A \cup B)] \in Nat
  BY <1>1
<1> HIDE DEF Bad
<1> QED
  BY <1>4, <1>5, <1>6, <1>7

\* Summing up over some of the places is summing up what is there.
LEMMA SumOfSome ==
  ASSUME NEW f, NEW p, IsFiniteSet(DOMAIN f), IsSum(f, p), NEW A \in SUBSET DOMAIN f
  PROVE  Total([i \in A |-> f[i]]) = p[A]
<1> DEFINE g == [i \in A |-> f[i]]
<1>1. DOMAIN g = A /\ IsFiniteSet(A)
  BY FS_Subset
<1> HIDE DEF g
<1>2. PICK q : /\ Total(g) = q[A]
               /\ \A s \in SUBSET A : q[s] = Summed(g, s, q)
  BY <1>1, SumKnown
<1> DEFINE Bad == {s \in SUBSET A : q[s] # p[s]}
<1>3. {} \notin Bad
  <2>1. {} \in SUBSET A /\ {} \in SUBSET DOMAIN f
    OBVIOUS
  <2> QED
    BY <1>2, <2>1 DEF IsSum, Summed
<1>4. ASSUME NEW s \in Bad, s # {} PROVE s \ {Pick(s)} \in Bad
  <2> DEFINE x == Pick(s)
             t == s \ {x}
  <2>1. x \in s
    BY <1>4 DEF Pick
  <2>2. q[s] = g[x] + q[t]
    BY <1>2, <1>4 DEF Summed
  <2>3. p[s] = f[x] + p[t]
    <3>1. s \in SUBSET DOMAIN f
      OBVIOUS
    <3> QED
      BY <1>4, <3>1 DEF IsSum, Summed
  <2> HIDE DEF x
  <2>4. g[x] = f[x] /\ t \in SUBSET A
    BY <2>1 DEF g
  <2>5. q[s] # p[s]
    OBVIOUS
  <2>6. q[t] # p[t]
    BY <2>2, <2>3, <2>4, <2>5
  <2> QED
    BY <2>4, <2>6 DEF t, x
<1>5. Bad = {}
  <2>1. Bad \in SUBSET SUBSET A
    OBVIOUS
  <2> HIDE DEF Bad
  <2> QED
    BY <1>1, <1>3, <1>4, <2>1, NoLeastSet
<1>6. q[A] = p[A]
  BY <1>5
<1> QED
  BY <1>2, <1>6 DEF g

LEMMA WeightsOfTwo ==
  ASSUME NEW fs, NEW votes, IsFiniteSet(votes), \A i \in votes : fs[i].weight \in Nat,
         NEW A \in SUBSET votes, NEW B \in SUBSET votes, A \cap B = {}
  PROVE  /\ WeightOf(fs, A) \in Nat /\ WeightOf(fs, B) \in Nat /\ WeightOf(fs, votes) \in Nat
         /\ WeightOf(fs, A) + WeightOf(fs, B) <= WeightOf(fs, votes)
<1> DEFINE f == [i \in votes |-> fs[i].weight]
<1>1. DOMAIN f = votes /\ \A i \in votes : f[i] = fs[i].weight /\ f[i] \in Nat
  OBVIOUS
<1>2. /\ WeightOf(fs, A) = Total([i \in A |-> f[i]])
      /\ WeightOf(fs, B) = Total([i \in B |-> f[i]])
      /\ WeightOf(fs, votes) = Total(f)
  <2>1. ASSUME NEW S \in SUBSET votes PROVE [i \in S |-> fs[i].weight] = [i \in S |-> f[i]]
    BY <1>1
  <2>2. /\ [i \in A |-> fs[i].weight] = [i \in A |-> f[i]]
        /\ [i \in B |-> fs[i].weight] = [i \in B |-> f[i]]
    BY <2>1
  <2> QED
    BY <2>2 DEF WeightOf, Total
<1> HIDE DEF f
<1>3. PICK p : /\ Total(f) = p[votes]
               /\ \A s \in SUBSET votes : p[s] = Summed(f, s, p)
  BY <1>1, SumKnown
<1>4. IsSum(f, p)
  BY <1>1, <1>3 DEF IsSum
<1>5. p[A] + p[B] <= p[votes] /\ p[A] \in Nat /\ p[B] \in Nat
  BY <1>1, <1>4, SumOfTwo
<1>6. p[votes] \in Nat
  BY <1>1, <1>4, SumAnyOrder
<1>7. Total([i \in A |-> f[i]]) = p[A] /\ Total([i \in B |-> f[i]]) = p[B]
  BY <1>1, <1>4, SumOfSome
<1> QED
  BY <1>2, <1>3, <1>5, <1>6, <1>7

\* A rounded share above one half is one of more than half.
LEMMA RoundedShare ==
  ASSUME NEW w \in Nat, NEW total \in Nat \ {0}
  PROVE  /\ RoundRatio(1000 * w, total) \in Nat
         /\ RoundRatio(1000 * w, total) > 500 => 2 * w > total
<1> DEFINE a == 1000 * w
           q == a \div total
           r == a % total
<1>1. a \in Nat /\ q \in Nat /\ r \in 0 .. total - 1 /\ a = total * q + r
  OBVIOUS
<1>2. RoundRatio(a, total) \in {q, q + 1}
  BY DEF RoundRatio
<1>3. RoundRatio(a, total) = q + 1 => r > 0
  <2> SUFFICES ASSUME RoundRatio(a, total) = q + 1, r = 0 PROVE FALSE
    BY <1>1
  <2>1. ~(2 * r > total \/ (2 * r = total /\ q % 2 = 1))
    OBVIOUS
  <2>2. RoundRatio(a, total) = q
    BY <2>1 DEF RoundRatio
  <2> QED
    BY <1>1, <2>2
<1> HIDE DEF q, r
<1>4. CASE q < 500
  BY <1>1, <1>2, <1>4
<1>5. CASE q = 500
  <2>1. a = 500 * total + r
    <3>1. total * q = 500 * total
      BY <1>5
    <3> QED
      BY <1>1, <3>1
  <2>2. RoundRatio(a, total) > 500 => r > 0
    BY <1>1, <1>2, <1>3, <1>5
  <2> QED
    BY <1>1, <1>2, <2>1, <2>2
<1>6. CASE q > 500
  <2>1. total * q >= total * 501
    BY <1>1, <1>6
  <2> HIDE DEF a
  <2>2. a >= total * 501
    <3> DEFINE m == total * q
    <3>1. m \in Nat /\ a = m + r /\ m >= total * 501
      BY <1>1, <2>1
    <3> HIDE DEF m
    <3> QED
      BY <1>1, <3>1
  <2>3. 2 * w > total
    BY <2>2 DEF a
  <2> QED
    BY <1>1, <1>2, <2>3 DEF a
<1> QED
  BY <1>1, <1>4, <1>5, <1>6

-----------------------------------------------------------------------------
(* Rounding.                                                                *)

\* k is x rounded to a whole number of steps: no other is nearer, and none that
\* is as near is even.
IsRounded(x, t, k) ==
  /\ 2 * (k * t - x) <= t /\ 2 * (x - k * t) <= t
  /\ 2 * (k * t - x) = t \/ 2 * (x - k * t) = t => k % 2 = 0

LEMMA RatioIs ==
  ASSUME NEW x \in Int, NEW t \in Nat \ {0}
  PROVE  RoundRatio(x, t) \in Int /\ IsRounded(x, t, RoundRatio(x, t))
<1> DEFINE q == x \div t
           r == x % t
           over == 2 * r > t \/ (2 * r = t /\ q % 2 = 1)
           m == t * q
<1>1. q \in Int /\ r \in 0 .. t - 1 /\ x = t * q + r
  OBVIOUS
<1>2. RoundRatio(x, t) = IF over THEN q + 1 ELSE q
  BY DEF RoundRatio
<1>3. m \in Int /\ x = m + r /\ q * t = m /\ (q + 1) * t = m + t
  BY <1>1
<1> HIDE DEF m
<1>4. CASE over
  <2>1. 2 * r > t \/ (2 * r = t /\ q % 2 = 1)
    BY <1>4
  <2> HIDE DEF q, r, over
  <2>2. 2 * r >= t /\ (2 * r = t => (q + 1) % 2 = 0)
    BY <1>1, <2>1
  <2>3. RoundRatio(x, t) = q + 1
    BY <1>2, <1>4
  <2> QED
    BY <1>1, <1>3, <2>2, <2>3 DEF IsRounded
<1>5. CASE ~over
  <2>1. ~(2 * r > t \/ (2 * r = t /\ q % 2 = 1))
    BY <1>5
  <2> HIDE DEF q, r, over
  <2>2. 2 * r <= t /\ (2 * r = t => q % 2 = 0)
    BY <1>1, <2>1
  <2>3. RoundRatio(x, t) = q
    BY <1>2, <1>5
  <2> QED
    BY <1>1, <1>3, <2>2, <2>3 DEF IsRounded
<1> QED
  BY <1>4, <1>5

\* There is one such k.
LEMMA RatioOne ==
  ASSUME NEW x \in Int, NEW t \in Nat \ {0}, NEW k \in Int, IsRounded(x, t, k)
  PROVE  RoundRatio(x, t) = k
<1> DEFINE j == RoundRatio(x, t)
<1>1. j \in Int /\ IsRounded(x, t, j)
  BY RatioIs
<1> HIDE DEF j
<1>2. ASSUME NEW a \in Int, NEW b \in Int, IsRounded(x, t, a), IsRounded(x, t, b), a < b
      PROVE  FALSE
  <2> DEFINE d == b - a
             m == a * t
             n == b * t
  <2>1. d \in Nat \ {0} /\ m \in Int /\ n \in Int /\ n = m + d * t
    BY <1>2
  <2>2. /\ 2 * (m - x) <= t /\ 2 * (x - m) <= t /\ 2 * (n - x) <= t /\ 2 * (x - n) <= t
        /\ 2 * (x - m) = t => a % 2 = 0
        /\ 2 * (n - x) = t => b % 2 = 0
    BY <1>2 DEF IsRounded
  <2>3. d * t = t + (d - 1) * t /\ (d - 1) * t >= 0 /\ (d - 1) * t \in Int
    BY <2>1
  <2> DEFINE e == (d - 1) * t
  <2>4. n = m + t + e /\ e >= 0 /\ e \in Int
    BY <2>1, <2>3
  <2>5. d # 1 => e >= t
    <3> DEFINE c == d - 1
    <3>1. c \in Nat /\ (d # 1 => c \in Nat \ {0}) /\ e = c * t
      BY <2>1
    <3> HIDE DEF c, d, e
    <3>2. c \in Nat \ {0} => c * t >= t
      OBVIOUS
    <3> QED
      BY <3>1, <3>2
  <2>6. b = a + d
    BY <1>2
  <2> HIDE DEF m, n, d, e
  <2>7. e = 0 /\ 2 * (x - m) = t /\ 2 * (n - x) = t
    BY <2>1, <2>2, <2>4
  <2>8. d = 1
    BY <2>1, <2>5, <2>7
  <2> QED
    BY <1>2, <2>2, <2>6, <2>7, <2>8
<1>3. ~(j < k) /\ ~(k < j)
  BY <1>1, <1>2
<1>4. j = k
  BY <1>1, <1>3
<1> QED
  BY <1>4 DEF j

\* Rounding moves a number by half a step at most, and leaves whole steps.
LEMMA RoundIs ==
  ASSUME NEW x \in Int, NEW t \in Nat \ {0}
  PROVE  /\ \E k \in Int : RoundTo(x, t) = k * t
         /\ RoundTo(x, t) \in Int
         /\ 2 * (RoundTo(x, t) - x) <= t /\ 2 * (x - RoundTo(x, t)) <= t
         /\ RoundTo(x, t) - x <= t \div 2 /\ x - RoundTo(x, t) <= t \div 2
         /\ RoundTo(RoundTo(x, t), t) = RoundTo(x, t)
<1> DEFINE k == RoundRatio(x, t)
           m == k * t
<1>1. k \in Int /\ 2 * (k * t - x) <= t /\ 2 * (x - k * t) <= t
  BY RatioIs DEF IsRounded
<1>2. RoundTo(x, t) = m
  BY DEF RoundTo
<1> HIDE DEF k
<1>3. m \in Int /\ 2 * (m - x) <= t /\ 2 * (x - m) <= t
  BY <1>1
<1>4. RoundTo(m, t) = m
  <2>1. IsRounded(m, t, k)
    <3>1. k * t = m
      OBVIOUS
    <3> HIDE DEF m
    <3> QED
      BY <1>3, <3>1 DEF IsRounded
  <2>2. RoundRatio(m, t) = k
    <3> HIDE DEF m
    <3> QED
      BY <1>1, <1>3, <2>1, RatioOne
  <2> QED
    BY <2>2 DEF RoundTo
<1>5. m - x <= t \div 2 /\ x - m <= t \div 2
  <2> HIDE DEF m
  <2> QED
    BY <1>3
<1> QED
  BY <1>1, <1>2, <1>3, <1>4, <1>5

LEMMA RoundOfZero ==
  ASSUME NEW t \in Nat \ {0}
  PROVE  RoundTo(0, t) = 0
<1>1. PICK z \in Int : z = 0
  OBVIOUS
<1>2. IsRounded(z, t, z)
  BY <1>1 DEF IsRounded
<1> QED
  BY <1>1, <1>2, RatioOne DEF RoundTo

\* It never changes the order of two numbers, so it keeps their sign.
LEMMA RoundOrdered ==
  ASSUME NEW x \in Int, NEW y \in Int, x <= y, NEW t \in Nat \ {0}
  PROVE  /\ RoundTo(x, t) <= RoundTo(y, t)
         /\ x >= 0 => RoundTo(x, t) \in Nat
<1>1. ASSUME NEW u \in Int, NEW v \in Int, u <= v PROVE RoundTo(u, t) <= RoundTo(v, t)
  <2> DEFINE j == RoundRatio(u, t)
             k == RoundRatio(v, t)
             m == j * t
             n == k * t
  <2>1. /\ j \in Int /\ 2 * (j * t - u) <= t /\ 2 * (u - j * t) <= t
        /\ k \in Int /\ 2 * (k * t - v) <= t /\ 2 * (v - k * t) <= t
    BY RatioIs DEF IsRounded
  <2>2. RoundTo(u, t) = m /\ RoundTo(v, t) = n
    BY DEF RoundTo
  <2>7. m \in Int /\ n \in Int
    BY <2>1
  <2> SUFFICES ASSUME n < m PROVE FALSE
    <3> HIDE DEF m, n
    <3> QED
      BY <2>2, <2>7
  <2>3. u # v
    <3>1. u = v => m = n
      OBVIOUS
    <3> HIDE DEF m, n
    <3> QED
      BY <2>7, <3>1
  <2> HIDE DEF j, k
  <2>4. k < j
    <3> SUFFICES ASSUME j <= k PROVE FALSE
      BY <2>1
    <3>1. j * t <= k * t
      BY <2>1
    <3> QED
      BY <2>1, <3>1
  <2>5. m >= n + t
    <3>1. (k + 1) * t <= j * t /\ (k + 1) * t = k * t + t
      BY <2>1, <2>4
    <3> QED
      BY <2>1, <3>1
  <2>6. /\ 2 * (m - u) <= t /\ 2 * (v - n) <= t
    BY <2>1
  <2> HIDE DEF m, n
  <2> QED
    BY <1>1, <2>3, <2>5, <2>6, <2>7
<1>2. ASSUME x >= 0 PROVE RoundTo(x, t) \in Nat
  <2>1. RoundTo(0, t) <= RoundTo(x, t)
    BY <1>1, <1>2
  <2> QED
    BY <2>1, RoundIs, RoundOfZero
<1> QED
  BY <1>1, <1>2

\* At an even number of steps, it treats both sides alike.
LEMMA RoundReflected ==
  ASSUME NEW x \in Int, NEW t \in Nat \ {0}, NEW axis \in Int, axis % t = 0
  PROVE  RoundTo(2 * axis - x, t) = 2 * axis - RoundTo(x, t)
<1> DEFINE m == axis \div t
           k == RoundRatio(x, t)
           y == 2 * axis - x
           j == 2 * m - k
<1>1. m \in Int /\ axis = t * m
  OBVIOUS
<1>2. k \in Int /\ IsRounded(x, t, k)
  BY RatioIs
<1> HIDE DEF m, k
<1>3. j \in Int /\ y \in Int /\ j * t = 2 * axis - k * t
  BY <1>1, <1>2
<1>4. k % 2 = 0 => j % 2 = 0
  BY <1>1, <1>2
<1> DEFINE n == k * t
<1>5. n \in Int /\ j * t = 2 * axis - n
  BY <1>2, <1>3
<1>6. /\ 2 * (n - x) <= t /\ 2 * (x - n) <= t
      /\ 2 * (n - x) = t \/ 2 * (x - n) = t => k % 2 = 0
  BY <1>2 DEF IsRounded
<1>7. RoundTo(x, t) = n
  BY DEF RoundTo, k
<1> HIDE DEF n
<1>8. IsRounded(y, t, j)
  <2> HIDE DEF j
  <2> QED
    BY <1>4, <1>5, <1>6 DEF IsRounded
<1>9. RoundRatio(y, t) = j
  <2> HIDE DEF j, y
  <2> QED
    BY <1>3, <1>8, RatioOne
<1>10. RoundTo(y, t) = 2 * axis - n
  BY <1>5, <1>9 DEF RoundTo
<1> QED
  BY <1>7, <1>10
-----------------------------------------------------------------------------
(* The forecasts of a run.                                                  *)

Called == {Calls[i] : i \in 1 .. Len(Calls)}

Accepted == [model : Called, side : Sides, weight : Nat, entry : Int, stop : Int,
             target : Int, text : Seq(Int)]

\* What the risk/reward test lets through.
Sound(f) ==
  /\ f.side = "LONG" =>
        /\ 0 < f.stop /\ f.stop < f.entry /\ f.entry <= Price
        /\ f.text = <<>> => 0 < f.target /\ 2 * (f.target - f.entry) >= 3 * (f.entry - f.stop)
  /\ f.side = "SHORT" =>
        /\ 0 < f.entry /\ f.entry < f.stop /\ Price <= f.entry
        /\ f.text = <<>> => 0 < f.target /\ 2 * (f.entry - f.target) >= 3 * (f.stop - f.entry)

LEMMA PriceIs == Price \in Nat /\ Price > 0
BY AnswersAssumption DEF AnswersAssumption

LEMMA EntryIs ==
  ASSUME NEW a, a.entry \in Int
  PROVE  AnchoredEntry(a, Price) \in Int /\ AnchoredEntry(a, Price) > 0
<1> DEFINE wanted == IF a.entry = Absent THEN Price ELSE a.entry
<1>1. wanted \in Int /\ Price \in Int /\ Price > 0
  BY PriceIs
<1> HIDE DEF wanted
<1>2. ~FarFrom(Price, wanted, 5) => wanted > 0
  BY <1>1 DEF FarFrom, Distance
<1>3. \/ AnchoredEntry(a, Price) = Price
      \/ AnchoredEntry(a, Price) = wanted /\ ~FarFrom(Price, wanted, 5)
  <2>1. CASE FarFrom(Price, wanted, 5)
    <3>1. AnchoredEntry(a, Price) = Price
      BY <2>1, Zenon DEF AnchoredEntry, wanted
    <3> QED
      BY <3>1
  <2>2. CASE ~FarFrom(Price, wanted, 5)
    <3>1. AnchoredEntry(a, Price) \in {Price, wanted}
      BY DEF AnchoredEntry, wanted
    <3> QED
      BY <2>2, <3>1
  <2> QED
    BY <2>1, <2>2
<1> QED
  BY <1>1, <1>2, <1>3

LEMMA LevelsAre ==
  ASSUME NEW a, a.stop \in Int, a.target \in Int, NEW width \in Int, NEW entry \in Int,
         NEW stop \in Int, NEW cent \in Nat \ {0}
  PROVE  /\ AnchoredStop(a, Price, width, entry, cent) \in Int
         /\ AnchoredTarget(a, Price, entry, stop, cent) \in Int
<1> DEFINE risk == Distance(entry, stop)
           own == IF a.side = "LONG" THEN entry - 2 * width ELSE entry + 2 * width
           beyond == IF a.side = "LONG" THEN entry + 2 * risk ELSE entry - 2 * risk
<1>1. risk \in Int
  BY DEF Distance
<1>2. own \in Int /\ beyond \in Int
  <2> HIDE DEF risk
  <2> QED
    BY <1>1
<1>3. RoundTo(own, cent) \in Int /\ RoundTo(beyond, cent) \in Int
  <2> HIDE DEF own, beyond
  <2> QED
    BY <1>2, RoundIs
<1>4. /\ AnchoredStop(a, Price, width, entry, cent) \in {a.stop, RoundTo(own, cent)}
      /\ AnchoredTarget(a, Price, entry, stop, cent) \in {a.target, RoundTo(beyond, cent)}
  BY Zenon DEF AnchoredStop, AnchoredTarget
<1> HIDE DEF own, beyond
<1> QED
  BY <1>3, <1>4

LEMMA AcceptedIsSound ==
  ASSUME NEW f, f.side \in Sides, f.entry \in Int, f.stop \in Int, f.target \in Int,
         f.side # "NEUTRAL" => f.entry > 0, ValidSignal(f, Price)
  PROVE  Sound(f)
<1>1. f.text = <<>> => (IF f.target > 0 THEN f.target
                        ELSE IF f.text = <<>> THEN Absent ELSE f.text[Len(f.text)])
                       = IF f.target > 0 THEN f.target ELSE 0
  BY DEF Absent
<1>2. CASE f.side = "LONG"
  BY <1>1, <1>2, PriceIs DEF ValidSignal, Sound
<1>3. CASE f.side = "SHORT"
  BY <1>1, <1>3, PriceIs DEF ValidSignal, Sound
<1>4. CASE f.side = "NEUTRAL"
  BY <1>4 DEF Sound
<1> QED
  BY <1>2, <1>3, <1>4 DEF Sides

LEMMA AnswerIsSound ==
  ASSUME NEW a \in Answers, NEW atr \in Nat, NEW cent \in Nat \ {0}, NEW call \in Called,
         NEW f, f = NormalizePrices([a EXCEPT !.target = ParseTarget(a)], Price, atr, cent),
         ValidSignal(f, Price)
  PROVE  [f EXCEPT !.model = call] \in Accepted /\ Sound([f EXCEPT !.model = call])
<1> DEFINE b == [a EXCEPT !.target = ParseTarget(a)]
           g == [f EXCEPT !.model = call]
           Typed(m) == [model : {m}, side : Sides, weight : Nat, entry : Int, stop : Int,
                         target : Int, text : Seq(Int)]
<1>1. a \in Typed(a.model)
  BY AnswersAssumption DEF AnswersAssumption
<1>2. ParseTarget(a) \in Int
  <2>1. a.target \in Int /\ a.text \in Seq(Int)
    BY <1>1
  <2>2. a.text # <<>> => a.text[Len(a.text)] \in Int
    BY <2>1
  <2> QED
    BY <2>1, <2>2 DEF ParseTarget
<1>3. b \in Typed(a.model) /\ b.model = a.model
  BY <1>1, <1>2
<1> HIDE DEF b
<1>4. f \in Typed(a.model) /\ (f.side # "NEUTRAL" => f.entry > 0)
  <2>1. CASE b.side = "NEUTRAL"
    <3>1. f = b
      BY <2>1 DEF NormalizePrices, b
    <3> QED
      BY <1>3, <2>1, <3>1
  <2>2. CASE b.side # "NEUTRAL"
    <3> DEFINE width == IF atr > 0 THEN atr ELSE (2 * Price) \div 100
               entry == AnchoredEntry(b, Price)
               stop == AnchoredStop(b, Price, width, entry, cent)
               target == AnchoredTarget(b, Price, entry, stop, cent)
    <3>1. f = [b EXCEPT !.entry = entry, !.stop = stop, !.target = target]
      BY <2>2, PriceIs DEF NormalizePrices, b
    <3>2. width \in Int
      BY PriceIs
    <3> HIDE DEF width
    <3>3. b.entry \in Int /\ b.stop \in Int /\ b.target \in Int
      BY <1>3
    <3>4. entry \in Int /\ entry > 0
      BY <3>3, EntryIs
    <3> HIDE DEF entry
    <3>5. stop \in Int
      BY <3>2, <3>3, <3>4, LevelsAre
    <3> HIDE DEF stop
    <3>6. target \in Int
      BY <3>2, <3>3, <3>4, <3>5, LevelsAre
    <3> HIDE DEF target
    <3> QED
      BY <1>3, <3>1, <3>4, <3>5, <3>6
  <2> QED
    BY <2>1, <2>2
<1>5. /\ f.side \in Sides /\ f.entry \in Int /\ f.stop \in Int /\ f.target \in Int
  BY <1>4
<1>6. Sound(f)
  BY <1>4, <1>5, AcceptedIsSound
<1>7. g \in Accepted /\ g.side = f.side /\ g.entry = f.entry /\ g.stop = f.stop
      /\ g.target = f.target /\ g.text = f.text
  BY <1>4 DEF Accepted
<1> HIDE DEF g
<1>8. Sound(g)
  BY <1>6, <1>7 DEF Sound
<1> QED
  BY <1>7, <1>8 DEF g

-----------------------------------------------------------------------------
(* The vote.                                                                *)

LEMMA SettingsAre ==
  ASSUME NEW regime \in DOMAIN Overrides
  PROVE  LET settings == LoadSettings(regime)
         IN  settings.threshold \in Int /\ settings.minModels \in Nat \ {0}
<1> DEFINE merged == [k \in DOMAIN Settings |->
                        IF k \in DOMAIN Overrides[regime] THEN Overrides[regime][k] ELSE Settings[k]]
<1>1. /\ DOMAIN Settings = {"threshold", "disagreement", "minModels", "minExpectedR", "maxDeviation"}
      /\ \A k \in DOMAIN Settings : Settings[k] \in Int
  BY SituationsAssumption DEF SituationsAssumption
<1>2. \A k \in DOMAIN Overrides[regime] : Overrides[regime][k] \in Int
  BY SituationsAssumption DEF SituationsAssumption
<1>3. /\ DOMAIN merged = DOMAIN Settings
      /\ merged["threshold"] \in Int /\ merged["minModels"] \in Int
  BY <1>1, <1>2
<1>4. LoadSettings(regime) = [merged EXCEPT !.minModels = IF @ < 1 THEN 1 ELSE @]
  BY DEF LoadSettings
<1> HIDE DEF merged
<1> QED
  BY <1>1, <1>3, <1>4

LEMMA CountedIs ==
  ASSUME NEW fs \in Seq(Accepted), NEW settings
  PROVE  LET kept == Counted(fs, Price, settings)
         IN  /\ kept \subseteq DOMAIN fs /\ IsFiniteSet(kept)
             /\ \A i \in kept : fs[i] \in Accepted /\ fs[i].weight \in Nat
             /\ \A side : OfSide(fs, kept, side) \subseteq kept
                          /\ IsFiniteSet(OfSide(fs, kept, side))
<1> DEFINE kept == Counted(fs, Price, settings)
<1>1. kept \subseteq DOMAIN fs
  BY DEF Counted
<1> HIDE DEF kept
<1>2. IsFiniteSet(DOMAIN fs) /\ \A i \in DOMAIN fs : fs[i] \in Accepted
  BY SeqDomain
<1>3. IsFiniteSet(kept) /\ \A i \in kept : fs[i] \in Accepted /\ fs[i].weight \in Nat
  BY <1>1, <1>2, FS_Subset DEF Accepted
<1>4. ASSUME NEW side
      PROVE  OfSide(fs, kept, side) \subseteq kept /\ IsFiniteSet(OfSide(fs, kept, side))
  <2>1. OfSide(fs, kept, side) \subseteq kept
    BY DEF OfSide
  <2> QED
    BY <1>3, <2>1, FS_Subset
<1> QED
  BY <1>1, <1>3, <1>4 DEF kept

\* The weights of the two sides and of all that count.
LEMMA VoteWeights ==
  ASSUME NEW fs \in Seq(Accepted), NEW settings
  PROVE  LET kept  == Counted(fs, Price, settings)
             long  == WeightOf(fs, OfSide(fs, kept, "LONG"))
             short == WeightOf(fs, OfSide(fs, kept, "SHORT"))
             all   == WeightOf(fs, kept)
         IN  long \in Nat /\ short \in Nat /\ all \in Nat /\ long + short <= all
<1> DEFINE kept == Counted(fs, Price, settings)
           A == OfSide(fs, kept, "LONG")
           B == OfSide(fs, kept, "SHORT")
<1>1. IsFiniteSet(kept) /\ (\A i \in kept : fs[i].weight \in Nat)
      /\ A \in SUBSET kept /\ B \in SUBSET kept
  BY CountedIs
<1>2. A \cap B = {}
  BY DEF OfSide
<1> HIDE DEF kept, A, B
<1>3. /\ WeightOf(fs, A) \in Nat /\ WeightOf(fs, B) \in Nat /\ WeightOf(fs, kept) \in Nat
      /\ WeightOf(fs, A) + WeightOf(fs, B) <= WeightOf(fs, kept)
  BY <1>1, <1>2, WeightsOfTwo
<1> QED
  BY <1>3 DEF kept, A, B

\* The models of finitely many votes can be counted.
LEMMA ModelsCounted ==
  ASSUME NEW fs, NEW votes, IsFiniteSet(votes)
  PROVE  Cardinality(ModelsOf(fs, votes)) \in Nat
<1>1. PICK n \in Nat : \E s : s \in Surjection(1 .. n, votes)
  BY FS_NatSurjection DEF ExistsSurjection
<1>2. PICK s : s \in Surjection(1 .. n, votes)
  BY <1>1
<1> DEFINE g == [j \in 1 .. n |-> fs[s[j]].model]
<1>3. g \in Surjection(1 .. n, ModelsOf(fs, votes))
  BY <1>2 DEF Surjection, ModelsOf
<1> HIDE DEF g
<1> QED
  BY <1>3, FS_NatSurjection, FS_CardinalityType DEF ExistsSurjection

LEMMA ConsensusIs ==
  ASSUME NEW fs \in Seq(Accepted), NEW settings, settings.threshold \in Int,
         settings.minModels \in Nat \ {0}, NEW fine
  PROVE  LET c       == CalculateConsensus(fs, Price, settings, fine)
             kept    == Counted(fs, Price, settings)
             winners == OfSide(fs, kept, c.signal)
         IN  /\ c.signal \in Sides /\ c # NoConsensus /\ c.included \subseteq DOMAIN fs
             /\ DOMAIN c.levels = {"entry", "stop", "target"}
             /\ c.signal # "NEUTRAL" =>
                  /\ winners # {}
                  /\ c.levels = LevelsOf(fs, winners, fine)
                  /\ WeightOf(fs, kept) # 0
                  /\ settings.threshold <= Share(fs, kept, c.signal)
                  /\ settings.minModels <= Cardinality(ModelsOf(fs, winners))
<1> DEFINE c == CalculateConsensus(fs, Price, settings, fine)
           kept == Counted(fs, Price, settings)
           lead == Leading(fs, kept)
           filter == FilterReason(fs, kept, lead, settings, fine)
           winners == OfSide(fs, kept, lead)
           share == Share(fs, kept, lead)
           priced == lead # "NEUTRAL" /\ filter \in {"none", "LOW_EXPECTED_R"}
<1>1. kept \subseteq DOMAIN fs
  BY DEF Counted
<1>2. lead \in Sides /\ (lead # "NEUTRAL" => WeightOf(fs, kept) # 0)
  BY DEF Leading, Sides
<1>3. lead # "NEUTRAL" /\ filter = "none" =>
        /\ ~(share < settings.threshold)
        /\ ~(Cardinality(ModelsOf(fs, winners)) < settings.minModels)
  BY DEF FilterReason
<1>4. c = [signal |-> IF filter = "none" THEN lead ELSE "NEUTRAL",
           confidence |-> IF filter \in {"none", "LOW_CONFIDENCE"} THEN share ELSE 0,
           filter |-> filter,
           included |-> IF filter = "none" THEN kept ELSE {},
           levels |-> IF priced THEN LevelsOf(fs, winners, fine)
                      ELSE [entry |-> Absent, stop |-> Absent, target |-> Absent]]
  BY DEF CalculateConsensus
<1>5. lead # "NEUTRAL" => share \in Int
  <2>1. \/ WeightOf(fs, winners) \in Nat /\ WeightOf(fs, kept) \in Nat
        \/ lead = "NEUTRAL"
    BY <1>2, VoteWeights DEF Sides
  <2> HIDE DEF kept, lead, winners
  <2> QED
    BY <1>2, <2>1, RoundedShare DEF share, Share, winners
<1>6. winners = {} => Cardinality(ModelsOf(fs, winners)) = 0
  BY FS_EmptySet DEF ModelsOf
<1>7. winners # {} => Cardinality(ModelsOf(fs, winners)) \in Int
  <2>1. IsFiniteSet(winners)
    BY CountedIs
  <2> HIDE DEF winners
  <2> QED
    BY <2>1, ModelsCounted
<1>8. DOMAIN LevelsOf(fs, winners, fine) = {"entry", "stop", "target"}
  BY DEF LevelsOf, MediansOf
<1> HIDE DEF kept, lead, filter, winners, share
<1>9. /\ c.signal = IF filter = "none" THEN lead ELSE "NEUTRAL"
      /\ c.included = IF filter = "none" THEN kept ELSE {}
      /\ c.levels = IF priced THEN LevelsOf(fs, winners, fine)
                    ELSE [entry |-> Absent, stop |-> Absent, target |-> Absent]
  BY <1>4
<1> HIDE DEF c
<1>10. c.signal \in Sides /\ c # NoConsensus /\ c.included \subseteq DOMAIN fs
  BY <1>1, <1>2, <1>9 DEF Sides, NoConsensus
<1>11. DOMAIN c.levels = {"entry", "stop", "target"}
  BY <1>8, <1>9
<1>12. ASSUME c.signal # "NEUTRAL"
       PROVE  /\ winners # {} /\ c.levels = LevelsOf(fs, winners, fine) /\ WeightOf(fs, kept) # 0
              /\ settings.threshold <= share /\ c.signal = lead
              /\ settings.minModels <= Cardinality(ModelsOf(fs, winners))
  <2>1. filter = "none" /\ lead # "NEUTRAL" /\ c.signal = lead
    BY <1>9, <1>12
  <2>2. settings.threshold <= share
    BY <1>3, <1>5, <2>1
  <2>3. ~(Cardinality(ModelsOf(fs, winners)) < settings.minModels)
    BY <1>3, <2>1
  <2>4. winners # {}
    BY <1>6, <2>3
  <2>5. settings.minModels <= Cardinality(ModelsOf(fs, winners))
    BY <1>7, <2>3, <2>4
  <2> QED
    BY <1>2, <1>9, <2>1, <2>2, <2>4, <2>5
<1> QED
  BY <1>10, <1>11, <1>12 DEF c, kept, winners, share

\* One model that asks for the trade is not enough where two have to agree.
LEMMA TwoModels ==
  ASSUME NEW fs, NEW votes, IsFiniteSet(votes), 2 <= Cardinality(ModelsOf(fs, votes))
  PROVE  \E i, j \in votes : fs[i].model # fs[j].model
<1> SUFFICES ASSUME \A i, j \in votes : fs[i].model = fs[j].model PROVE FALSE
  OBVIOUS
<1>1. CASE votes = {}
  <2>1. ModelsOf(fs, votes) = {}
    BY <1>1 DEF ModelsOf
  <2> QED
    BY <2>1, FS_EmptySet
<1>2. CASE votes # {}
  <2>1. PICK i \in votes : TRUE
    BY <1>2
  <2>2. ModelsOf(fs, votes) = {fs[i].model}
    BY <2>1 DEF ModelsOf
  <2>3. Cardinality(ModelsOf(fs, votes)) = 1
    BY <2>2, FS_Singleton
  <2> QED
    BY <2>3
<1> QED
  BY <1>1, <1>2

\* The medians of sound forecasts of one side are those of a sound trade; a gap
\* between every entry and its stop is one between the medians.
LEMMA LongMedians ==
  ASSUME NEW fs \in Seq(Accepted), \A i \in DOMAIN fs : Sound(fs[i]),
         NEW W \in SUBSET DOMAIN fs, W # {}, \A i \in W : fs[i].side = "LONG",
         NEW g \in Nat, \A i \in W : fs[i].entry - fs[i].stop > g
  PROVE  LET l == MediansOf(fs, W)
         IN  /\ l.entry \in Nat /\ l.stop \in Nat
             /\ l.stop + 2 * g < l.entry /\ l.entry <= 2 * Price
             /\ (\A i \in W : fs[i].text = <<>>) =>
                   /\ l.target \in Nat /\ l.entry + 2 * g < l.target
                   /\ (\A i \in W : fs[i].entry = Price) =>
                         2 * (l.target - l.entry) >= 3 * (l.entry - l.stop)
<1> DEFINE entry == [i \in W |-> fs[i].entry]
           stop == [i \in W |-> fs[i].stop]
           target == [i \in W |-> VoteTarget(fs[i])]
<1>1. IsFiniteSet(W) /\ \A i \in W : fs[i] \in Accepted /\ Sound(fs[i])
  BY SeqDomain, FS_Subset
<1>2. \A i \in W : /\ fs[i].entry \in Int /\ fs[i].stop \in Int /\ fs[i].target \in Int
                   /\ 0 < fs[i].stop /\ fs[i].stop + g < fs[i].entry /\ fs[i].entry <= Price
                   /\ fs[i].text = <<>> =>
                        /\ 0 < fs[i].target
                        /\ 2 * (fs[i].target - fs[i].entry) >= 3 * (fs[i].entry - fs[i].stop)
  <2> SUFFICES ASSUME NEW i \in W
               PROVE  LET x == fs[i].entry
                          y == fs[i].stop
                          z == fs[i].target
                      IN  /\ x \in Int /\ y \in Int /\ z \in Int
                          /\ 0 < y /\ x <= Price
                          /\ y + g < x
                          /\ fs[i].text = <<>> => 0 < z /\ 2 * (z - x) >= 3 * (x - y)
    OBVIOUS
  <2> DEFINE x == fs[i].entry
             y == fs[i].stop
             z == fs[i].target
             plain == fs[i].text = <<>>
  <2>1. fs[i] \in Accepted /\ Sound(fs[i]) /\ fs[i].side = "LONG"
    BY <1>1
  <2>2. x \in Int /\ y \in Int /\ z \in Int
    BY <2>1 DEF Accepted
  <2>3. 0 < y /\ x <= Price
    BY <2>1 DEF Sound
  <2>4. plain => 0 < z /\ 2 * (z - x) >= 3 * (x - y)
    BY <2>1 DEF Sound
  <2>5. x - y > g
    OBVIOUS
  <2> HIDE DEF x, y, z, plain
  <2>6. y + g < x
    BY <2>2, <2>5
  <2> QED
    BY <2>2, <2>3, <2>4, <2>6 DEF x, y, z, plain
<1>3. /\ DOMAIN entry = W /\ LevelsAt(entry, W) /\ DOMAIN stop = W /\ LevelsAt(stop, W)
      /\ \A i \in W : 0 < stop[i] /\ stop[i] + g < entry[i] /\ entry[i] > 0 /\ entry[i] <= Price
  <2>1. \A i \in W : fs[i].entry > 0
    BY <1>2
  <2> QED
    BY <1>1, <1>2, <2>1 DEF LevelsAt
<1>4. /\ MediansOf(fs, W).entry = MedianTwice(entry)
      /\ MediansOf(fs, W).stop = MedianTwice(stop)
      /\ MediansOf(fs, W).target = MedianTwice(target)
  BY DEF MediansOf
<1>5. /\ MedianTwice(stop) \in Nat /\ MedianTwice(entry) \in Nat
      /\ MedianTwice(stop) + 2 * g < MedianTwice(entry)
  <2> HIDE DEF entry, stop
  <2> QED
    BY <1>3, MedianBelow
<1>6. MedianTwice(entry) <= 2 * Price
  <2> HIDE DEF entry, stop
  <2> QED
    BY <1>3, PriceIs, MedianWithin
<1>7. ASSUME \A i \in W : fs[i].text = <<>>
      PROVE  /\ MedianTwice(target) \in Nat /\ MedianTwice(entry) + 2 * g < MedianTwice(target)
             /\ (\A i \in W : fs[i].entry = Price) =>
                   2 * (MedianTwice(target) - MedianTwice(entry))
                     >= 3 * (MedianTwice(entry) - MedianTwice(stop))
  <2>1. target = [i \in W |-> fs[i].target]
    BY <1>7 DEF VoteTarget
  <2>2. /\ DOMAIN target = W /\ LevelsAt(target, W)
        /\ \A i \in W : entry[i] + g < target[i] /\ target[i] > 0
    <3>1. ASSUME NEW i \in W PROVE target[i] \in Int /\ entry[i] + g < target[i] /\ target[i] > 0
      <4>1. /\ fs[i].entry \in Int /\ fs[i].stop \in Int /\ fs[i].target \in Int
            /\ fs[i].stop + g < fs[i].entry
            /\ 0 < fs[i].target
            /\ 2 * (fs[i].target - fs[i].entry) >= 3 * (fs[i].entry - fs[i].stop)
        BY <1>2, <1>7
      <4>2. target[i] = fs[i].target /\ entry[i] = fs[i].entry
        BY <2>1
      <4> DEFINE x == fs[i].entry
                 y == fs[i].stop
                 z == fs[i].target
      <4>3. x \in Int /\ y \in Int /\ z \in Int /\ y + g < x /\ 0 < z /\ 2 * (z - x) >= 3 * (x - y)
        BY <4>1
      <4>4. target[i] = z /\ entry[i] = x
        BY <4>2
      <4> HIDE DEF x, y, z, target, entry
      <4> QED
        BY <4>3, <4>4
    <3>2. DOMAIN target = W
      OBVIOUS
    <3> HIDE DEF target
    <3> QED
      BY <1>1, <3>1, <3>2 DEF LevelsAt
  <2>3. MedianTwice(target) \in Nat /\ MedianTwice(entry) + 2 * g < MedianTwice(target)
    <3> HIDE DEF entry, stop, target
    <3> QED
      BY <1>3, <2>2, MedianBelow
  <2>4. ASSUME \A i \in W : fs[i].entry = Price
        PROVE  2 * (MedianTwice(target) - MedianTwice(entry))
                 >= 3 * (MedianTwice(entry) - MedianTwice(stop))
    <3>1. \A i \in W : entry[i] = Price
      BY <2>4
    <3>2. \A i \in W : 2 * target[i] + 3 * stop[i] >= 5 * Price
      <4> SUFFICES ASSUME NEW i \in W PROVE 2 * target[i] + 3 * stop[i] >= 5 * Price
        OBVIOUS
      <4>1. /\ fs[i].entry \in Int /\ fs[i].stop \in Int /\ fs[i].target \in Int
            /\ 2 * (fs[i].target - fs[i].entry) >= 3 * (fs[i].entry - fs[i].stop)
            /\ fs[i].entry = Price
        BY <1>2, <1>7, <2>4
      <4>2. target[i] = fs[i].target /\ stop[i] = fs[i].stop
        BY <2>1
      <4> DEFINE x == fs[i].entry
                 y == fs[i].stop
                 z == fs[i].target
      <4>3. x \in Int /\ y \in Int /\ z \in Int /\ x = Price /\ 2 * (z - x) >= 3 * (x - y)
        BY <4>1
      <4>4. target[i] = z /\ stop[i] = y
        BY <4>2
      <4> HIDE DEF x, y, z, target, stop
      <4> QED
        BY <4>3, <4>4
    <3> HIDE DEF entry, stop, target
    <3>3. MedianTwice(entry) = 2 * Price
      <4>1. 2 * Price <= MedianTwice(entry)
        BY <1>3, <3>1, PriceIs, MedianWithin
      <4> QED
        BY <1>5, <1>6, <4>1, PriceIs
    <3>4. 2 * MedianTwice(target) + 3 * MedianTwice(stop) >= 2 * (5 * Price)
      <4>1. 5 * Price \in Int
        BY PriceIs
      <4> QED
        BY <1>3, <2>2, <3>2, <4>1, MedianCovers
    <3> DEFINE e0 == MedianTwice(entry)
               s0 == MedianTwice(stop)
               t0 == MedianTwice(target)
    <3>5. Price \in Int /\ e0 \in Int /\ s0 \in Int /\ t0 \in Int
      BY <1>5, <2>3, PriceIs
    <3>6. e0 = 2 * Price /\ 2 * t0 + 3 * s0 >= 2 * (5 * Price)
      BY <3>3, <3>4
    <3> HIDE DEF e0, s0, t0
    <3>7. 2 * (t0 - e0) >= 3 * (e0 - s0)
      BY ONLY <3>5, <3>6
    <3> QED
      BY <3>7 DEF e0, s0, t0
  <2> QED
    BY <2>3, <2>4
<1> HIDE DEF entry, stop, target
<1> QED
  BY <1>4, <1>5, <1>6, <1>7

LEMMA ShortMedians ==
  ASSUME NEW fs \in Seq(Accepted), \A i \in DOMAIN fs : Sound(fs[i]),
         NEW W \in SUBSET DOMAIN fs, W # {}, \A i \in W : fs[i].side = "SHORT",
         NEW g \in Nat, \A i \in W : fs[i].stop - fs[i].entry > g
  PROVE  LET l == MediansOf(fs, W)
         IN  /\ l.entry \in Nat /\ l.stop \in Nat
             /\ l.entry + 2 * g < l.stop /\ 2 * Price <= l.entry
             /\ (\A i \in W : fs[i].text = <<>>) =>
                   /\ l.target \in Nat /\ l.target + 2 * g < l.entry
                   /\ (\A i \in W : fs[i].entry = Price) =>
                         2 * (l.entry - l.target) >= 3 * (l.stop - l.entry)
<1> DEFINE entry == [i \in W |-> fs[i].entry]
           stop == [i \in W |-> fs[i].stop]
           target == [i \in W |-> VoteTarget(fs[i])]
<1>1. IsFiniteSet(W) /\ \A i \in W : fs[i] \in Accepted /\ Sound(fs[i])
  BY SeqDomain, FS_Subset
<1>2. \A i \in W : /\ fs[i].entry \in Int /\ fs[i].stop \in Int /\ fs[i].target \in Int
                   /\ 0 < fs[i].entry /\ fs[i].entry + g < fs[i].stop /\ Price <= fs[i].entry
                   /\ fs[i].text = <<>> =>
                        /\ 0 < fs[i].target
                        /\ 2 * (fs[i].entry - fs[i].target) >= 3 * (fs[i].stop - fs[i].entry)
  <2> SUFFICES ASSUME NEW i \in W
               PROVE  LET x == fs[i].entry
                          y == fs[i].stop
                          z == fs[i].target
                      IN  /\ x \in Int /\ y \in Int /\ z \in Int
                          /\ 0 < x /\ Price <= x
                          /\ x + g < y
                          /\ fs[i].text = <<>> => 0 < z /\ 2 * (x - z) >= 3 * (y - x)
    OBVIOUS
  <2> DEFINE x == fs[i].entry
             y == fs[i].stop
             z == fs[i].target
             plain == fs[i].text = <<>>
  <2>1. fs[i] \in Accepted /\ Sound(fs[i]) /\ fs[i].side = "SHORT"
    BY <1>1
  <2>2. x \in Int /\ y \in Int /\ z \in Int
    BY <2>1 DEF Accepted
  <2>3. 0 < x /\ Price <= x
    BY <2>1 DEF Sound
  <2>4. plain => 0 < z /\ 2 * (x - z) >= 3 * (y - x)
    BY <2>1 DEF Sound
  <2>5. y - x > g
    OBVIOUS
  <2> HIDE DEF x, y, z, plain
  <2>6. x + g < y
    BY <2>2, <2>5
  <2> QED
    BY <2>2, <2>3, <2>4, <2>6 DEF x, y, z, plain
<1>3. /\ DOMAIN entry = W /\ LevelsAt(entry, W) /\ DOMAIN stop = W /\ LevelsAt(stop, W)
      /\ \A i \in W : 0 < entry[i] /\ entry[i] + g < stop[i] /\ stop[i] > 0 /\ Price <= entry[i]
  <2>1. \A i \in W : fs[i].stop > 0
    BY <1>2
  <2> QED
    BY <1>1, <1>2, <2>1 DEF LevelsAt
<1>4. /\ MediansOf(fs, W).entry = MedianTwice(entry)
      /\ MediansOf(fs, W).stop = MedianTwice(stop)
      /\ MediansOf(fs, W).target = MedianTwice(target)
  BY DEF MediansOf
<1>5. /\ MedianTwice(stop) \in Nat /\ MedianTwice(entry) \in Nat
      /\ MedianTwice(entry) + 2 * g < MedianTwice(stop)
  <2> HIDE DEF entry, stop
  <2> QED
    BY <1>3, MedianBelow
<1>6. 2 * Price <= MedianTwice(entry)
  <2> HIDE DEF entry, stop
  <2> QED
    BY <1>3, PriceIs, MedianWithin
<1>7. ASSUME \A i \in W : fs[i].text = <<>>
      PROVE  /\ MedianTwice(target) \in Nat /\ MedianTwice(target) + 2 * g < MedianTwice(entry)
             /\ (\A i \in W : fs[i].entry = Price) =>
                   2 * (MedianTwice(entry) - MedianTwice(target))
                     >= 3 * (MedianTwice(stop) - MedianTwice(entry))
  <2>1. target = [i \in W |-> fs[i].target]
    BY <1>7 DEF VoteTarget
  <2>2. /\ DOMAIN target = W /\ LevelsAt(target, W)
        /\ \A i \in W : 0 < target[i] /\ target[i] + g < entry[i]
    <3>1. ASSUME NEW i \in W PROVE target[i] \in Int /\ 0 < target[i] /\ target[i] + g < entry[i]
      <4>1. /\ fs[i].entry \in Int /\ fs[i].stop \in Int /\ fs[i].target \in Int
            /\ fs[i].entry + g < fs[i].stop
            /\ 0 < fs[i].target
            /\ 2 * (fs[i].entry - fs[i].target) >= 3 * (fs[i].stop - fs[i].entry)
        BY <1>2, <1>7
      <4>2. target[i] = fs[i].target /\ entry[i] = fs[i].entry
        BY <2>1
      <4> DEFINE x == fs[i].entry
                 y == fs[i].stop
                 z == fs[i].target
      <4>3. x \in Int /\ y \in Int /\ z \in Int /\ x + g < y /\ 0 < z /\ 2 * (x - z) >= 3 * (y - x)
        BY <4>1
      <4>4. target[i] = z /\ entry[i] = x
        BY <4>2
      <4> HIDE DEF x, y, z, target, entry
      <4> QED
        BY <4>3, <4>4
    <3>2. DOMAIN target = W
      OBVIOUS
    <3> HIDE DEF target
    <3> QED
      BY <1>1, <3>1, <3>2 DEF LevelsAt
  <2>3. MedianTwice(target) \in Nat /\ MedianTwice(target) + 2 * g < MedianTwice(entry)
    <3> HIDE DEF entry, stop, target
    <3> QED
      BY <1>3, <2>2, MedianBelow
  <2>4. ASSUME \A i \in W : fs[i].entry = Price
        PROVE  2 * (MedianTwice(entry) - MedianTwice(target))
                 >= 3 * (MedianTwice(stop) - MedianTwice(entry))
    <3>1. \A i \in W : entry[i] = Price
      BY <2>4
    <3>2. \A i \in W : 2 * target[i] + 3 * stop[i] <= 5 * Price
      <4> SUFFICES ASSUME NEW i \in W PROVE 2 * target[i] + 3 * stop[i] <= 5 * Price
        OBVIOUS
      <4>1. /\ fs[i].entry \in Int /\ fs[i].stop \in Int /\ fs[i].target \in Int
            /\ 2 * (fs[i].entry - fs[i].target) >= 3 * (fs[i].stop - fs[i].entry)
            /\ fs[i].entry = Price
        BY <1>2, <1>7, <2>4
      <4>2. target[i] = fs[i].target /\ stop[i] = fs[i].stop
        BY <2>1
      <4> DEFINE x == fs[i].entry
                 y == fs[i].stop
                 z == fs[i].target
      <4>3. x \in Int /\ y \in Int /\ z \in Int /\ x = Price /\ 2 * (x - z) >= 3 * (y - x)
        BY <4>1
      <4>4. target[i] = z /\ stop[i] = y
        BY <4>2
      <4> HIDE DEF x, y, z, target, stop
      <4> QED
        BY <4>3, <4>4
    <3> HIDE DEF entry, stop, target
    <3>3. MedianTwice(entry) = 2 * Price
      <4>1. MedianTwice(entry) <= 2 * Price
        <5>1. Price \in Int /\ \A i \in DOMAIN entry : entry[i] > 0 /\ entry[i] <= Price
          BY <1>3, <3>1, PriceIs
        <5>2. LevelsAt(entry, DOMAIN entry) /\ DOMAIN entry # {}
          BY <1>3
        <5> QED
          BY ONLY <5>1, <5>2, MedianWithin
      <4> DEFINE m == MedianTwice(entry)
      <4>2. m \in Nat /\ 2 * Price <= m /\ m <= 2 * Price
        BY <1>5, <1>6, <4>1
      <4> HIDE DEF m
      <4>3. m = 2 * Price
        BY <4>2, PriceIs
      <4> QED
        BY <4>3 DEF m
    <3>4. 2 * MedianTwice(target) + 3 * MedianTwice(stop) <= 2 * (5 * Price)
      <4>1. 5 * Price \in Int
        BY PriceIs
      <4> QED
        BY <1>3, <2>2, <3>2, <4>1, MedianCovers
    <3> DEFINE e0 == MedianTwice(entry)
               s0 == MedianTwice(stop)
               t0 == MedianTwice(target)
    <3>5. Price \in Int /\ e0 \in Int /\ s0 \in Int /\ t0 \in Int
      BY <1>5, <2>3, PriceIs
    <3>6. e0 = 2 * Price /\ 2 * t0 + 3 * s0 <= 2 * (5 * Price)
      BY <3>3, <3>4
    <3> HIDE DEF e0, s0, t0
    <3>7. 2 * (e0 - t0) >= 3 * (s0 - e0)
      BY ONLY <3>5, <3>6
    <3> QED
      BY <3>7 DEF e0, s0, t0
  <2> QED
    BY <2>3, <2>4
<1> HIDE DEF entry, stop, target
<1> QED
  BY <1>4, <1>5, <1>6, <1>7

\* The level of a vote is its rounded median.
LEMMA LevelIs ==
  ASSUME NEW fs, NEW W, NEW fine \in Nat \ {0}
  PROVE  LET l == LevelsOf(fs, W, fine)
             x == MediansOf(fs, W)
         IN  /\ l.entry = RoundTo(x.entry, fine) /\ l.stop = RoundTo(x.stop, fine)
             /\ l.target = RoundTo(x.target, fine)
             /\ DOMAIN l = {"entry", "stop", "target"}
BY DEF LevelsOf, MediansOf

LEMMA RoundedPair ==
  ASSUME NEW x \in Nat, NEW y \in Nat, x < y, NEW fine \in Nat \ {0}
  PROVE  /\ RoundTo(x, fine) \in Nat /\ RoundTo(y, fine) \in Nat
         /\ RoundTo(x, fine) <= RoundTo(y, fine)
         /\ RoundTo(x, fine) - x <= fine \div 2 /\ x - RoundTo(x, fine) <= fine \div 2
         /\ RoundTo(y, fine) - y <= fine \div 2 /\ y - RoundTo(y, fine) <= fine \div 2
<1>1. RoundTo(x, fine) <= RoundTo(y, fine) /\ RoundTo(x, fine) \in Nat
  BY RoundOrdered
<1>2. RoundTo(y, fine) \in Nat
  <2>1. y <= y
    OBVIOUS
  <2> QED
    BY <2>1, RoundOrdered
<1>3. RoundTo(x, fine) - x <= fine \div 2 /\ x - RoundTo(x, fine) <= fine \div 2
  BY RoundIs
<1>4. RoundTo(y, fine) - y <= fine \div 2 /\ y - RoundTo(y, fine) <= fine \div 2
  BY RoundIs
<1> QED
  BY <1>1, <1>2, <1>3, <1>4

\* Rounded, they are at most by half a step off, and in the same order.
LEMMA LongTrade ==
  ASSUME NEW fs \in Seq(Accepted), \A i \in DOMAIN fs : Sound(fs[i]),
         NEW W \in SUBSET DOMAIN fs, W # {}, \A i \in W : fs[i].side = "LONG",
         NEW fine \in Nat \ {0}, NEW slack, slack = fine \div 2
  PROVE  LET l == LevelsOf(fs, W, fine)
             apart == \A i \in W : fs[i].entry - fs[i].stop > slack
         IN  /\ l.entry \in Nat /\ l.stop \in Nat
             /\ l.stop <= l.entry /\ l.entry <= 2 * Price + slack
             /\ apart => l.stop < l.entry
             /\ (\A i \in W : fs[i].text = <<>>) =>
                   /\ l.target \in Nat /\ l.entry <= l.target
                   /\ apart => l.entry < l.target
                   /\ (\A i \in W : fs[i].entry = Price) =>
                         2 * (l.target - l.entry) + 10 * slack >= 3 * (l.entry - l.stop)
<1> DEFINE l == LevelsOf(fs, W, fine)
           x == MediansOf(fs, W)
           apart == \A i \in W : fs[i].entry - fs[i].stop > slack
           plain == \A i \in W : fs[i].text = <<>>
           market0 == \A i \in W : fs[i].entry = Price
           e == x.entry
           p == x.stop
           t == x.target
           e2 == RoundTo(e, fine)
           p2 == RoundTo(p, fine)
           t2 == RoundTo(t, fine)
<1>1. l.entry = e2 /\ l.stop = p2 /\ l.target = t2
  BY LevelIs
<1>2. slack \in Nat
  OBVIOUS
<1>3. /\ e \in Nat /\ p \in Nat /\ p < e /\ e <= 2 * Price
      /\ plain => /\ t \in Nat /\ e < t
                  /\ market0 => 2 * (t - e) >= 3 * (e - p)
  <2>1. PICK z \in Nat : z = 0
    OBVIOUS
  <2>2. \A i \in W : fs[i].entry - fs[i].stop > z
    <3> SUFFICES ASSUME NEW i \in W PROVE fs[i].entry - fs[i].stop > z
      OBVIOUS
    <3>1. fs[i] \in Accepted /\ Sound(fs[i]) /\ fs[i].side = "LONG"
      BY SeqDomain
    <3>2. fs[i].entry \in Int /\ fs[i].stop \in Int /\ fs[i].stop < fs[i].entry
      BY <3>1 DEF Accepted, Sound
    <3> QED
      BY <2>1, <3>2
  <2>3. /\ e \in Nat /\ p \in Nat /\ p + 2 * z < e /\ e <= 2 * Price
        /\ plain => /\ t \in Nat /\ e + 2 * z < t
                    /\ market0 => 2 * (t - e) >= 3 * (e - p)
    BY <2>1, <2>2, LongMedians
  <2> HIDE DEF e, p, t, plain, market0
  <2> QED
    BY <2>1, <2>3
<1>4. apart => p + 2 * slack < e /\ (plain => e + 2 * slack < t)
  BY <1>2, LongMedians
<1> HIDE DEF e, p, t, plain, market0, apart, l
<1>5. /\ e2 \in Nat /\ p2 \in Nat /\ p2 <= e2
      /\ e2 - e <= slack /\ e - e2 <= slack /\ p2 - p <= slack /\ p - p2 <= slack
  BY <1>3, RoundedPair
<1>6. plain => t2 \in Nat /\ e2 <= t2 /\ t2 - t <= slack /\ t - t2 <= slack
  BY <1>3, RoundedPair
<1> HIDE DEF e2, p2, t2
<1>7. e2 <= 2 * Price + slack
  BY <1>2, <1>3, <1>5, PriceIs
<1>8. apart => p2 < e2
  BY <1>2, <1>3, <1>4, <1>5
<1>9. apart /\ plain => e2 < t2
  BY <1>2, <1>3, <1>4, <1>5, <1>6
<1>10. plain /\ market0 => 2 * (t2 - e2) + 10 * slack >= 3 * (e2 - p2)
  BY <1>2, <1>3, <1>5, <1>6
<1>11. /\ e2 \in Nat /\ p2 \in Nat /\ p2 <= e2 /\ e2 <= 2 * Price + slack
       /\ apart => p2 < e2
       /\ plain => /\ t2 \in Nat /\ e2 <= t2
                   /\ apart => e2 < t2
                   /\ market0 => 2 * (t2 - e2) + 10 * slack >= 3 * (e2 - p2)
  BY <1>5, <1>6, <1>7, <1>8, <1>9, <1>10
<1> QED
  BY <1>1, <1>11, Zenon DEF l, apart, plain, market0

LEMMA ShortTrade ==
  ASSUME NEW fs \in Seq(Accepted), \A i \in DOMAIN fs : Sound(fs[i]),
         NEW W \in SUBSET DOMAIN fs, W # {}, \A i \in W : fs[i].side = "SHORT",
         NEW fine \in Nat \ {0}, NEW slack, slack = fine \div 2
  PROVE  LET l == LevelsOf(fs, W, fine)
             apart == \A i \in W : fs[i].stop - fs[i].entry > slack
         IN  /\ l.entry \in Nat /\ l.stop \in Nat
             /\ l.entry <= l.stop /\ l.entry >= 2 * Price - slack
             /\ apart => l.entry < l.stop
             /\ (\A i \in W : fs[i].text = <<>>) =>
                   /\ l.target \in Nat /\ l.target <= l.entry
                   /\ apart => l.target < l.entry
                   /\ (\A i \in W : fs[i].entry = Price) =>
                         2 * (l.entry - l.target) + 10 * slack >= 3 * (l.stop - l.entry)
<1> DEFINE l == LevelsOf(fs, W, fine)
           x == MediansOf(fs, W)
           apart == \A i \in W : fs[i].stop - fs[i].entry > slack
           plain == \A i \in W : fs[i].text = <<>>
           market0 == \A i \in W : fs[i].entry = Price
           e == x.entry
           p == x.stop
           t == x.target
           e2 == RoundTo(e, fine)
           p2 == RoundTo(p, fine)
           t2 == RoundTo(t, fine)
<1>1. l.entry = e2 /\ l.stop = p2 /\ l.target = t2
  BY LevelIs
<1>2. slack \in Nat
  OBVIOUS
<1>3. /\ e \in Nat /\ p \in Nat /\ e < p /\ 2 * Price <= e
      /\ plain => /\ t \in Nat /\ t < e
                  /\ market0 => 2 * (e - t) >= 3 * (p - e)
  <2>1. PICK z \in Nat : z = 0
    OBVIOUS
  <2>2. \A i \in W : fs[i].stop - fs[i].entry > z
    <3> SUFFICES ASSUME NEW i \in W PROVE fs[i].stop - fs[i].entry > z
      OBVIOUS
    <3>1. fs[i] \in Accepted /\ Sound(fs[i]) /\ fs[i].side = "SHORT"
      BY SeqDomain
    <3>2. fs[i].entry \in Int /\ fs[i].stop \in Int /\ fs[i].entry < fs[i].stop
      BY <3>1 DEF Accepted, Sound
    <3> QED
      BY <2>1, <3>2
  <2>3. /\ e \in Nat /\ p \in Nat /\ e + 2 * z < p /\ 2 * Price <= e
        /\ plain => /\ t \in Nat /\ t + 2 * z < e
                    /\ market0 => 2 * (e - t) >= 3 * (p - e)
    BY <2>1, <2>2, ShortMedians
  <2> HIDE DEF e, p, t, plain, market0
  <2> QED
    BY <2>1, <2>3
<1>4. apart => e + 2 * slack < p /\ (plain => t + 2 * slack < e)
  BY <1>2, ShortMedians
<1> HIDE DEF e, p, t, plain, market0, apart, l
<1>5. /\ e2 \in Nat /\ p2 \in Nat /\ e2 <= p2
      /\ e2 - e <= slack /\ e - e2 <= slack /\ p2 - p <= slack /\ p - p2 <= slack
  BY <1>3, RoundedPair
<1>6. plain => t2 \in Nat /\ t2 <= e2 /\ t2 - t <= slack /\ t - t2 <= slack
  BY <1>3, RoundedPair
<1> HIDE DEF e2, p2, t2
<1>7. e2 >= 2 * Price - slack
  BY <1>2, <1>3, <1>5, PriceIs
<1>8. apart => e2 < p2
  BY <1>2, <1>3, <1>4, <1>5
<1>9. apart /\ plain => t2 < e2
  BY <1>2, <1>3, <1>4, <1>5, <1>6
<1>10. plain /\ market0 => 2 * (e2 - t2) + 10 * slack >= 3 * (p2 - e2)
  BY <1>2, <1>3, <1>5, <1>6
<1>11. /\ e2 \in Nat /\ p2 \in Nat /\ e2 <= p2 /\ e2 >= 2 * Price - slack
       /\ apart => e2 < p2
       /\ plain => /\ t2 \in Nat /\ t2 <= e2
                   /\ apart => t2 < e2
                   /\ market0 => 2 * (e2 - t2) + 10 * slack >= 3 * (p2 - e2)
  BY <1>5, <1>6, <1>7, <1>8, <1>9, <1>10
<1> QED
  BY <1>1, <1>11, Zenon DEF l, apart, plain, market0

-----------------------------------------------------------------------------
(* The vote on reflected forecasts.                                         *)

\* Every level that is there has a reflection at the market price, and both are
\* further from 0 than the slack.
Reflectable(f, slack) ==
  f.side # "NEUTRAL" =>
      \A x \in {f.entry, f.stop, VoteTarget(f)} :
          x = Absent \/ x \in slack + 1 .. 2 * Price - slack - 1

LEMMA ReflectKeeps ==
  ASSUME NEW x \in Int, NEW y \in Int, NEW axis \in Int, 0 <= x, x < 2 * axis \/ x = 0,
         0 <= y, y < 2 * axis \/ y = 0
  PROVE  /\ Reflect(x, axis) = Absent <=> x = Absent
         /\ Reflect(x, axis) > 0 <=> x > 0
         /\ x # Absent /\ y # Absent =>
              Distance(Reflect(x, axis), Reflect(y, axis)) = Distance(x, y)
         /\ x # Absent => Distance(Reflect(x, axis), axis) = Distance(x, axis)
BY DEF Reflect, Absent, Distance

\* The target a vote counts with.
LEMMA TargetIs ==
  ASSUME NEW f \in Accepted
  PROVE  VoteTarget(f) \in Int /\ (f.text # <<>> => VoteTarget(f) = Absent \/ VoteTarget(f) > 0)
<1> DEFINE positive == {i \in DOMAIN f.text : f.text[i] > 0}
<1>1. f.target \in Int /\ f.text \in Seq(Int)
  BY DEF Accepted
<1>2. \A i \in DOMAIN f.text : i \in Nat /\ f.text[i] \in Int
  BY <1>1
<1>3. positive \in SUBSET Nat
  BY <1>2
<1>4. CASE f.text = <<>>
  BY <1>1, <1>4 DEF VoteTarget
<1>5. CASE f.text # <<>> /\ positive = {}
  BY <1>5 DEF VoteTarget, Absent
<1>6. CASE f.text # <<>> /\ positive # {}
  <2>1. VoteTarget(f) = f.text[Min(positive)]
    BY <1>6 DEF VoteTarget
  <2>2. Min(positive) \in positive
    <3> HIDE DEF positive
    <3> QED
      BY <1>3, <1>6, MinIsLeast
  <2>3. f.text[Min(positive)] \in Int /\ f.text[Min(positive)] > 0
    <3> DEFINE least == Min(positive)
    <3>1. least \in positive
      BY <2>2
    <3> HIDE DEF least
    <3>2. f.text[least] \in Int /\ f.text[least] > 0
      BY <1>2, <3>1
    <3> QED
      BY <3>2 DEF least
  <2> QED
    BY <2>1, <2>3
<1> QED
  BY <1>4, <1>5, <1>6

LEMMA MirrorIs ==
  ASSUME NEW f \in Accepted
  PROVE  /\ Mirror(f).side = OtherSide(f.side) /\ Mirror(f).model = f.model
         /\ Mirror(f).weight = f.weight
         /\ Mirror(f).entry = Reflect(f.entry, Price) /\ Mirror(f).stop = Reflect(f.stop, Price)
         /\ VoteTarget(f) < 2 * Price => VoteTarget(Mirror(f)) = Reflect(VoteTarget(f), Price)
<1> DEFINE r == Reflect(VoteTarget(f), Price)
           text == IF f.text = <<>> THEN <<>> ELSE <<r>>
<1>1. /\ Mirror(f).side = OtherSide(f.side) /\ Mirror(f).model = f.model
      /\ Mirror(f).weight = f.weight
      /\ Mirror(f).entry = Reflect(f.entry, Price) /\ Mirror(f).stop = Reflect(f.stop, Price)
      /\ Mirror(f).target = Reflect(f.target, Price)
      /\ Mirror(f).text = text
  BY DEF Mirror, Accepted
<1>2. CASE f.text = <<>>
  BY <1>1, <1>2 DEF VoteTarget
<1>3. CASE f.text # <<>>
  <2> SUFFICES ASSUME VoteTarget(f) < 2 * Price PROVE VoteTarget(Mirror(f)) = r
    BY <1>1
  <2> DEFINE positive == {i \in DOMAIN <<r>> : <<r>>[i] > 0}
  <2>1. VoteTarget(Mirror(f)) = IF positive = {} THEN Absent ELSE <<r>>[Min(positive)]
    <3>1. Mirror(f).text = <<r>> /\ <<r>> # <<>>
      BY <1>1, <1>3
    <3> HIDE DEF r
    <3> QED
      BY <3>1 DEF VoteTarget
  <2>2. r \in Int /\ (r = 0 \/ r > 0)
    <3> DEFINE x == VoteTarget(f)
    <3>1. x \in Int /\ (x = 0 \/ x > 0) /\ x < 2 * Price
      BY <1>3, TargetIs DEF Absent
    <3>2. r = IF x = 0 THEN 0 ELSE 2 * Price - x
      BY DEF Reflect, Absent
    <3> HIDE DEF x, r
    <3> QED
      BY <3>1, <3>2, PriceIs
  <2> HIDE DEF r
  <2>3. CASE r = 0
    <3>1. positive = {}
      BY <2>3
    <3> QED
      BY <2>1, <2>3, <3>1 DEF Absent
  <2>4. CASE r > 0
    <3>1. positive = {1}
      BY <2>4
    <3> HIDE DEF positive
    <3>2. Min(positive) = 1 /\ positive # {}
      BY <3>1, MinIsLeast
    <3> QED
      BY <2>1, <3>2
  <2> QED
    BY <2>2, <2>3, <2>4
<1> QED
  BY <1>1, <1>2, <1>3

\* A level that is there and one that is missing, as the reflection needs them.
LEMMA LevelsReflectable ==
  ASSUME NEW f \in Accepted, NEW slack \in Nat, Reflectable(f, slack), f.side # "NEUTRAL"
  PROVE  \A x \in {f.entry, f.stop, VoteTarget(f)} :
            /\ x \in Int /\ 0 <= x /\ x < 2 * Price
            /\ x = 0 \/ (slack < x /\ x < 2 * Price - slack)
<1>1. f.entry \in Int /\ f.stop \in Int /\ VoteTarget(f) \in Int
  BY TargetIs DEF Accepted
<1>2. ASSUME NEW x \in {f.entry, f.stop, VoteTarget(f)}
      PROVE  /\ x \in Int /\ 0 <= x /\ x < 2 * Price
             /\ x = 0 \/ (slack < x /\ x < 2 * Price - slack)
  <2>1. x \in Int /\ (x = 0 \/ x \in slack + 1 .. 2 * Price - slack - 1)
    BY <1>1, <1>2 DEF Reflectable, Absent
  <2> QED
    BY <2>1, PriceIs
<1> QED
  BY <1>2

LEMMA MirrorAnomalous ==
  ASSUME NEW f \in Accepted, NEW slack \in Nat, Reflectable(f, slack), NEW settings
  PROVE  Anomalous(Mirror(f), Price, settings) <=> Anomalous(f, Price, settings)
<1>1. f.side \in Sides
  BY DEF Accepted
<1>2. CASE f.side = "NEUTRAL"
  <2>1. Mirror(f).side = "NEUTRAL"
    BY <1>2, MirrorIs DEF OtherSide
  <2> QED
    BY <1>2, <2>1 DEF Anomalous
<1>3. CASE f.side # "NEUTRAL"
  <2>1. Mirror(f).side # "NEUTRAL"
    BY <1>1, <1>3, MirrorIs DEF OtherSide, Sides
  <2> DEFINE x == VoteTarget(f)
  <2>2. x \in Int /\ 0 <= x /\ x < 2 * Price
    BY <1>3, LevelsReflectable
  <2>3. VoteTarget(Mirror(f)) = Reflect(x, Price)
    BY <2>2, MirrorIs
  <2>4. /\ Reflect(x, Price) > 0 <=> x > 0
        /\ x # Absent => Distance(Reflect(x, Price), Price) = Distance(x, Price)
    <3> HIDE DEF x
    <3> QED
      BY <2>2, PriceIs, ReflectKeeps
  <2>5. x > 0 => x # Absent
    BY <2>2 DEF Absent
  <2> QED
    BY <1>3, <2>1, <2>3, <2>4, <2>5 DEF Anomalous, FarFrom
<1> QED
  BY <1>2, <1>3

\* The same forecasts count, with the same weights and models, on the other side.
LEMMA MirrorVotes ==
  ASSUME NEW fs \in Seq(Accepted), NEW slack \in Nat,
         \A i \in DOMAIN fs : Reflectable(fs[i], slack), NEW settings
  PROVE  LET gs == Reflected(fs)
         IN  /\ Counted(gs, Price, settings) = Counted(fs, Price, settings)
             /\ \A votes \in SUBSET DOMAIN fs :
                  /\ WeightOf(gs, votes) = WeightOf(fs, votes)
                  /\ ModelsOf(gs, votes) = ModelsOf(fs, votes)
                  /\ OfSide(gs, votes, "LONG") = OfSide(fs, votes, "SHORT")
                  /\ OfSide(gs, votes, "SHORT") = OfSide(fs, votes, "LONG")
<1> DEFINE gs == Reflected(fs)
<1>1. \A i \in DOMAIN fs : fs[i] \in Accepted /\ fs[i].side \in Sides
  <2>1. \A i \in DOMAIN fs : fs[i] \in Accepted
    BY SeqDomain
  <2> QED
    BY <2>1 DEF Accepted
<1>2. DOMAIN gs = DOMAIN fs /\ \A i \in DOMAIN fs : gs[i] = Mirror(fs[i])
  BY DEF Reflected
<1> HIDE DEF gs
<1>3. \A i \in DOMAIN fs : /\ Anomalous(gs[i], Price, settings) <=> Anomalous(fs[i], Price, settings)
                           /\ gs[i].side = OtherSide(fs[i].side)
                           /\ gs[i].weight = fs[i].weight /\ gs[i].model = fs[i].model
  BY <1>1, <1>2, MirrorIs, MirrorAnomalous
<1>4. Counted(gs, Price, settings) = Counted(fs, Price, settings)
  BY <1>2, <1>3 DEF Counted
<1>5. ASSUME NEW votes \in SUBSET DOMAIN fs
      PROVE  /\ WeightOf(gs, votes) = WeightOf(fs, votes)
             /\ ModelsOf(gs, votes) = ModelsOf(fs, votes)
             /\ OfSide(gs, votes, "LONG") = OfSide(fs, votes, "SHORT")
             /\ OfSide(gs, votes, "SHORT") = OfSide(fs, votes, "LONG")
  <2>1. [i \in votes |-> gs[i].weight] = [i \in votes |-> fs[i].weight]
    BY <1>3
  <2>2. WeightOf(gs, votes) = WeightOf(fs, votes)
    BY <2>1, Zenon DEF WeightOf
  <2>3. ModelsOf(gs, votes) = ModelsOf(fs, votes)
    BY <1>3 DEF ModelsOf
  <2>4. \A i \in votes : /\ gs[i].side = "LONG" <=> fs[i].side = "SHORT"
                         /\ gs[i].side = "SHORT" <=> fs[i].side = "LONG"
    BY <1>1, <1>3 DEF OtherSide, Sides
  <2> QED
    BY <2>2, <2>3, <2>4 DEF OfSide
<1> QED
  BY <1>4, <1>5 DEF gs

\* A rounded median that the reflection at an even number of steps leaves.
LEMMA RoundedReflected ==
  ASSUME NEW fine \in Nat \ {0}, NEW slack, slack = fine \div 2, (2 * Price) % fine = 0,
         NEW x \in Nat, x = 0 \/ (2 * slack < x /\ x < 4 * Price - 2 * slack),
         NEW y, y = Reflect(x, 2 * Price)
  PROVE  /\ RoundTo(x, fine) \in Nat
         /\ RoundTo(x, fine) < 4 * Price \/ RoundTo(x, fine) = 0
         /\ RoundTo(y, fine) = Reflect(RoundTo(x, fine), 2 * Price)
<1> DEFINE axis == 2 * Price
<1>1. axis \in Int /\ axis % fine = 0 /\ 4 * Price = 2 * axis /\ slack \in Nat
  BY PriceIs
<1>2. y = IF x = 0 THEN 0 ELSE 2 * axis - x
  BY DEF Reflect, Absent
<1>3. CASE x = 0
  <2>1. RoundTo(x, fine) = 0
    BY <1>3, RoundOfZero
  <2> QED
    BY <1>2, <1>3, <2>1 DEF Reflect, Absent
<1>4. CASE x # 0
  <2> DEFINE r == RoundTo(x, fine)
  <2> HIDE DEF axis
  <2>0. x \in Int /\ axis \in Int /\ axis % fine = 0
    BY <1>1
  <2>1. RoundTo(2 * axis - x, fine) = 2 * axis - r
    BY ONLY <2>0, fine \in Nat \ {0}, RoundReflected
  <2>2. r \in Nat /\ r - x <= slack /\ x - r <= slack
    <3>1. 0 < x
      BY <1>4
    <3>2. PICK z \in Nat : z = 0
      OBVIOUS
    <3> QED
      BY <3>1, <3>2, RoundedPair
  <2> HIDE DEF r
  <2>3. r > 0 /\ r < 2 * axis
    BY <1>1, <1>4, <2>2
  <2>4. Reflect(r, axis) = 2 * axis - r
    BY <2>3 DEF Reflect, Absent
  <2> QED
    BY <1>1, <1>2, <1>4, <2>1, <2>2, <2>3, <2>4 DEF r, axis
<1> QED
  BY <1>3, <1>4

\* The levels of a side are the reflected levels of the other.
LEMMA MirrorLevels ==
  ASSUME NEW fs \in Seq(Accepted), NEW fine \in Nat \ {0}, NEW slack, slack = fine \div 2,
         (2 * Price) % fine = 0, \A i \in DOMAIN fs : Reflectable(fs[i], slack),
         NEW W \in SUBSET DOMAIN fs, \A i \in W : fs[i].side # "NEUTRAL"
  PROVE  LET l == LevelsOf(fs, W, fine)
             m == LevelsOf(Reflected(fs), W, fine)
         IN  /\ l.entry \in Nat /\ l.stop \in Nat /\ l.target \in Nat
             /\ l.entry < 4 * Price \/ l.entry = 0
             /\ l.stop < 4 * Price \/ l.stop = 0
             /\ l.target < 4 * Price \/ l.target = 0
             /\ m = [entry  |-> Reflect(l.entry, 2 * Price), stop |-> Reflect(l.stop, 2 * Price),
                     target |-> Reflect(l.target, 2 * Price)]
<1> DEFINE gs == Reflected(fs)
           entry == [i \in W |-> fs[i].entry]
           stop == [i \in W |-> fs[i].stop]
           target == [i \in W |-> VoteTarget(fs[i])]
           entry2 == [i \in W |-> gs[i].entry]
           stop2 == [i \in W |-> gs[i].stop]
           target2 == [i \in W |-> VoteTarget(gs[i])]
<1>1. IsFiniteSet(W) /\ \A i \in W : fs[i] \in Accepted /\ Reflectable(fs[i], slack)
  BY SeqDomain, FS_Subset
<1>2. \A i \in W : gs[i] = Mirror(fs[i])
  BY DEF Reflected
<1>3. MediansOf(fs, W) = [entry |-> MedianTwice(entry), stop |-> MedianTwice(stop),
                          target |-> MedianTwice(target)]
  BY DEF MediansOf
<1>4. MediansOf(gs, W) = [entry |-> MedianTwice(entry2), stop |-> MedianTwice(stop2),
                          target |-> MedianTwice(target2)]
  BY DEF MediansOf
<1> HIDE DEF gs
<1>12. slack \in Nat
  OBVIOUS
<1>6. \A i \in W : \A x \in {fs[i].entry, fs[i].stop, VoteTarget(fs[i])} :
         /\ x \in Int /\ 0 <= x /\ x < 2 * Price
         /\ x = 0 \/ (slack < x /\ x < 2 * Price - slack)
  BY <1>1, <1>12, LevelsReflectable
<1>5. \A i \in W : /\ gs[i].entry = Reflect(fs[i].entry, Price)
                   /\ gs[i].stop = Reflect(fs[i].stop, Price)
                   /\ VoteTarget(gs[i]) = Reflect(VoteTarget(fs[i]), Price)
  BY <1>1, <1>2, <1>6, MirrorIs
<1>7. /\ DOMAIN entry = W /\ DOMAIN stop = W /\ DOMAIN target = W
      /\ DOMAIN entry2 = W /\ DOMAIN stop2 = W /\ DOMAIN target2 = W
      /\ \A i \in W : /\ entry[i] \in Int
                      /\ entry[i] = 0 \/ (slack < entry[i] /\ entry[i] < 2 * Price - slack)
                      /\ entry2[i] = Reflect(entry[i], Price)
                      /\ stop[i] \in Int
                      /\ stop[i] = 0 \/ (slack < stop[i] /\ stop[i] < 2 * Price - slack)
                      /\ stop2[i] = Reflect(stop[i], Price)
                      /\ target[i] \in Int
                      /\ target[i] = 0 \/ (slack < target[i] /\ target[i] < 2 * Price - slack)
                      /\ target2[i] = Reflect(target[i], Price)
  BY <1>5, <1>6
<1> HIDE DEF entry, stop, target, entry2, stop2, target2
<1>8. Price \in Int
  BY PriceIs
<1>13. ASSUME NEW x, NEW y, DOMAIN x = W, DOMAIN y = W,
              \A i \in W : /\ x[i] \in Int
                           /\ x[i] = 0 \/ (slack < x[i] /\ x[i] < 2 * Price - slack)
                           /\ y[i] = Reflect(x[i], Price)
       PROVE  LET u == RoundTo(MedianTwice(x), fine)
              IN  /\ u \in Nat /\ (u < 4 * Price \/ u = 0)
                  /\ RoundTo(MedianTwice(y), fine) = Reflect(u, 2 * Price)
  <2>1. /\ MedianTwice(x) \in Nat
        /\ MedianTwice(y) = Reflect(MedianTwice(x), 2 * Price)
        /\ MedianTwice(x) = 0 \/ (2 * slack < MedianTwice(x) /\ MedianTwice(x) < 4 * Price - 2 * slack)
    <3>1. IsFiniteSet(DOMAIN x) /\ DOMAIN y = DOMAIN x
      BY <1>1, <1>13
    <3>2. \A i \in DOMAIN x : /\ x[i] \in Int
                              /\ x[i] = 0 \/ (slack < x[i] /\ x[i] < 2 * Price - slack)
                              /\ y[i] = Reflect(x[i], Price)
      BY <1>13
    <3> QED
      BY ONLY <1>8, <1>12, <3>1, <3>2, MedianReflected
  <2> QED
    BY <2>1, RoundedReflected
<1> DEFINE e == RoundTo(MedianTwice(entry), fine)
           p == RoundTo(MedianTwice(stop), fine)
           t == RoundTo(MedianTwice(target), fine)
           l == LevelsOf(fs, W, fine)
           m == LevelsOf(gs, W, fine)
<1>9. /\ e \in Nat /\ (e < 4 * Price \/ e = 0)
      /\ RoundTo(MedianTwice(entry2), fine) = Reflect(e, 2 * Price)
  BY <1>7, <1>13
<1>10. /\ p \in Nat /\ (p < 4 * Price \/ p = 0)
       /\ RoundTo(MedianTwice(stop2), fine) = Reflect(p, 2 * Price)
  BY <1>7, <1>13
<1>11. /\ t \in Nat /\ (t < 4 * Price \/ t = 0)
       /\ RoundTo(MedianTwice(target2), fine) = Reflect(t, 2 * Price)
  BY <1>7, <1>13
<1>14. l.entry = e /\ l.stop = p /\ l.target = t
  BY <1>3, LevelIs
<1>15. m = [entry |-> RoundTo(MedianTwice(entry2), fine), stop |-> RoundTo(MedianTwice(stop2), fine),
            target |-> RoundTo(MedianTwice(target2), fine)]
  BY <1>4 DEF LevelsOf
<1> HIDE DEF e, p, t, l, m
<1> QED
  BY <1>9, <1>10, <1>11, <1>14, <1>15 DEF gs, l, m

\* What the filters see of the levels is left by the reflection.
LEMMA MirrorExpectedR ==
  ASSUME NEW l, l.entry \in Nat, l.stop \in Nat, l.target \in Nat,
         l.entry < 4 * Price \/ l.entry = 0, l.stop < 4 * Price \/ l.stop = 0,
         l.target < 4 * Price \/ l.target = 0, NEW m,
         m = [entry  |-> Reflect(l.entry, 2 * Price), stop |-> Reflect(l.stop, 2 * Price),
              target |-> Reflect(l.target, 2 * Price)],
         NEW share, NEW settings
  PROVE  LowExpectedR(m, share, settings) <=> LowExpectedR(l, share, settings)
<1> DEFINE entry == l.entry
           stop == l.stop
           target == l.target
           axis == 2 * Price
<1>1. /\ m.entry = Reflect(entry, axis) /\ m.stop = Reflect(stop, axis)
      /\ m.target = Reflect(target, axis)
  OBVIOUS
<1>2. /\ entry \in Int /\ 0 <= entry /\ (entry < 2 * axis \/ entry = 0)
      /\ stop \in Int /\ 0 <= stop /\ (stop < 2 * axis \/ stop = 0)
      /\ target \in Int /\ 0 <= target /\ (target < 2 * axis \/ target = 0)
      /\ axis \in Int
  BY PriceIs
<1>3. /\ l.entry = entry /\ l.stop = stop /\ l.target = target
  OBVIOUS
<1> HIDE DEF entry, stop, target, axis
<1>4. /\ Reflect(entry, axis) = Absent <=> entry = Absent
      /\ Reflect(stop, axis) = Absent <=> stop = Absent
      /\ Reflect(target, axis) = Absent <=> target = Absent
      /\ entry # Absent /\ stop # Absent =>
           Distance(Reflect(entry, axis), Reflect(stop, axis)) = Distance(entry, stop)
      /\ target # Absent /\ entry # Absent =>
           Distance(Reflect(target, axis), Reflect(entry, axis)) = Distance(target, entry)
  BY <1>2, ReflectKeeps
<1>5. CASE entry # Absent /\ stop # Absent /\ target # Absent
  <2>1. /\ Distance(m.entry, m.stop) = Distance(l.entry, l.stop)
        /\ Distance(m.target, m.entry) = Distance(l.target, l.entry)
    BY <1>1, <1>3, <1>4, <1>5
  <2>2. m.entry # Absent /\ m.stop # Absent /\ m.target # Absent
    BY <1>1, <1>4, <1>5
  <2> QED
    BY <1>3, <1>5, <2>1, <2>2 DEF LowExpectedR
<1>6. CASE ~(entry # Absent /\ stop # Absent /\ target # Absent)
  <2>1. ~(m.entry # Absent /\ m.stop # Absent /\ m.target # Absent)
    BY <1>1, <1>4, <1>6
  <2> QED
    BY <1>3, <1>6, <2>1 DEF LowExpectedR
<1> QED
  BY <1>5, <1>6

\* The record of a vote, by its leading side.
Record(fs, settings, lead, fine) ==
  LET kept   == Counted(fs, Price, settings)
      filter == FilterReason(fs, kept, lead, settings, fine)
      priced == lead # "NEUTRAL" /\ filter \in {"none", "LOW_EXPECTED_R"}
  IN  [signal     |-> IF filter = "none" THEN lead ELSE "NEUTRAL",
       confidence |-> IF filter \in {"none", "LOW_CONFIDENCE"} THEN Share(fs, kept, lead) ELSE 0,
       filter     |-> filter,
       included   |-> IF filter = "none" THEN kept ELSE {},
       levels     |-> IF priced THEN LevelsOf(fs, OfSide(fs, kept, lead), fine)
                      ELSE [entry |-> Absent, stop |-> Absent, target |-> Absent]]

\* d is c reflected at the market price.
IsMirrored(d, c) ==
  /\ d.signal = OtherSide(c.signal) /\ d.confidence = c.confidence
  /\ d.filter = c.filter /\ d.included = c.included
  /\ d.levels = [entry  |-> Reflect(c.levels.entry, 2 * Price),
                 stop   |-> Reflect(c.levels.stop, 2 * Price),
                 target |-> Reflect(c.levels.target, 2 * Price)]

\* Reflected forecasts led by the other side give the reflected record.
LEMMA MirrorRecord ==
  ASSUME NEW fs \in Seq(Accepted), NEW fine \in Nat \ {0}, (2 * Price) % fine = 0,
         \A i \in DOMAIN fs : Reflectable(fs[i], fine \div 2), NEW settings,
         NEW lead \in {"LONG", "SHORT"}
  PROVE  IsMirrored(Record(Reflected(fs), settings, OtherSide(lead), fine), Record(fs, settings, lead, fine))
<1> DEFINE gs == Reflected(fs)
           kept == Counted(fs, Price, settings)
           rev == OtherSide(lead)
           W == OfSide(fs, kept, lead)
           share == Share(fs, kept, lead)
           f1 == FilterReason(fs, kept, lead, settings, fine)
           f2 == FilterReason(gs, kept, rev, settings, fine)
           l == LevelsOf(fs, W, fine)
           m == LevelsOf(gs, W, fine)
<1>1. lead # "NEUTRAL" /\ rev # "NEUTRAL" /\ rev \in {"LONG", "SHORT"} /\ OtherSide(rev) = lead
  BY DEF OtherSide
<1>2. kept \in SUBSET DOMAIN fs
  BY DEF Counted
<1>16. fine \div 2 \in Nat
  OBVIOUS
<1>3. /\ Counted(gs, Price, settings) = kept
      /\ WeightOf(gs, kept) = WeightOf(fs, kept)
      /\ OfSide(gs, kept, "LONG") = OfSide(fs, kept, "SHORT")
      /\ OfSide(gs, kept, "SHORT") = OfSide(fs, kept, "LONG")
  BY <1>2, <1>16, MirrorVotes
<1>4. /\ OfSide(gs, kept, rev) = W
      /\ OfSide(gs, kept, lead) = OfSide(fs, kept, rev)
  BY <1>3 DEF OtherSide
<1>5. W \in SUBSET DOMAIN fs /\ OfSide(fs, kept, rev) \in SUBSET DOMAIN fs
      /\ \A i \in W : fs[i].side # "NEUTRAL"
  BY <1>1, <1>2 DEF OfSide
<1>6. /\ WeightOf(gs, W) = WeightOf(fs, W) /\ ModelsOf(gs, W) = ModelsOf(fs, W)
      /\ WeightOf(gs, OfSide(fs, kept, rev)) = WeightOf(fs, OfSide(fs, kept, rev))
  BY <1>5, <1>16, MirrorVotes
<1>7. Minority(gs, kept, rev) = Minority(fs, kept, lead)
  <2>1. CASE lead = "LONG"
    BY <1>3, <1>4, <1>6, <2>1 DEF Minority, OtherSide
  <2>2. CASE lead = "SHORT"
    BY <1>3, <1>4, <1>6, <2>2 DEF Minority, OtherSide
  <2> QED
    BY <2>1, <2>2
<1>8. Share(gs, kept, rev) = share
  BY <1>3, <1>4, <1>6 DEF Share
<1>9. /\ l.entry \in Nat /\ l.stop \in Nat /\ l.target \in Nat
      /\ l.entry < 4 * Price \/ l.entry = 0
      /\ l.stop < 4 * Price \/ l.stop = 0
      /\ l.target < 4 * Price \/ l.target = 0
      /\ m = [entry  |-> Reflect(l.entry, 2 * Price), stop |-> Reflect(l.stop, 2 * Price),
              target |-> Reflect(l.target, 2 * Price)]
  BY <1>5, MirrorLevels
<1> HIDE DEF l, m, share, kept, gs, W, rev
<1>10. LowExpectedR(m, share, settings) <=> LowExpectedR(l, share, settings)
  BY <1>9, MirrorExpectedR
<1>11. f2 = f1
  <2>1. FilterReason(gs, kept, rev, settings, fine) =
          IF 100 * Minority(gs, kept, rev) > settings.disagreement * WeightOf(gs, kept)
          THEN "HIGH_DISAGREEMENT"
          ELSE IF Share(gs, kept, rev) < settings.threshold THEN "LOW_CONFIDENCE"
          ELSE IF Cardinality(ModelsOf(gs, OfSide(gs, kept, rev))) < settings.minModels
               THEN "INSUFFICIENT_AGREEMENT"
          ELSE IF LowExpectedR(LevelsOf(gs, OfSide(gs, kept, rev), fine), Share(gs, kept, rev), settings)
               THEN "LOW_EXPECTED_R"
          ELSE "none"
    BY <1>1, Zenon DEF FilterReason
  <2>2. FilterReason(fs, kept, lead, settings, fine) =
          IF 100 * Minority(fs, kept, lead) > settings.disagreement * WeightOf(fs, kept)
          THEN "HIGH_DISAGREEMENT"
          ELSE IF Share(fs, kept, lead) < settings.threshold THEN "LOW_CONFIDENCE"
          ELSE IF Cardinality(ModelsOf(fs, OfSide(fs, kept, lead))) < settings.minModels
               THEN "INSUFFICIENT_AGREEMENT"
          ELSE IF LowExpectedR(LevelsOf(fs, OfSide(fs, kept, lead), fine), Share(fs, kept, lead), settings)
               THEN "LOW_EXPECTED_R"
          ELSE "none"
    BY <1>1, Zenon DEF FilterReason
  <2>3. /\ Share(fs, kept, lead) = share /\ LevelsOf(fs, OfSide(fs, kept, lead), fine) = l
        /\ OfSide(fs, kept, lead) = W
        /\ LevelsOf(gs, OfSide(gs, kept, rev), fine) = m
    BY <1>4 DEF share, l, m, W
  <2> QED
    BY <1>3, <1>4, <1>6, <1>7, <1>8, <1>10, <2>1, <2>2, <2>3
<1> HIDE DEF f1, f2
<1> DEFINE levels1 == IF f1 \in {"none", "LOW_EXPECTED_R"} THEN l
                      ELSE [entry |-> Absent, stop |-> Absent, target |-> Absent]
           levels2 == IF f1 \in {"none", "LOW_EXPECTED_R"} THEN m
                      ELSE [entry |-> Absent, stop |-> Absent, target |-> Absent]
<1>12. Record(fs, settings, lead, fine) =
         [signal |-> IF f1 = "none" THEN lead ELSE "NEUTRAL",
          confidence |-> IF f1 \in {"none", "LOW_CONFIDENCE"} THEN share ELSE 0,
          filter |-> f1, included |-> IF f1 = "none" THEN kept ELSE {}, levels |-> levels1]
  BY <1>1 DEF Record, f1, share, l, W, kept
<1>13. Record(gs, settings, rev, fine) =
         [signal |-> IF f1 = "none" THEN rev ELSE "NEUTRAL",
          confidence |-> IF f1 \in {"none", "LOW_CONFIDENCE"} THEN share ELSE 0,
          filter |-> f1, included |-> IF f1 = "none" THEN kept ELSE {}, levels |-> levels2]
  BY <1>1, <1>3, <1>4, <1>8, <1>11 DEF Record, f2, m
<1>14. levels2 = [entry  |-> Reflect(levels1.entry, 2 * Price),
                  stop   |-> Reflect(levels1.stop, 2 * Price),
                  target |-> Reflect(levels1.target, 2 * Price)]
  BY <1>9 DEF Reflect, Absent
<1>15. (IF f1 = "none" THEN rev ELSE "NEUTRAL") = OtherSide(IF f1 = "none" THEN lead ELSE "NEUTRAL")
  BY DEF rev, OtherSide
<1> HIDE DEF levels1, levels2
<1> QED
  BY <1>12, <1>13, <1>14, <1>15 DEF IsMirrored, gs, rev

\* A tie is filtered out, as is its reflection.
LEMMA TieIsFiltered ==
  ASSUME NEW fs, NEW fine, NEW settings, settings.threshold \in Int, settings.threshold > 500,
         WeightOf(fs, Counted(fs, Price, settings)) \in Nat \ {0},
         NEW w \in Nat, 2 * w <= WeightOf(fs, Counted(fs, Price, settings)),
         w = WeightOf(fs, OfSide(fs, Counted(fs, Price, settings), "LONG")),
         w = WeightOf(fs, OfSide(fs, Counted(fs, Price, settings), "SHORT"))
  PROVE  LET all   == WeightOf(fs, Counted(fs, Price, settings))
             heavy == 100 * w > settings.disagreement * all
         IN  Record(fs, settings, "LONG", fine) =
               [signal     |-> "NEUTRAL",
                confidence |-> IF heavy THEN 0 ELSE RoundRatio(1000 * w, all),
                filter     |-> IF heavy THEN "HIGH_DISAGREEMENT" ELSE "LOW_CONFIDENCE",
                included   |-> {},
                levels     |-> [entry |-> Absent, stop |-> Absent, target |-> Absent]]
<1> DEFINE kept == Counted(fs, Price, settings)
           all == WeightOf(fs, kept)
           heavy == 100 * w > settings.disagreement * all
           share == Share(fs, kept, "LONG")
           filter == FilterReason(fs, kept, "LONG", settings, fine)
<1>1. share = RoundRatio(1000 * w, all)
  BY DEF Share
<1>2. share < settings.threshold
  <2>1. all \in Nat \ {0} /\ 2 * w <= all
    OBVIOUS
  <2> HIDE DEF all, share
  <2>2. share \in Nat /\ ~(share > 500)
    BY <1>1, <2>1, RoundedShare
  <2> QED
    BY <2>2
<1>3. Minority(fs, kept, "LONG") = w
  BY DEF Minority
<1>4. filter = IF heavy THEN "HIGH_DISAGREEMENT" ELSE "LOW_CONFIDENCE"
  BY <1>2, <1>3 DEF FilterReason
<1>5. Record(fs, settings, "LONG", fine) =
        [signal |-> IF filter = "none" THEN "LONG" ELSE "NEUTRAL",
         confidence |-> IF filter \in {"none", "LOW_CONFIDENCE"} THEN share ELSE 0,
         filter |-> filter, included |-> IF filter = "none" THEN kept ELSE {},
         levels |-> IF "LONG" # "NEUTRAL" /\ filter \in {"none", "LOW_EXPECTED_R"}
                    THEN LevelsOf(fs, OfSide(fs, kept, "LONG"), fine)
                    ELSE [entry |-> Absent, stop |-> Absent, target |-> Absent]]
  BY DEF Record
<1> HIDE DEF filter, share
<1>6. CASE heavy
  <2>1. filter = "HIGH_DISAGREEMENT"
    BY <1>4, <1>6
  <2> QED
    BY <1>5, <1>6, <2>1
<1>7. CASE ~heavy
  <2>1. filter = "LOW_CONFIDENCE"
    BY <1>4, <1>7
  <2> QED
    BY <1>1, <1>5, <1>7, <2>1
<1> QED
  BY <1>6, <1>7

LEMMA MirrorConsensus ==
  ASSUME NEW fs \in Seq(Accepted), NEW fine \in Nat \ {0}, (2 * Price) % fine = 0,
         \A i \in DOMAIN fs : Reflectable(fs[i], fine \div 2), NEW settings,
         settings.threshold \in Int, settings.threshold > 500
  PROVE  IsMirrored(CalculateConsensus(Reflected(fs), Price, settings, fine),
                    CalculateConsensus(fs, Price, settings, fine))
<1> DEFINE gs == Reflected(fs)
           kept == Counted(fs, Price, settings)
           all == WeightOf(fs, kept)
           a == WeightOf(fs, OfSide(fs, kept, "LONG"))
           b == WeightOf(fs, OfSide(fs, kept, "SHORT"))
           lead == Leading(fs, kept)
           rev == Leading(gs, kept)
<1>1. kept \in SUBSET DOMAIN fs /\ OfSide(fs, kept, "LONG") \in SUBSET DOMAIN fs
      /\ OfSide(fs, kept, "SHORT") \in SUBSET DOMAIN fs
  BY DEF Counted, OfSide
<1>16. fine \div 2 \in Nat
  OBVIOUS
<1>2. /\ Counted(gs, Price, settings) = kept
      /\ WeightOf(gs, kept) = all
      /\ WeightOf(gs, OfSide(gs, kept, "LONG")) = b
      /\ WeightOf(gs, OfSide(gs, kept, "SHORT")) = a
  BY <1>1, <1>16, MirrorVotes
<1>3. a \in Nat /\ b \in Nat /\ all \in Nat /\ a + b <= all
  BY VoteWeights
<1>4. CalculateConsensus(fs, Price, settings, fine) = Record(fs, settings, lead, fine)
  BY DEF CalculateConsensus, Record
<1>5. CalculateConsensus(gs, Price, settings, fine) = Record(gs, settings, rev, fine)
  BY <1>2 DEF CalculateConsensus, Record
<1>6. lead = IF all = 0 THEN "NEUTRAL" ELSE IF a >= b THEN "LONG" ELSE "SHORT"
  BY DEF Leading
<1>7. rev = IF all = 0 THEN "NEUTRAL" ELSE IF b >= a THEN "LONG" ELSE "SHORT"
  BY <1>2 DEF Leading
<1> HIDE DEF lead, rev
<1>8. CASE all = 0
  <2>1. lead = "NEUTRAL" /\ rev = "NEUTRAL"
    BY <1>6, <1>7, <1>8
  <2>2. Record(fs, settings, "NEUTRAL", fine) =
          [signal |-> "NEUTRAL", confidence |-> 0, filter |-> "none", included |-> kept,
           levels |-> [entry |-> Absent, stop |-> Absent, target |-> Absent]]
    BY <1>8 DEF Record, FilterReason, Share
  <2>3. Record(gs, settings, "NEUTRAL", fine) = Record(fs, settings, "NEUTRAL", fine)
    BY <1>2, <1>8, <2>2 DEF Record, FilterReason, Share
  <2>4. Reflect(Absent, 2 * Price) = Absent /\ OtherSide("NEUTRAL") = "NEUTRAL"
    BY DEF Reflect, OtherSide
  <2>5. IsMirrored(Record(fs, settings, "NEUTRAL", fine), Record(fs, settings, "NEUTRAL", fine))
    BY <2>2, <2>4 DEF IsMirrored
  <2> QED
    BY <1>4, <1>5, <2>1, <2>3, <2>5
<1>9. CASE all # 0 /\ a # b
  <2>1. lead \in {"LONG", "SHORT"} /\ rev = OtherSide(lead)
    <3> HIDE DEF a, b, all
    <3>1. CASE a > b
      BY <1>3, <1>6, <1>7, <1>9, <3>1 DEF OtherSide
    <3>2. CASE b > a
      BY <1>3, <1>6, <1>7, <1>9, <3>2 DEF OtherSide
    <3> QED
      BY <1>3, <1>9, <3>1, <3>2
  <2> QED
    BY <1>4, <1>5, <2>1, MirrorRecord
<1>10. CASE all # 0 /\ a = b
  <2>1. lead = "LONG" /\ rev = "LONG"
    BY <1>3, <1>6, <1>7, <1>10
  <2> DEFINE heavy == 100 * a > settings.disagreement * all
             tie == [signal     |-> "NEUTRAL",
                     confidence |-> IF heavy THEN 0 ELSE RoundRatio(1000 * a, all),
                     filter     |-> IF heavy THEN "HIGH_DISAGREEMENT" ELSE "LOW_CONFIDENCE",
                     included   |-> {},
                     levels     |-> [entry |-> Absent, stop |-> Absent, target |-> Absent]]
  <2>2. all \in Nat \ {0} /\ 2 * a <= all
    BY <1>3, <1>10
  <2>3. Record(fs, settings, "LONG", fine) = tie
    BY <1>3, <1>10, <2>2, TieIsFiltered
  <2>4. Record(gs, settings, "LONG", fine) = tie
    <3>1. /\ WeightOf(gs, Counted(gs, Price, settings)) = all
          /\ WeightOf(gs, OfSide(gs, Counted(gs, Price, settings), "LONG")) = a
          /\ WeightOf(gs, OfSide(gs, Counted(gs, Price, settings), "SHORT")) = a
      BY <1>2, <1>10
    <3> HIDE DEF gs, all, a, b, kept
    <3> QED
      BY <1>3, <2>2, <3>1, TieIsFiltered
  <2>5. Reflect(Absent, 2 * Price) = Absent /\ OtherSide("NEUTRAL") = "NEUTRAL"
    BY DEF Reflect, OtherSide
  <2>6. IsMirrored(tie, tie)
    BY <2>5 DEF IsMirrored
  <2> HIDE DEF tie, heavy
  <2> QED
    BY <1>4, <1>5, <2>1, <2>3, <2>4, <2>6
<1> QED
  BY <1>8, <1>9, <1>10

-----------------------------------------------------------------------------
(* The numbers of an order.                                                 *)

LEMMA QtyIs ==
  ASSUME NEW n \in Nat, NEW d \in Nat \ {0}, NEW s \in Nat \ {0}
  PROVE  \E k \in Nat : /\ QuantizeQty(<<n, d>>, s) = k * s
                        /\ QuantizeQty(<<n, d>>, s) \in Nat
                        /\ QuantizeQty(<<n, d>>, s) * d <= n
<1> DEFINE m == d * s
           q == n \div m
<1>1. m \in Nat \ {0}
  OBVIOUS
<1>2. QuantizeQty(<<n, d>>, s) = q * s
  BY DEF QuantizeQty
<1>3. q \in Nat /\ q * m <= n
  <2> HIDE DEF m
  <2>1. q \in Nat /\ n = m * q + (n % m) /\ (n % m) \in 0 .. m - 1
    BY <1>1
  <2> QED
    BY <1>1, <2>1
<1> HIDE DEF q
<1>4. (q * s) * d = q * m
  BY <1>3
<1>5. q * s \in Nat
  BY <1>3
<1> QED
  BY <1>2, <1>3, <1>4, <1>5

\* A whole number of steps is left as it is.
LEMMA QtyTwice ==
  ASSUME NEW k \in Nat, NEW s \in Nat \ {0}
  PROVE  QuantizeQty(<<k * s, 1>>, s) = k * s
<1> DEFINE n == k * s
<1>1. n \in Nat /\ 1 * s = s
  OBVIOUS
<1>2. n \div s = k
  OBVIOUS
<1>3. QuantizeQty(<<n, 1>>, s) = (n \div (1 * s)) * s
  BY DEF QuantizeQty
<1> QED
  BY <1>1, <1>2, <1>3

\* To the nearest tick, which leaves a whole number of ticks as it is.
LEMMA TickIs ==
  ASSUME NEW p \in Int, NEW t \in Nat \ {0}
  PROVE  /\ \E k \in Int : QuantizePrice(p, t) = k * t
         /\ QuantizePrice(p, t) \in Int
         /\ 2 * (QuantizePrice(p, t) - p) <= t /\ 2 * (p - QuantizePrice(p, t)) <= t
         /\ QuantizePrice(QuantizePrice(p, t), t) = QuantizePrice(p, t)
BY RoundIs DEF QuantizePrice

Levels == {"entry", "stop", "target"}

\* Levels an order can be sized with: an entry, a stop or both.
Sizable(l) ==
  /\ l.entry \in Nat /\ l.stop \in Nat /\ l.target \in Int
  /\ l.entry # Absent \/ l.stop # Absent

LEMMA SizeIs ==
  ASSUME NEW equity0 \in Nat, NEW l, Sizable(l)
  PROVE  LET size == PositionSize(equity0, l.entry, l.stop, Risk)
         IN  \E n \in Nat, d \in Nat \ {0} : size = <<n, d>>
<1> DEFINE entry == l.entry
           stop == l.stop
           distance == Distance(entry, stop)
           num == equity0 * Risk.pct
           den == CASE entry = Absent                 -> stop * Risk.leverage
                    [] entry # Absent /\ distance = 0 -> entry * Risk.leverage
                    [] OTHER                          -> 100 * distance * Risk.leverage
           size == PositionSize(equity0, l.entry, l.stop, Risk)
<1>1. /\ Risk.pct \in Nat \ {0} /\ Risk.leverage \in Nat \ {0} /\ Risk.minQty \in Nat \ {0}
  BY RiskAssumption DEF RiskAssumption
<1>2. entry \in Nat /\ stop \in Nat /\ distance \in Nat /\ (entry # 0 \/ stop # 0)
  BY DEF Sizable, Distance, Absent
<1>3. num \in Nat
  BY <1>1
<1>4. size = IF num < Risk.minQty * den THEN <<Risk.minQty, 1>> ELSE <<num, den>>
  BY DEF PositionSize
<1> HIDE DEF distance, entry, stop
<1>5. den \in Nat \ {0}
  <2>1. CASE entry = Absent
    <3>1. den = stop * Risk.leverage /\ stop \in Nat \ {0}
      BY <1>2, <2>1 DEF Absent
    <3> HIDE DEF den
    <3> QED
      BY <1>1, <1>2, <3>1
  <2>2. CASE entry # Absent /\ distance = 0
    <3>1. den = entry * Risk.leverage /\ entry \in Nat \ {0}
      BY <1>2, <2>2 DEF Absent
    <3> HIDE DEF den
    <3> QED
      BY <1>1, <1>2, <3>1
  <2>3. CASE entry # Absent /\ distance # 0
    <3>1. den = 100 * distance * Risk.leverage /\ 100 * distance \in Nat \ {0}
      BY <1>2, <2>3 DEF Absent
    <3> HIDE DEF den
    <3> QED
      BY <1>1, <1>2, <3>1
  <2> QED
    BY <2>1, <2>2, <2>3
<1> HIDE DEF num, den
<1>6. size = <<Risk.minQty, 1>> \/ size = <<num, den>>
  BY <1>4
<1> QED
  BY <1>1, <1>3, <1>5, <1>6

\* What the instrument leaves of an order: no more than the quantity it was
\* sized to, levels within half a tick, and nothing more the second time.
LEMMA NormalizedIs ==
  ASSUME NEW n \in Nat, NEW d \in Nat \ {0}, NEW l, l.entry \in Int, l.stop \in Int, l.target \in Int
  PROVE  LET order == NormalizeOrder(<<n, d>>, l, Instrument)
             tick  == Instrument.tick
         IN  /\ order.qty \in Nat /\ order.qty * d <= n
             /\ order.entry \in Int /\ order.stop \in Int
             /\ 2 * (order.entry - l.entry) <= tick /\ 2 * (l.entry - order.entry) <= tick
             /\ 2 * (order.stop - l.stop) <= tick /\ 2 * (l.stop - order.stop) <= tick
             /\ order.qty > 0 => NormalizeOrder(<<order.qty, 1>>, order, Instrument) = order
<1> DEFINE s == Instrument.qtyStep
           tick == Instrument.tick
           least == Instrument.minQty
           most == Instrument.maxQty
           order == NormalizeOrder(<<n, d>>, l, Instrument)
           floor == QuantizeQty(<<n, d>>, s)
           cut == QuantizeQty(<<most, 1>>, s)
           qty == IF most > 0 /\ floor > most THEN cut ELSE floor
<1>1. /\ s \in Nat \ {0} /\ tick \in Nat \ {0} /\ least \in Nat /\ most \in Nat
      /\ least % s = 0 /\ (most = 0 \/ least <= most)
  BY InstrumentAssumption DEF InstrumentAssumption
<1>2. order = [qty |-> IF floor < least THEN 0 ELSE qty,
               entry |-> QuantizePrice(l.entry, tick), stop |-> QuantizePrice(l.stop, tick),
               target |-> QuantizePrice(l.target, tick)]
  BY DEF NormalizeOrder
<1>3. ASSUME NEW o, NEW w
      PROVE  NormalizeOrder(<<w, 1>>, o, Instrument) =
               [qty |-> IF QuantizeQty(<<w, 1>>, s) < least THEN 0
                        ELSE IF most > 0 /\ QuantizeQty(<<w, 1>>, s) > most THEN cut
                        ELSE QuantizeQty(<<w, 1>>, s),
                entry |-> QuantizePrice(o.entry, tick), stop |-> QuantizePrice(o.stop, tick),
                target |-> QuantizePrice(o.target, tick)]
  BY DEF NormalizeOrder
<1> HIDE DEF s, tick, least, most, order, floor, cut
<1>4. PICK j \in Nat : floor = j * s /\ floor \in Nat /\ floor * d <= n
  BY <1>1, QtyIs DEF floor
<1>5. PICK k \in Nat : cut = k * s /\ cut \in Nat /\ cut <= most
  <2>1. PICK k \in Nat : cut = k * s /\ cut \in Nat /\ cut * 1 <= most
    <3>1. 1 \in Nat \ {0}
      OBVIOUS
    <3>2. \E k \in Nat : /\ QuantizeQty(<<most, 1>>, s) = k * s
                         /\ QuantizeQty(<<most, 1>>, s) \in Nat
                         /\ QuantizeQty(<<most, 1>>, s) * 1 <= most
      BY <1>1, <3>1, QtyIs
    <3> QED
      BY <3>2 DEF cut
  <2> QED
    BY <2>1
<1>6. most > 0 => least <= cut
  <2> SUFFICES ASSUME most > 0 PROVE least <= cut
    OBVIOUS
  <2> DEFINE a == least \div s
             b == most \div s
  <2>1. a \in Nat /\ least = s * a /\ b \in Nat
    <3>1. a \in Nat /\ least = s * a + (least % s)
      BY <1>1
    <3>2. b \in Nat
      BY <1>1
    <3> QED
      BY <1>1, <3>1, <3>2
  <2>2. a <= b
    <3>1. most = s * b + (most % s) /\ (most % s) \in 0 .. s - 1
      BY <1>1
    <3>2. ASSUME a >= b + 1 PROVE FALSE
      <4> HIDE DEF a, b
      <4>1. s * a >= s * (b + 1)
        BY <1>1, <2>1, <3>2
      <4>2. s * (b + 1) = s * b + s
        BY <1>1, <2>1
      <4> DEFINE u == s * b
                 v == s * a
      <4>3. u \in Nat /\ v \in Nat /\ v >= u + s /\ most < u + s /\ least = v
        BY <1>1, <2>1, <3>1, <4>1, <4>2
      <4> HIDE DEF u, v
      <4> QED
        BY <1>1, <4>3
    <3> HIDE DEF a, b
    <3> QED
      BY <2>1, <3>2
  <2>3. cut = b * s
    <3>1. cut = (most \div (1 * s)) * s /\ 1 * s = s
      BY <1>1 DEF cut, QuantizeQty
    <3> QED
      BY <3>1
  <2> HIDE DEF a, b
  <2>4. s * a <= b * s
    BY <1>1, <2>1, <2>2
  <2> QED
    BY <2>1, <2>3, <2>4
<1>7. /\ order.qty = IF floor < least THEN 0 ELSE qty
      /\ order.entry = QuantizePrice(l.entry, tick) /\ order.stop = QuantizePrice(l.stop, tick)
      /\ order.target = QuantizePrice(l.target, tick)
  BY <1>2
<1>8. /\ qty \in Nat /\ qty <= floor
      /\ qty = j * s \/ qty = k * s
  <2>1. CASE most > 0 /\ floor > most
    <3>1. qty = cut
      BY <2>1
    <3> HIDE DEF qty
    <3> QED
      BY <1>1, <1>4, <1>5, <2>1, <3>1
  <2>2. CASE ~(most > 0 /\ floor > most)
    <3>1. qty = floor
      BY <2>2
    <3> HIDE DEF qty
    <3> QED
      BY <1>4, <3>1
  <2> QED
    BY <2>1, <2>2
<1>9. order.qty \in Nat /\ order.qty <= floor
  BY <1>4, <1>7, <1>8
<1>10. order.qty * d <= n
  <2>1. order.qty * d <= floor * d
    BY <1>4, <1>9
  <2> DEFINE x == order.qty * d
             y == floor * d
  <2>2. x \in Int /\ y \in Int /\ x <= y /\ y <= n
    BY <1>4, <1>9, <2>1
  <2> HIDE DEF x, y
  <2>3. x <= n
    BY <2>2
  <2> QED
    BY <2>3 DEF x
<1>11. /\ order.entry \in Int /\ order.stop \in Int
       /\ 2 * (order.entry - l.entry) <= tick /\ 2 * (l.entry - order.entry) <= tick
       /\ 2 * (order.stop - l.stop) <= tick /\ 2 * (l.stop - order.stop) <= tick
       /\ QuantizePrice(order.entry, tick) = order.entry
       /\ QuantizePrice(order.stop, tick) = order.stop
       /\ QuantizePrice(order.target, tick) = order.target
  <2>1. ASSUME NEW x \in Int, NEW y, y = QuantizePrice(x, tick)
        PROVE  /\ y \in Int /\ QuantizePrice(y, tick) = y
               /\ 2 * (y - x) <= tick /\ 2 * (x - y) <= tick
    BY <1>1, <2>1, TickIs
  <2>2. /\ order.entry \in Int /\ QuantizePrice(order.entry, tick) = order.entry
        /\ 2 * (order.entry - l.entry) <= tick /\ 2 * (l.entry - order.entry) <= tick
    BY <1>7, <2>1
  <2>3. /\ order.stop \in Int /\ QuantizePrice(order.stop, tick) = order.stop
        /\ 2 * (order.stop - l.stop) <= tick /\ 2 * (l.stop - order.stop) <= tick
    BY <1>7, <2>1
  <2>4. QuantizePrice(order.target, tick) = order.target
    BY <1>7, <2>1
  <2> QED
    BY <2>2, <2>3, <2>4
<1>12. ASSUME order.qty > 0
       PROVE  NormalizeOrder(<<order.qty, 1>>, order, Instrument) = order
  <2>1. order.qty = qty /\ ~(floor < least)
    BY <1>7, <1>12
  <2>2. QuantizeQty(<<order.qty, 1>>, s) = order.qty
    BY <1>1, <1>8, <2>1, QtyTwice
  <2>3. order.qty >= least
    BY <1>1, <1>4, <1>5, <1>6, <2>1
  <2>4. ~(most > 0 /\ order.qty > most)
    BY <1>1, <1>4, <1>5, <2>1
  <2>5. NormalizeOrder(<<order.qty, 1>>, order, Instrument) =
          [qty |-> IF order.qty < least THEN 0
                   ELSE IF most > 0 /\ order.qty > most THEN cut ELSE order.qty,
           entry |-> order.entry, stop |-> order.stop, target |-> order.target]
    BY <1>3, <1>11, <2>2
  <2>6. NormalizeOrder(<<order.qty, 1>>, order, Instrument) =
          [qty |-> order.qty, entry |-> order.entry, stop |-> order.stop, target |-> order.target]
    BY <1>1, <1>9, <2>3, <2>4, <2>5
  <2>7. order = [qty |-> order.qty, entry |-> order.entry, stop |-> order.stop,
                 target |-> order.target]
    BY <1>2
  <2> QED
    BY <2>6, <2>7
<1> QED
  BY <1>9, <1>10, <1>11, <1>12 DEF order, tick

\* The loss at the stop of an order above the minimum quantity.
LEMMA RiskIs ==
  ASSUME NEW equity0 \in Nat, NEW l, Sizable(l), NEW order,
         order = NormalizeOrder(PositionSize(equity0, l.entry, l.stop, Risk), l, Instrument),
         order.qty > Risk.minQty, l.entry # Absent,
         Distance(l.entry, l.stop) >= Instrument.tick, Risk.leverage >= 2
  PROVE  100 * order.qty * Distance(order.entry, order.stop) <= equity0 * Risk.pct
<1> DEFINE size == PositionSize(equity0, l.entry, l.stop, Risk)
           far == Distance(l.entry, l.stop)
           near == Distance(order.entry, order.stop)
           num == equity0 * Risk.pct
           den == 100 * far * Risk.leverage
           tick == Instrument.tick
<1>1. PICK n \in Nat, d \in Nat \ {0} : size = <<n, d>>
  BY SizeIs
<1>2. /\ Risk.leverage \in Nat /\ Risk.minQty \in Nat /\ num \in Nat
  BY RiskAssumption DEF RiskAssumption
<1>3. tick \in Nat \ {0}
  BY InstrumentAssumption DEF InstrumentAssumption
<1>4. l.entry \in Int /\ l.stop \in Int /\ l.target \in Int
  BY DEF Sizable
<1>5. /\ order.qty \in Nat /\ order.qty * d <= n
      /\ order.entry \in Int /\ order.stop \in Int
      /\ 2 * (order.entry - l.entry) <= tick /\ 2 * (l.entry - order.entry) <= tick
      /\ 2 * (order.stop - l.stop) <= tick /\ 2 * (l.stop - order.stop) <= tick
  <2>1. order = NormalizeOrder(<<n, d>>, l, Instrument)
    BY <1>1
  <2> DEFINE o == NormalizeOrder(<<n, d>>, l, Instrument)
  <2>2. /\ o.qty \in Nat /\ o.qty * d <= n
        /\ o.entry \in Int /\ o.stop \in Int
        /\ 2 * (o.entry - l.entry) <= Instrument.tick /\ 2 * (l.entry - o.entry) <= Instrument.tick
        /\ 2 * (o.stop - l.stop) <= Instrument.tick /\ 2 * (l.stop - o.stop) <= Instrument.tick
    BY <1>4, NormalizedIs
  <2>3. order = o
    BY <2>1
  <2> HIDE DEF o
  <2> QED
    BY <2>2, <2>3
<1>6. size = IF num < Risk.minQty * den THEN <<Risk.minQty, 1>> ELSE <<num, den>>
  <2>1. far # 0
    BY <1>3, <1>4 DEF Distance
  <2> QED
    BY <2>1 DEF PositionSize
<1>7. size # <<Risk.minQty, 1>>
  <2> SUFFICES ASSUME size = <<Risk.minQty, 1>> PROVE FALSE
    OBVIOUS
  <2> HIDE DEF size
  <2>1. n = Risk.minQty /\ d = 1
    BY <1>1
  <2> QED
    BY <1>2, <1>5, <2>1
<1>8. order.qty * den <= num
  <2> HIDE DEF size, den, num
  <2>1. n = num /\ d = den
    BY <1>1, <1>6, <1>7
  <2> QED
    BY <1>5, <2>1
<1>9. far \in Nat /\ near \in Nat /\ near <= 2 * far
  <2> DEFINE e == l.entry
             p == l.stop
             f == order.entry
             q == order.stop
  <2>1. /\ e \in Int /\ p \in Int /\ f \in Int /\ q \in Int
        /\ 2 * (f - e) <= tick /\ 2 * (e - f) <= tick
        /\ 2 * (q - p) <= tick /\ 2 * (p - q) <= tick
    BY <1>4, <1>5
  <2>2. far = Distance(e, p) /\ near = Distance(f, q) /\ far >= tick
    OBVIOUS
  <2> HIDE DEF e, p, f, q, far, near, tick
  <2> QED
    BY <1>3, <2>1, <2>2 DEF Distance
<1> DEFINE qty == order.qty
<1>10. qty \in Nat
  BY <1>5
<1> DEFINE lev == Risk.leverage
<1>11. lev \in Nat /\ lev >= 2
  BY <1>2
<1>12. qty * ((100 * far) * lev) <= num
  BY <1>8
<1>13. order.qty = qty
  OBVIOUS
<1> HIDE DEF far, near, num, den, qty, lev, size
<1>14. (100 * qty) * near <= (100 * qty) * (2 * far)
  BY <1>9, <1>10
<1>15. (100 * qty) * (2 * far) = (qty * (100 * far)) * 2
  BY <1>9, <1>10
<1>16. (qty * (100 * far)) * 2 <= (qty * (100 * far)) * lev
  <2> DEFINE m == qty * (100 * far)
  <2>1. m \in Nat
    BY <1>9, <1>10
  <2> HIDE DEF m
  <2>2. m * 2 <= m * lev
    BY <1>11, <2>1
  <2> QED
    BY <2>2 DEF m
<1>17. (qty * (100 * far)) * lev = qty * ((100 * far) * lev)
  BY <1>9, <1>10, <1>11
<1>18. (100 * qty) * near <= num
  <2> DEFINE a == (100 * qty) * near
             b == (100 * qty) * (2 * far)
             c == (qty * (100 * far)) * lev
  <2>1. a \in Int /\ b \in Int /\ c \in Int
    BY <1>9, <1>10, <1>11
  <2>2. a <= b /\ b <= c /\ c <= num
    BY <1>12, <1>14, <1>15, <1>16, <1>17
  <2> HIDE DEF a, b, c
  <2>3. a <= num
    BY <1>2, <2>1, <2>2
  <2> QED
    BY <2>3 DEF a
<1> QED
  BY <1>13, <1>18 DEF near, num

\* A median of levels is a level, 0 when there is none.
LEMMA MedianKnown ==
  ASSUME NEW a, LevelsAt(a, DOMAIN a)
  PROVE  MedianTwice(a) \in Nat
<1> DEFINE P == {i \in DOMAIN a : a[i] > 0}
           n == Cardinality(P)
           k == (n + 1) \div 2
           l == n \div 2 + 1
<1>1. CASE P = {}
  BY <1>1 DEF MedianTwice, Absent
<1>2. CASE P # {}
  <2>1. LevelsAt(a, P) /\ \A i \in P : a[i] > 0
    <3>1. P \subseteq DOMAIN a
      OBVIOUS
    <3> QED
      BY <3>1, FS_Subset DEF LevelsAt
  <2>2. MedianTwice(a) = Ranked(a, P, k) + Ranked(a, P, l)
    BY <1>2 DEF MedianTwice
  <2> HIDE DEF P
  <2>3. n \in Nat \ {0}
    BY <1>2, <2>1, FS_CardinalityType, FS_EmptySet DEF LevelsAt
  <2> HIDE DEF n
  <2>4. k \in 1 .. n /\ l \in 1 .. n
    BY <2>3, TwoRanks
  <2> HIDE DEF k, l
  <2>5. PICK i \in P : Ranked(a, P, k) = a[i]
    BY <2>1, <2>4, RankedAmong DEF n
  <2>6. PICK j \in P : Ranked(a, P, l) = a[j]
    BY <2>1, <2>4, RankedAmong DEF n
  <2>7. a[i] \in Int /\ a[i] > 0 /\ a[j] \in Int /\ a[j] > 0
    BY <2>1 DEF LevelsAt
  <2> QED
    BY <2>2, <2>5, <2>6, <2>7
<1> QED
  BY <1>1, <1>2

\* The levels of a directed consensus over sound forecasts.
LEMMA DirectedLevels ==
  ASSUME NEW fs \in Seq(Accepted), \A i \in DOMAIN fs : Sound(fs[i]), NEW settings,
         settings.threshold \in Int, settings.minModels \in Nat \ {0}, NEW fine \in Nat \ {0},
         NEW c, c = CalculateConsensus(fs, Price, settings, fine), c.signal # "NEUTRAL"
  PROVE  c.levels.entry \in Nat /\ c.levels.stop \in Nat /\ c.levels.target \in Int
<1> DEFINE W == OfSide(fs, Counted(fs, Price, settings), c.signal)
<1>1. c.signal \in Sides /\ W # {} /\ c.levels = LevelsOf(fs, W, fine)
  BY ConsensusIs
<1>2. W \in SUBSET DOMAIN fs /\ \A i \in W : fs[i].side = c.signal
  BY DEF Counted, OfSide
<1> HIDE DEF W
<1> DEFINE l == LevelsOf(fs, W, fine)
           target == [i \in W |-> VoteTarget(fs[i])]
<1>3. l.entry \in Nat /\ l.stop \in Nat
  <2>1. CASE c.signal = "LONG"
    BY <1>1, <1>2, <2>1, LongTrade
  <2>2. CASE c.signal = "SHORT"
    BY <1>1, <1>2, <2>2, ShortTrade
  <2> QED
    BY <1>1, <2>1, <2>2 DEF Sides
<1>4. l.target = RoundTo(MedianTwice(target), fine)
  <2>1. MediansOf(fs, W).target = MedianTwice(target)
    BY DEF MediansOf
  <2> QED
    BY <2>1, LevelIs
<1>5. MedianTwice(target) \in Nat
  <2>1. IsFiniteSet(W)
    BY <1>2, SeqDomain, FS_Subset
  <2>2. ASSUME NEW i \in W PROVE VoteTarget(fs[i]) \in Int
    <3>1. fs[i] \in Accepted
      BY <1>2, SeqDomain
    <3> QED
      BY <3>1, TargetIs
  <2>3. DOMAIN target = W /\ LevelsAt(target, W)
    BY <2>1, <2>2 DEF LevelsAt
  <2> HIDE DEF target
  <2> QED
    BY <2>3, MedianKnown
<1>6. RoundTo(MedianTwice(target), fine) \in Int
  <2> HIDE DEF target
  <2> QED
    BY <1>5, RoundIs
<1> QED
  BY <1>1, <1>3, <1>4, <1>6

-----------------------------------------------------------------------------
(* What always holds of a run.                                              *)

\* The run calls each model once, keeps sound forecasts only, votes when all
\* calls are made and goes on with a directed consensus only.
VoteInv ==
  /\ market \in Situations /\ asked \in 0 .. Len(Calls)
  /\ forecasts \in Seq(Accepted) /\ Len(forecasts) <= asked
  /\ \A i \in DOMAIN forecasts : Sound(forecasts[i])
  /\ consensus # NoConsensus =>
        /\ asked = Len(Calls)
        /\ consensus = CalculateConsensus(forecasts, Price, LoadSettings(market.regime), market.fine)

\* The order row is what the instrument leaves of an order sized from sizable
\* levels, and what is sent is the row.
OrderInv ==
  /\ consensus # NoConsensus /\ stored = NoOrder /\ outcome = "" => consensus.signal # "NEUTRAL"
  /\ equity \in Nat /\ DOMAIN ordered = Levels
  /\ stored # NoOrder =>
        /\ Sizable(ordered) /\ stored.qty > 0
        /\ stored = NormalizeOrder(PositionSize(equity, ordered.entry, ordered.stop, Risk),
                                   ordered, Instrument)
  /\ sent \in {NoOrder, stored}
  /\ outcome # "order invalid"

SInv == VoteInv /\ OrderInv

LEMMA CallsAre == Len(Calls) \in Nat /\ Calls \in Seq(Called) /\ DOMAIN Calls = 1 .. Len(Calls)
<1>1. Calls \in Seq({Calls[i] : i \in DOMAIN Calls})
  BY AnswersAssumption DEF AnswersAssumption
<1>2. Len(Calls) \in Nat /\ DOMAIN Calls = 1 .. Len(Calls)
  BY <1>1
<1> QED
  BY <1>1, <1>2 DEF Called

LEMMA SignalStarts ==
  ASSUME SignalInit
  PROVE  SInv
<1>1. VoteInv
  <2>1. forecasts = <<>> /\ market \in Situations /\ asked = 0 /\ consensus = NoConsensus
    BY DEF SignalInit
  <2>2. forecasts \in Seq(Accepted) /\ Len(forecasts) = 0 /\ DOMAIN forecasts = {}
    BY <2>1
  <2>3. 0 \in 0 .. Len(Calls) /\ Len(forecasts) <= 0
    BY <2>2, CallsAre
  <2> QED
    BY <2>1, <2>2, <2>3 DEF VoteInv
<1>2. OrderInv
  BY DEF SignalInit, OrderInv, Levels, NoLevels
<1> QED
  BY <1>1, <1>2 DEF SInv

\* The vote on what a run has gathered.
LEMMA RunConsensus ==
  ASSUME SInv, NEW c, c = CalculateConsensus(forecasts, Price, LoadSettings(market.regime), market.fine)
  PROVE  /\ c # NoConsensus /\ c.signal \in Sides /\ c.included \subseteq DOMAIN forecasts
         /\ DOMAIN c.levels = Levels
         /\ c.signal # "NEUTRAL" =>
               c.levels.entry \in Nat /\ c.levels.stop \in Nat /\ c.levels.target \in Int
<1> DEFINE settings == LoadSettings(market.regime)
<1>1. market.regime \in DOMAIN Overrides
  BY SituationsAssumption DEF SituationsAssumption, SInv, VoteInv
<1>2. settings.threshold \in Int /\ settings.minModels \in Nat \ {0}
  BY <1>1, SettingsAre
<1>3. forecasts \in Seq(Accepted) /\ \A i \in DOMAIN forecasts : Sound(forecasts[i])
  BY DEF SInv, VoteInv
<1>7. market.fine \in Nat \ {0}
  BY SituationsAssumption DEF SituationsAssumption, SInv, VoteInv
<1> HIDE DEF settings
<1>4. c = CalculateConsensus(forecasts, Price, settings, market.fine)
  BY DEF settings
<1>5. /\ c # NoConsensus /\ c.signal \in Sides /\ c.included \subseteq DOMAIN forecasts
      /\ DOMAIN c.levels = Levels
  BY <1>2, <1>3, <1>4, ConsensusIs DEF Levels
<1>6. c.signal # "NEUTRAL" =>
               c.levels.entry \in Nat /\ c.levels.stop \in Nat /\ c.levels.target \in Int
  BY <1>2, <1>3, <1>4, <1>7, DirectedLevels
<1> QED
  BY <1>5, <1>6

LEMMA NoAnswerKeeps ==
  ASSUME SInv, NoAnswer
  PROVE  SInv'
<1>1. consensus = NoConsensus
  <2>1. asked \in 0 .. Len(Calls) /\ asked < Len(Calls)
    BY DEF SInv, VoteInv, NoAnswer
  <2>2. asked # Len(Calls)
    <3> DEFINE n == Len(Calls)
    <3>1. n \in Nat /\ asked \in Int /\ asked < n
      BY <2>1, CallsAre
    <3> HIDE DEF n
    <3>2. asked # n
      BY <3>1
    <3> QED
      BY <3>2 DEF n
  <2> QED
    BY <2>2 DEF SInv, VoteInv
<1>2. VoteInv'
  <2>1. /\ asked \in 0 .. Len(Calls) /\ forecasts \in Seq(Accepted) /\ Len(forecasts) <= asked
        /\ asked < Len(Calls) /\ asked' = asked + 1
        /\ UNCHANGED <<market, forecasts, consensus>>
    BY DEF SInv, VoteInv, NoAnswer
  <2>2. Len(forecasts) \in Nat
    BY <2>1
  <2>3. asked' \in 0 .. Len(Calls) /\ Len(forecasts') <= asked'
    BY <2>1, <2>2, CallsAre
  <2> QED
    BY <1>1, <2>1, <2>3 DEF SInv, VoteInv
<1>3. OrderInv'
  BY DEF SInv, OrderInv, NoAnswer
<1> QED
  BY <1>2, <1>3 DEF SInv

LEMMA AnswerKeeps ==
  ASSUME SInv, NEW a \in Answers, Answer(a)
  PROVE  SInv'
<1> DEFINE f == NormalizePrices([a EXCEPT !.target = ParseTarget(a)], Price, market.atr,
                                market.cent)
           g == [f EXCEPT !.model = Calls[asked + 1]]
<1>1. consensus = NoConsensus /\ asked \in Nat /\ asked + 1 \in 1 .. Len(Calls)
  BY CallsAre DEF SInv, VoteInv, Answer
<1>2. market.atr \in Nat /\ market.cent \in Nat \ {0}
  BY SituationsAssumption DEF SituationsAssumption, SInv, VoteInv
<1>3. Calls[asked + 1] \in Called
  BY <1>1 DEF Called
<1>4. ValidSignal(f, Price) => g \in Accepted /\ Sound(g)
  BY <1>2, <1>3, AnswerIsSound
<1>5. /\ asked < Len(Calls) /\ asked' = asked + 1
      /\ forecasts' = IF ValidSignal(f, Price) THEN Append(forecasts, g) ELSE forecasts
      /\ UNCHANGED <<market, consensus, ordered, equity, stored, sent, outcome>>
  BY DEF Answer
<1> HIDE DEF f, g
<1>6. VoteInv'
  <2>1. forecasts \in Seq(Accepted) /\ Len(forecasts) <= asked /\ Len(forecasts) \in Nat
        /\ \A i \in DOMAIN forecasts : Sound(forecasts[i])
    BY DEF SInv, VoteInv
  <2>2. /\ forecasts' \in Seq(Accepted) /\ Len(forecasts') <= asked'
        /\ \A i \in DOMAIN forecasts' : Sound(forecasts'[i])
    <3>1. CASE ValidSignal(f, Price)
      <4>1. forecasts' = Append(forecasts, g) /\ g \in Accepted /\ Sound(g)
        BY <1>4, <1>5, <3>1
      <4>2. forecasts' \in Seq(Accepted) /\ Len(forecasts') = Len(forecasts) + 1
        BY <2>1, <4>1
      <4>3. ASSUME NEW i \in DOMAIN forecasts' PROVE Sound(forecasts'[i])
        <5>1. \/ i = Len(forecasts) + 1 /\ forecasts'[i] = g
              \/ i \in DOMAIN forecasts /\ forecasts'[i] = forecasts[i]
          BY <2>1, <4>1
        <5> QED
          BY <2>1, <4>1, <5>1
      <4>4. Len(forecasts') <= asked'
        BY <1>1, <1>5, <2>1, <4>2
      <4> QED
        BY <4>2, <4>3, <4>4
    <3>2. CASE ~ValidSignal(f, Price)
      <4>1. forecasts' = forecasts
        BY <1>5, <3>2
      <4>2. Len(forecasts) <= asked'
        BY <1>1, <1>5, <2>1
      <4> QED
        BY <2>1, <4>1, <4>2
    <3> QED
      BY <3>1, <3>2
  <2>3. asked' \in 0 .. Len(Calls) /\ market' \in Situations /\ consensus' = NoConsensus
    BY <1>1, <1>5 DEF SInv, VoteInv
  <2> QED
    BY <2>2, <2>3 DEF VoteInv
<1>7. OrderInv'
  BY <1>5 DEF SInv, OrderInv
<1> QED
  BY <1>6, <1>7 DEF SInv

LEMMA VoteKeeps ==
  ASSUME SInv, Vote
  PROVE  SInv'
<1> DEFINE c == CalculateConsensus(forecasts, Price, LoadSettings(market.regime), market.fine)
<1>1. /\ asked = Len(Calls) /\ consensus = NoConsensus /\ outcome = ""
      /\ UNCHANGED <<market, asked, forecasts, ordered, equity, stored, sent>>
      /\ \/ outcome' = "no forecast" /\ consensus' = consensus
         \/ consensus' = c /\ outcome' = IF c.signal = "NEUTRAL" THEN "neutral" ELSE ""
  BY DEF Vote
<1> HIDE DEF c
<1>2. VoteInv'
  <2>1. consensus' # NoConsensus =>
          consensus' = CalculateConsensus(forecasts', Price, LoadSettings(market'.regime),
                                           market'.fine)
    BY <1>1 DEF c
  <2> QED
    BY <1>1, <2>1 DEF SInv, VoteInv
<1>3. OrderInv'
  <2>1. consensus' # NoConsensus /\ outcome' = "" => consensus'.signal # "NEUTRAL"
    BY <1>1
  <2>2. outcome' # "order invalid"
    BY <1>1
  <2> QED
    BY <1>1, <2>1, <2>2 DEF SInv, OrderInv
<1> QED
  BY <1>2, <1>3 DEF SInv

\* submit_signal, which refuses levels an order cannot be sized with.
LEMMA SubmitSignalKeeps ==
  ASSUME SInv, NEW l, l.entry \in Nat, l.stop \in Nat, l.target \in Int, DOMAIN l = Levels, NEW balance \in Equities, NEW middle,
         SubmitSignal(l, balance, middle)
  PROVE  SInv'
<1> DEFINE order == NormalizeOrder(PositionSize(balance, l.entry, l.stop, Risk), l, Instrument)
<1>1. /\ stored = NoOrder /\ ordered' = l /\ equity' = balance
      /\ UNCHANGED <<market, asked, forecasts, consensus, sent>>
      /\ \/ outcome' \in {"no price", "below minimum", "slippage"} /\ stored' = NoOrder
         \/ /\ l.entry # Absent \/ l.stop # Absent
            /\ order.qty # 0 /\ stored' = order /\ outcome' = ""
  BY DEF SubmitSignal
<1>2. balance \in Nat
  BY RiskAssumption DEF RiskAssumption
<1>3. ASSUME l.entry # Absent \/ l.stop # Absent PROVE Sizable(l) /\ order.qty \in Nat
  <2>3. Sizable(l)
    BY <1>3 DEF Sizable
  <2>1. PICK n \in Nat, d \in Nat \ {0} : PositionSize(balance, l.entry, l.stop, Risk) = <<n, d>>
    BY <1>2, <2>3, SizeIs
  <2>2. l.entry \in Int /\ l.stop \in Int /\ l.target \in Int
    OBVIOUS
  <2>4. NormalizeOrder(<<n, d>>, l, Instrument).qty \in Nat
    BY <2>2, NormalizedIs
  <2> QED
    BY <2>1, <2>3, <2>4
<1>4. VoteInv'
  BY <1>1 DEF SInv, VoteInv
<1>5. OrderInv'
  <2>1. sent = NoOrder
    BY <1>1 DEF SInv, OrderInv
  <2>2. CASE outcome' \in {"no price", "below minimum", "slippage"} /\ stored' = NoOrder
    BY <1>1, <1>2, <2>1, <2>2 DEF OrderInv
  <2>3. CASE /\ l.entry # Absent \/ l.stop # Absent
             /\ order.qty # 0 /\ stored' = order /\ outcome' = ""
    <3>1. stored'.qty > 0 /\ stored' # NoOrder
      <4> HIDE DEF order
      <4>1. stored' = order /\ order.qty > 0
        <5>1. stored' = order /\ order.qty # 0 /\ order.qty \in Nat
          BY <1>3, <2>3
        <5> QED
          BY <5>1
      <4>2. order # NoOrder
        BY <4>1 DEF NoOrder
      <4> QED
        BY <4>1, <4>2
    <3>2. stored' = NormalizeOrder(PositionSize(equity', ordered'.entry, ordered'.stop, Risk),
                                   ordered', Instrument)
      BY <1>1, <2>3
    <3>3. Sizable(ordered')
      BY <1>1, <1>3, <2>3
    <3> QED
      BY <1>1, <1>2, <2>1, <2>3, <3>1, <3>2, <3>3 DEF OrderInv
  <2> HIDE DEF order
  <2> QED
    BY <1>1, <2>2, <2>3
<1> QED
  BY <1>4, <1>5 DEF SInv

LEMMA ActivateOrderKeeps ==
  ASSUME SInv, NEW balance \in Equities, NEW middle, ActivateConsensusOrder(balance, middle)
  PROVE  SInv'
<1>1. /\ consensus # NoConsensus /\ outcome = ""
      /\ SubmitSignal(consensus.levels, balance, middle)
  BY DEF ActivateConsensusOrder
<1>2. stored = NoOrder
  BY <1>1 DEF SubmitSignal
<1>3. consensus.signal # "NEUTRAL"
  BY <1>1, <1>2 DEF SInv, OrderInv
<1>4. consensus = CalculateConsensus(forecasts, Price, LoadSettings(market.regime), market.fine)
  BY <1>1 DEF SInv, VoteInv
<1>5. /\ consensus.levels.entry \in Nat /\ consensus.levels.stop \in Nat
      /\ consensus.levels.target \in Int /\ DOMAIN consensus.levels = Levels
  BY <1>3, <1>4, RunConsensus
<1> QED
  BY <1>1, <1>5, SubmitSignalKeeps

LEMMA PlaceKeeps ==
  ASSUME SInv, Place
  PROVE  SInv'
<1>1. stored # NoOrder
  BY DEF Place
<1>2. /\ equity \in Nat /\ Sizable(ordered) /\ stored.qty > 0
      /\ stored = NormalizeOrder(PositionSize(equity, ordered.entry, ordered.stop, Risk),
                                 ordered, Instrument)
  BY <1>1 DEF SInv, OrderInv
<1>3. PICK n \in Nat, d \in Nat \ {0} :
        PositionSize(equity, ordered.entry, ordered.stop, Risk) = <<n, d>>
  BY <1>2, SizeIs
<1>4. ordered.entry \in Int /\ ordered.stop \in Int /\ ordered.target \in Int
  BY <1>2 DEF Sizable
<1>5. stored = NormalizeOrder(<<n, d>>, ordered, Instrument)
  BY <1>2, <1>3
<1>6. NormalizeOrder(<<stored.qty, 1>>, stored, Instrument) = stored
  BY <1>2, <1>4, <1>5, NormalizedIs
<1>7. /\ outcome' = "sent" /\ sent' = stored
      /\ UNCHANGED <<market, asked, forecasts, consensus, ordered, equity, stored>>
  <2>1. stored.qty # 0
    <3>1. stored.qty \in Nat
      BY <1>4, <1>5, NormalizedIs
    <3> QED
      BY <1>2, <3>1
  <2> QED
    BY <1>6, <2>1 DEF Place
<1>8. VoteInv'
  BY <1>7 DEF SInv, VoteInv
<1>9. OrderInv'
  BY <1>7 DEF SInv, OrderInv
<1> QED
  BY <1>8, <1>9 DEF SInv

LEMMA ManualKeeps ==
  ASSUME SInv, NEW r \in Requests, NEW balance \in Equities, NEW middle,
         ManualSubmit(r, balance, middle)
  PROVE  SInv'
<1> DEFINE l == Wanted(r)
           refusal == Refusal(r, l)
<1>1. /\ consensus # NoConsensus /\ stored = NoOrder
      /\ IF refusal # ""
         THEN /\ outcome' = refusal
              /\ UNCHANGED <<market, asked, forecasts, consensus, ordered, equity, stored, sent>>
         ELSE SubmitSignal(l, balance, middle)
  BY DEF ManualSubmit
<1>2. refusal \in {"manual neutral", "manual low confidence", "manual rejected",
                   "manual missing levels", "manual no capital", "manual size", ""}
  BY DEF Refusal
<1>3. consensus = CalculateConsensus(forecasts, Price, LoadSettings(market.regime), market.fine)
  BY <1>1 DEF SInv, VoteInv
<1>4. CASE refusal # ""
  <2>1. /\ outcome' # "" /\ outcome' # "order invalid"
        /\ UNCHANGED <<market, asked, forecasts, consensus, ordered, equity, stored, sent>>
    BY <1>1, <1>2, <1>4
  <2>2. VoteInv'
    BY <2>1 DEF SInv, VoteInv
  <2>3. OrderInv'
    BY <2>1 DEF SInv, OrderInv
  <2> QED
    BY <2>2, <2>3 DEF SInv
<1>5. CASE refusal = ""
  <2>1. SubmitSignal(l, balance, middle)
    BY <1>1, <1>5
  <2>2. /\ consensus.signal # "NEUTRAL"
        /\ Sized(r, SizingEntry(r, l), l.stop) # 0
    BY <1>5 DEF Refusal
  <2>3. consensus.levels.stop \in Nat /\ consensus.levels.target \in Int
    BY <1>3, <2>2, RunConsensus
  <2>4. DOMAIN l = Levels /\ l.entry = r.entry
        /\ l.stop \in {r.stop, consensus.levels.stop}
        /\ l.target \in {r.target, consensus.levels.target}
    BY DEF Wanted, Levels
  <2>5. l.entry \in Int /\ l.stop \in Int /\ l.target \in Int
    <3>1. r.entry \in Int /\ r.stop \in Int /\ r.target \in Int
      BY RequestsAssumption DEF RequestsAssumption
    <3> HIDE DEF l
    <3> QED
      BY <2>3, <2>4, <3>1
  <2>6. ~(l.stop <= 0) /\ ~(SizingEntry(r, l) <= 0)
    BY <2>2 DEF Sized
  <2>7. l.entry # Absent => l.entry > 0
    <3>1. l.entry # Absent => SizingEntry(r, l) = l.entry
      BY DEF SizingEntry
    <3> HIDE DEF l
    <3> QED
      BY <2>5, <2>6, <3>1
  <2>8. l.entry \in Nat /\ l.stop \in Nat
    <3> HIDE DEF l
    <3> QED
      BY <2>5, <2>6, <2>7 DEF Absent
  <2> HIDE DEF l
  <2> QED
    BY <2>1, <2>4, <2>5, <2>8, SubmitSignalKeeps
<1> QED
  BY <1>4, <1>5

LEMMA SignalKeeps ==
  ASSUME SInv, [ManualNext]_signalVars
  PROVE  SInv'
<1>1. CASE UNCHANGED signalVars
  BY <1>1 DEF SInv, VoteInv, OrderInv, signalVars
<1>2. CASE NoAnswer
  BY <1>2, NoAnswerKeeps
<1>3. CASE \E a \in Answers : Answer(a)
  BY <1>3, AnswerKeeps
<1>4. CASE Vote
  BY <1>4, VoteKeeps
<1>5. CASE \E e \in Equities, m \in Middles : ActivateConsensusOrder(e, m)
  BY <1>5, ActivateOrderKeeps
<1>6. CASE Place
  BY <1>6, PlaceKeeps
<1>7. CASE \E r \in Requests, e \in Equities, m \in Middles : ManualSubmit(r, e, m)
  BY <1>7, ManualKeeps
<1> QED
  BY <1>1, <1>2, <1>3, <1>4, <1>5, <1>6, <1>7 DEF ManualNext, SignalNext

LEMMA SignalAlways == ManualSpec => []SInv
<1>1. SignalInit => SInv
  BY SignalStarts
<1>2. SInv /\ [ManualNext]_signalVars => SInv'
  BY SignalKeeps
<1> QED
  BY <1>1, <1>2, PTL DEF ManualSpec

-----------------------------------------------------------------------------
(* The invariants of the runs.                                              *)

LEMMA SignalTypes ==
  ASSUME SInv
  PROVE  SignalType
<1>1. /\ market \in Situations /\ asked \in 0 .. Len(Calls) /\ Len(forecasts) <= asked
      /\ forecasts \in Seq(Accepted)
      /\ equity \in Nat /\ DOMAIN ordered = DOMAIN NoLevels
  BY DEF SInv, VoteInv, OrderInv, Levels, NoLevels
<1>2. ASSUME NEW i \in DOMAIN forecasts PROVE forecasts[i].side \in Sides
  <2>1. forecasts[i] \in Accepted
    BY <1>1, SeqDomain
  <2> QED
    BY <2>1 DEF Accepted
<1>3. consensus # NoConsensus => /\ consensus.signal \in Sides
                                 /\ consensus.included \subseteq DOMAIN forecasts
  BY RunConsensus DEF SInv, VoteInv
<1>4. stored.qty \in Nat
  <2>1. CASE stored = NoOrder
    BY <2>1 DEF NoOrder
  <2>2. CASE stored # NoOrder
    <3>1. /\ Sizable(ordered)
          /\ stored = NormalizeOrder(PositionSize(equity, ordered.entry, ordered.stop, Risk),
                                     ordered, Instrument)
      BY <2>2 DEF SInv, OrderInv
    <3>2. PICK n \in Nat, d \in Nat \ {0} :
            PositionSize(equity, ordered.entry, ordered.stop, Risk) = <<n, d>>
      BY <1>1, <3>1, SizeIs
    <3>3. ordered.entry \in Int /\ ordered.stop \in Int /\ ordered.target \in Int
      BY <3>1 DEF Sizable
    <3>4. NormalizeOrder(<<n, d>>, ordered, Instrument).qty \in Nat
      BY <3>3, NormalizedIs
    <3> QED
      BY <3>1, <3>2, <3>4
  <2> QED
    BY <2>1, <2>2
<1>5. sent.qty \in Nat
  <2>1. sent = NoOrder \/ sent = stored
    BY DEF SInv, OrderInv
  <2>2. NoOrder.qty \in Nat
    BY DEF NoOrder
  <2> QED
    BY <1>4, <2>1, <2>2
<1> QED
  BY <1>1, <1>2, <1>3, <1>4, <1>5 DEF SignalType

\* The winners of a directed consensus, and their levels.
LEMMA Winners ==
  ASSUME SInv, Directed, NEW settings, settings = LoadSettings(market.regime),
         NEW kept, kept = Counted(forecasts, Price, settings),
         NEW W, W = OfSide(forecasts, kept, consensus.signal)
  PROVE  /\ settings.threshold \in Int /\ settings.minModels \in Nat \ {0}
         /\ W \in SUBSET DOMAIN forecasts /\ W # {} /\ IsFiniteSet(W)
         /\ \A i \in W : forecasts[i].side = consensus.signal
         /\ consensus.signal \in {"LONG", "SHORT"}
         /\ consensus.levels = LevelsOf(forecasts, W, market.fine)
         /\ WeightOf(forecasts, kept) \in Nat \ {0} /\ WeightOf(forecasts, W) \in Nat
         /\ settings.threshold <= Share(forecasts, kept, consensus.signal)
         /\ settings.minModels <= Cardinality(ModelsOf(forecasts, W))
<1>1. /\ consensus # NoConsensus /\ consensus.signal # "NEUTRAL"
      /\ consensus = CalculateConsensus(forecasts, Price, settings, market.fine)
      /\ forecasts \in Seq(Accepted)
  BY DEF Directed, SInv, VoteInv
<1>2. market.regime \in DOMAIN Overrides
  BY SituationsAssumption DEF SituationsAssumption, SInv, VoteInv
<1>3. settings.threshold \in Int /\ settings.minModels \in Nat \ {0}
  BY <1>2, SettingsAre
<1>4. /\ consensus.signal \in Sides /\ W # {}
      /\ consensus.levels = LevelsOf(forecasts, W, market.fine)
      /\ WeightOf(forecasts, kept) # 0
      /\ settings.threshold <= Share(forecasts, kept, consensus.signal)
      /\ settings.minModels <= Cardinality(ModelsOf(forecasts, W))
  BY <1>1, <1>3, ConsensusIs
<1>5. consensus.signal \in {"LONG", "SHORT"}
  BY <1>1, <1>4 DEF Sides
<1>6. W \in SUBSET DOMAIN forecasts /\ \A i \in W : forecasts[i].side = consensus.signal
  BY DEF Counted, OfSide
<1>7. IsFiniteSet(W)
  BY <1>1, <1>6, SeqDomain, FS_Subset
<1>8. WeightOf(forecasts, kept) \in Nat /\ WeightOf(forecasts, W) \in Nat
  <2>1. CASE consensus.signal = "LONG"
    BY <1>1, <2>1, VoteWeights
  <2>2. CASE consensus.signal = "SHORT"
    BY <1>1, <2>2, VoteWeights
  <2> QED
    BY <1>5, <2>1, <2>2
<1> QED
  BY <1>3, <1>4, <1>5, <1>6, <1>7, <1>8

LEMMA TradeFollows ==
  ASSUME SInv
  PROVE  TradeIsSound
<1> SUFFICES ASSUME Directed PROVE StopProtects /\ TargetAhead /\ RewardCoversRisk
  BY SignalTypes DEF TradeIsSound, StopProtects, TargetAhead, RewardCoversRisk
<1> DEFINE settings == LoadSettings(market.regime)
           kept == Counted(forecasts, Price, settings)
           W == OfSide(forecasts, kept, consensus.signal)
           l == consensus.levels
<1>1. /\ W \in SUBSET DOMAIN forecasts /\ W # {}
      /\ \A i \in W : forecasts[i].side = consensus.signal
      /\ consensus.signal \in {"LONG", "SHORT"}
      /\ l = LevelsOf(forecasts, W, market.fine)
  BY Winners
<1> HIDE DEF W
<1>2. forecasts \in Seq(Accepted) /\ \A i \in DOMAIN forecasts : Sound(forecasts[i])
  BY DEF SInv, VoteInv
<1>3. NoText => \A i \in W : forecasts[i].text = <<>>
  BY <1>1 DEF NoText
<1>4. (\A i \in DOMAIN forecasts : forecasts[i].side # "NEUTRAL" => forecasts[i].entry = Price)
        => \A i \in W : forecasts[i].entry = Price
  BY <1>1
<1>7. market.fine \in Nat \ {0}
  BY SituationsAssumption DEF SituationsAssumption, SInv, VoteInv
<1>8. Slack = market.fine \div 2 /\ Slack \in Nat
  BY <1>7 DEF Slack
<1>9. ASSUME NEW i \in W
      PROVE  /\ forecasts[i].entry \in Int /\ forecasts[i].stop \in Int
             /\ consensus.signal = "LONG" => forecasts[i].stop < forecasts[i].entry
             /\ consensus.signal = "SHORT" => forecasts[i].entry < forecasts[i].stop
  <2>1. forecasts[i] \in Accepted /\ Sound(forecasts[i]) /\ forecasts[i].side = consensus.signal
    BY <1>1, <1>2, SeqDomain
  <2> QED
    BY <2>1 DEF Accepted, Sound
<1> DEFINE AtMarket == \A i \in DOMAIN forecasts :
                         forecasts[i].side # "NEUTRAL" => forecasts[i].entry = Price
<1>5. CASE consensus.signal = "LONG"
  <2>7. Apart => \A i \in W : forecasts[i].entry - forecasts[i].stop > Slack
    BY <1>1, <1>5, <1>8, <1>9 DEF Apart, Distance
  <2>1. /\ l.entry \in Nat /\ l.stop \in Nat
        /\ l.stop <= l.entry /\ l.entry <= 2 * Price + Slack
        /\ Apart => l.stop < l.entry
        /\ NoText => /\ l.target \in Nat /\ l.entry <= l.target
                     /\ Apart => l.entry < l.target
                     /\ AtMarket => 2 * (l.target - l.entry) + 10 * Slack >= 3 * (l.entry - l.stop)
    BY <1>1, <1>2, <1>3, <1>4, <1>5, <1>7, <1>8, <2>7, LongTrade
  <2> HIDE DEF l, AtMarket
  <2>2. NoText => l.target >= l.entry /\ (Apart => l.target # l.entry)
    BY <2>1
  <2>3. NoText => /\ Distance(l.target, l.entry) = l.target - l.entry
                  /\ Distance(l.entry, l.stop) = l.entry - l.stop
    BY <2>1 DEF Distance
  <2>8. Apart => l.stop # l.entry
    BY <2>1
  <2>4. StopProtects
    BY <1>5, <2>1, <2>8 DEF StopProtects, l
  <2>5. TargetAhead
    BY <1>5, <2>2 DEF TargetAhead, l
  <2>6. RewardCoversRisk
    BY <2>1, <2>3 DEF RewardCoversRisk, l, AtMarket
  <2> QED
    BY <2>4, <2>5, <2>6
<1>6. CASE consensus.signal = "SHORT"
  <2>7. Apart => \A i \in W : forecasts[i].stop - forecasts[i].entry > Slack
    BY <1>1, <1>6, <1>8, <1>9 DEF Apart, Distance
  <2>1. /\ l.entry \in Nat /\ l.stop \in Nat
        /\ l.entry <= l.stop /\ l.entry >= 2 * Price - Slack
        /\ Apart => l.entry < l.stop
        /\ NoText => /\ l.target \in Nat /\ l.target <= l.entry
                     /\ Apart => l.target < l.entry
                     /\ AtMarket => 2 * (l.entry - l.target) + 10 * Slack >= 3 * (l.stop - l.entry)
    BY <1>1, <1>2, <1>3, <1>4, <1>6, <1>7, <1>8, <2>7, ShortTrade
  <2> HIDE DEF l, AtMarket
  <2>2. l.stop >= l.entry /\ (Apart => l.stop # l.entry)
    BY <2>1
  <2>9. NoText /\ Apart => l.target # l.entry
    BY <2>1
  <2>3. NoText => /\ Distance(l.target, l.entry) = l.entry - l.target
                  /\ Distance(l.entry, l.stop) = l.stop - l.entry
    BY <2>1 DEF Distance
  <2>4. StopProtects
    BY <1>6, <2>1, <2>2 DEF StopProtects, l
  <2>5. TargetAhead
    BY <1>6, <2>1, <2>9 DEF TargetAhead, l
  <2>6. RewardCoversRisk
    BY <2>1, <2>3 DEF RewardCoversRisk, l, AtMarket
  <2> QED
    BY <2>4, <2>5, <2>6
<1> QED
  BY <1>1, <1>5, <1>6

LEMMA VoteFollows ==
  ASSUME SInv
  PROVE  VoteIsFair
<1> DEFINE settings == LoadSettings(market.regime)
           kept == Counted(forecasts, Price, settings)
           W == OfSide(forecasts, kept, consensus.signal)
<1>1. forecasts \in Seq(Accepted) /\ market.regime \in DOMAIN Overrides
  BY SituationsAssumption DEF SituationsAssumption, SInv, VoteInv
<1>2. StrictMajority
  <2> SUFFICES ASSUME Directed
               PROVE  /\ settings.threshold > 500 =>
                            2 * WeightOf(forecasts, W) > WeightOf(forecasts, kept)
                      /\ settings.minModels >= 2 =>
                            \E i, j \in W : forecasts[i].model # forecasts[j].model
    BY DEF StrictMajority
  <2>1. /\ settings.threshold \in Int /\ settings.minModels \in Nat \ {0}
        /\ W \in SUBSET DOMAIN forecasts /\ IsFiniteSet(W)
        /\ WeightOf(forecasts, kept) \in Nat \ {0} /\ WeightOf(forecasts, W) \in Nat
        /\ settings.threshold <= Share(forecasts, kept, consensus.signal)
        /\ settings.minModels <= Cardinality(ModelsOf(forecasts, W))
    BY Winners
  <2>2. Share(forecasts, kept, consensus.signal)
          = RoundRatio(1000 * WeightOf(forecasts, W), WeightOf(forecasts, kept))
    BY <2>1 DEF Share
  <2> DEFINE w == WeightOf(forecasts, W)
             all == WeightOf(forecasts, kept)
             share == RoundRatio(1000 * w, all)
             least == settings.minModels
             models == Cardinality(ModelsOf(forecasts, W))
  <2>3. ASSUME settings.threshold > 500 PROVE 2 * w > all
    <3>1. w \in Nat /\ all \in Nat \ {0}
      BY <2>1
    <3>2. settings.threshold \in Int /\ settings.threshold <= share
      BY <2>1, <2>2
    <3> HIDE DEF w, all, settings
    <3>3. share \in Nat /\ (share > 500 => 2 * w > all)
      BY <3>1, RoundedShare
    <3> HIDE DEF share
    <3> QED
      BY <2>3, <3>2, <3>3
  <2>4. ASSUME settings.minModels >= 2
        PROVE  \E i, j \in W : forecasts[i].model # forecasts[j].model
    <3>1. models \in Nat
      BY <2>1, ModelsCounted
    <3>2. least \in Nat /\ least >= 2 /\ least <= models
      BY <2>1, <2>4
    <3> HIDE DEF models, least, W
    <3>3. 2 <= models
      BY <3>1, <3>2
    <3> QED
      BY <2>1, <3>3, TwoModels DEF models
  <2> QED
    BY <2>3, <2>4
<1>3. MirrorSymmetric
  <2> SUFFICES ASSUME consensus # NoConsensus, settings.threshold > 500,
                      (2 * Price) % market.fine = 0,
                      \A i \in DOMAIN forecasts : Reflectable(forecasts[i], Slack)
               PROVE  IsMirrored(CalculateConsensus(Reflected(forecasts), Price, settings, market.fine), consensus)
    BY DEF MirrorSymmetric, Reflectable, IsMirrored
  <2>3. market.fine \in Nat \ {0} /\ Slack = market.fine \div 2
    BY SituationsAssumption DEF SituationsAssumption, SInv, VoteInv, Slack
  <2>1. consensus = CalculateConsensus(forecasts, Price, settings, market.fine)
    BY DEF SInv, VoteInv
  <2>2. settings.threshold \in Int
    BY <1>1, SettingsAre
  <2> HIDE DEF settings
  <2> QED
    BY <1>1, <2>1, <2>2, <2>3, MirrorConsensus
<1> QED
  BY <1>2, <1>3 DEF VoteIsFair

LEMMA OrderFollows ==
  ASSUME SInv
  PROVE  OrderIsSound
<1>1. RiskWithinBudget
  <2> SUFFICES ASSUME stored # NoOrder, stored.qty > Risk.minQty, ordered.entry # Absent,
                      Distance(ordered.entry, ordered.stop) >= Instrument.tick, Risk.leverage >= 2
               PROVE  100 * stored.qty * Distance(stored.entry, stored.stop) <= equity * Risk.pct
    BY DEF RiskWithinBudget
  <2>1. /\ equity \in Nat /\ Sizable(ordered)
        /\ stored = NormalizeOrder(PositionSize(equity, ordered.entry, ordered.stop, Risk),
                                   ordered, Instrument)
    BY DEF SInv, OrderInv
  <2> QED
    BY <2>1, RiskIs
<1>2. SentAsStored
  BY DEF SentAsStored, SInv, OrderInv
<1> QED
  BY <1>1, <1>2 DEF OrderIsSound

\* A directed consensus is a trade worth its risk: its stop is on the losing
\* side, its target ahead, its reward one and a half times its risk
\* (calculate_consensus over what validate_signal_rr accepts).
THEOREM TradeSound == ManualSpec => []TradeIsSound
BY SignalAlways, TradeFollows, PTL

\* The vote is that of a majority, of two models where two have to agree, and
\* treats LONG and SHORT alike (calculate_consensus).
THEOREM VoteFair == ManualSpec => []VoteIsFair
BY SignalAlways, VoteFollows, PTL

\* What the instrument's filters leave of an order risks no more than it was
\* sized for, and the exchange gets what the order row says (submit_signal,
\* normalize_order_params, place_order).
THEOREM OrderSound == ManualSpec => []OrderIsSound
BY SignalAlways, OrderFollows, PTL

-----------------------------------------------------------------------------
(* The price table and the tasks that keep it.                             *)

\* The bar of a day is there and whole, or was put back by a slow task.
Filled(d) == d \in Stored /\ (Complete(d) \/ table[d].late)

HeldKnown ==
  /\ DOMAIN held = Tasks /\ DOMAIN stage = Tasks
  /\ \A w \in Tasks :
       /\ stage[w] \in {"idle", "read", "stored"}
       /\ stage[w] = "idle" => held[w] = <<>>
       /\ stage[w] # "idle" =>
            /\ DOMAIN held[w] \subseteq 0 .. now /\ DOMAIN held[w] # {}
            /\ \A d \in DOMAIN held[w] : held[w][d] \in d .. now

\* What a task has read leaves a day out, or has it unfinished, only if the table
\* has it or the later bars were fetched Short days after it.
HeldIsFounded ==
  \A w \in Tasks : stage[w] = "read" =>
    \A e \in DOMAIN held[w] : \A d \in 0 .. e - 1 :
      \/ d \in DOMAIN held[w] /\ held[w][d] > d
      \/ Filled(d)
      \/ held[w][e] >= d + Short

\* As long as no other task has stored, a task holds the newest bars there are.
HeldIsNewest ==
  \A w \in Tasks : stage[w] # "idle" /\ w \notin behind =>
    \A d \in Stored :
      /\ d \in DOMAIN held[w] => held[w][d] >= table[d].seen
      /\ \E e \in DOMAIN held[w] : d =< e

\* GapOnlyAfterPause without its lower end.
GapsAreOld ==
  \A e \in Stored : \A d \in 0 .. e - 1 : Filled(d) \/ table[e].seen >= d + Short

\* What a forecast was made from is a history.
ViewKnown ==
  view # NoView =>
    /\ DOMAIN view.bars \subseteq 0 .. MaxNow /\ DOMAIN view.bars # {}
    /\ \A d \in DOMAIN view.bars : view.bars[d] \in Nat

RobotsKnown == DOMAIN robot = Robots

HInv ==
  /\ HistoryTypeOK /\ HeldKnown /\ HeldIsFounded /\ HeldIsNewest /\ GapsAreOld
  /\ ViewIsRecent /\ ViewKnown /\ RobotsKnown /\ RunningIsWorking

-----------------------------------------------------------------------------
(* Reading.                                                                *)

\* The newest bars of some are there and include the last of all.
LEMMA NewestHasLast ==
  ASSUME NEW m \in Nat, NEW S \in SUBSET (0 .. m), S # {}, NEW n \in Nat \ {0}
  PROVE  Max(S) \in Newest(S, n)
<1>1. Max(S) \in S /\ \A j \in S : j =< Max(S)
  BY MaxIsGreatest
<1>2. {e \in S : e > Max(S)} = {}
  <2> DEFINE last == Max(S)
  <2>1. last \in S /\ \A j \in S : j =< last
    BY <1>1
  <2> HIDE DEF last
  <2>2. \A j \in S : ~(j > last)
    <3>1. \A j \in S : j \in Nat
      OBVIOUS
    <3> QED
      BY <2>1, <3>1
  <2>3. {e \in S : e > last} = {}
    BY <2>2
  <2> QED
    BY <2>3 DEF last
<1>3. Cardinality({e \in S : e > Max(S)}) = 0
  BY <1>2, FS_EmptySet
<1> QED
  BY <1>1, <1>3 DEF Newest

LEMMA Windows ==
  /\ Long \in Nat \ {0} /\ Short \in Nat \ {0} /\ Least \in Nat \ {0}
  /\ Margin \in Nat \ {0} /\ StaleDays \in Nat \ {0}
  /\ Start \in Nat /\ MaxNow \in Nat /\ MaxFailures \in Nat
  /\ Short =< Long /\ Start =< MaxNow
BY HistoryAssumption DEF HistoryAssumption

USE Windows

LEMMA FetchedIs ==
  ASSUME now \in Nat, NEW n \in Nat \ {0}
  PROVE  /\ DOMAIN Fetched(n) = {e \in 0 .. now : e > now - n}
         /\ now \in DOMAIN Fetched(n)
         /\ \A d \in DOMAIN Fetched(n) : Fetched(n)[d] = now
BY DEF Fetched

LEMMA ReadKeeps ==
  ASSUME HInv, NEW w \in Tasks, stage[w] = "idle", NEW n \in Nat \ {0}, Read(w, n),
         \A d \in 0 .. now - n : Filled(d) \/ now >= d + Short,
         UNCHANGED <<now, table, behind>>
  PROVE  /\ HeldKnown' /\ HeldIsFounded' /\ HeldIsNewest'
         /\ failures' \in 0 .. MaxFailures
         /\ behind' \subseteq {v \in Tasks : stage'[v] # "idle"}
         /\ \A v \in Tasks : (stage'[v] = "idle") = (held'[v] = <<>>)
<1> DEFINE cached == Newest(Stored, n)
<1>0. /\ now \in Nat /\ Stored \subseteq 0 .. now /\ HeldKnown /\ HeldIsFounded /\ HeldIsNewest
      /\ GapsAreOld /\ behind \subseteq {v \in Tasks : stage[v] # "idle"}
      /\ \A d \in Stored : table[d].seen \in 0 .. now /\ table[d].seen >= d
      /\ failures \in 0 .. MaxFailures
      /\ \A v \in Tasks : (stage[v] = "idle") = (held[v] = <<>>)
  BY DEF HInv, HistoryTypeOK
<1>1. CASE UNCHANGED <<held, stage>> /\ failures' \in 0 .. MaxFailures
  BY <1>0, <1>1 DEF HeldKnown, HeldIsFounded, HeldIsNewest, Filled, Stored, Complete
<1>2. ASSUME NEW got, DOMAIN got # {}, DOMAIN got \subseteq 0 .. now,
             \A d \in DOMAIN got : got[d] \in d .. now,
             \A e \in DOMAIN got : \A d \in 0 .. e - 1 :
               (d \in DOMAIN got /\ got[d] > d) \/ Filled(d) \/ got[e] >= d + Short,
             \A d \in Stored : /\ d \in DOMAIN got => got[d] >= table[d].seen
                               /\ \E e \in DOMAIN got : d =< e,
             held' = [held EXCEPT ![w] = got],
             stage' = [stage EXCEPT ![w] = "read"],
             failures' \in 0 .. MaxFailures
      PROVE  /\ HeldKnown' /\ HeldIsFounded' /\ HeldIsNewest'
             /\ failures' \in 0 .. MaxFailures
             /\ behind' \subseteq {v \in Tasks : stage'[v] # "idle"}
             /\ \A v \in Tasks : (stage'[v] = "idle") = (held'[v] = <<>>)
  <2>1. /\ DOMAIN held' = Tasks /\ DOMAIN stage' = Tasks
        /\ held'[w] = got /\ stage'[w] = "read"
        /\ \A v \in Tasks \ {w} : held'[v] = held[v] /\ stage'[v] = stage[v]
    BY <1>0, <1>2 DEF HeldKnown
  <2>2. \A d : Filled(d)' = Filled(d)
    BY DEF Filled, Stored, Complete
  <2>3. got # <<>>
    BY <1>2
  <2>4. HeldKnown'
    BY <1>0, <1>2, <2>1 DEF HeldKnown
  <2>5. HeldIsFounded'
    BY <1>0, <1>2, <2>1, <2>2 DEF HeldIsFounded
  <2>6. HeldIsNewest'
    BY <1>0, <1>2, <2>1 DEF HeldIsNewest, Stored
  <2> QED
    BY <1>0, <1>2, <2>1, <2>3, <2>4, <2>5, <2>6
<1>3. CASE /\ CacheFresh(cached)
           /\ held' = [held EXCEPT ![w] = Seen(table, cached)]
           /\ stage' = [stage EXCEPT ![w] = "read"]
           /\ UNCHANGED failures
  <2> DEFINE got == Seen(table, cached)
  <2>1. cached \subseteq Stored /\ cached # {}
    BY <1>3 DEF CacheFresh, Newest
  <2>2. Max(Stored) \in cached /\ \A d \in Stored : d =< Max(Stored)
    BY <1>0, <2>1, NewestHasLast, MaxIsGreatest
  <2>3. DOMAIN got = cached /\ \A d \in cached : got[d] = table[d].seen
    BY DEF Seen
  <2> HIDE DEF got, cached
  <2>4. \A e \in DOMAIN got : \A d \in 0 .. e - 1 :
          (d \in DOMAIN got /\ got[d] > d) \/ Filled(d) \/ got[e] >= d + Short
    BY <1>0, <2>1, <2>3 DEF GapsAreOld
  <2>5. \A d \in Stored : /\ d \in DOMAIN got => got[d] >= table[d].seen
                          /\ \E e \in DOMAIN got : d =< e
    BY <1>0, <2>2, <2>3
  <2>6. DOMAIN got # {} /\ DOMAIN got \subseteq 0 .. now
        /\ \A d \in DOMAIN got : got[d] \in d .. now
    <3>1. DOMAIN got # {} /\ DOMAIN got \subseteq Stored
      BY <2>1, <2>3
    <3>2. DOMAIN got \subseteq 0 .. now
      BY <1>0, <3>1
    <3>3. ASSUME NEW d \in DOMAIN got PROVE got[d] \in d .. now
      <4>1. got[d] = table[d].seen /\ d \in 0 .. now
        BY <2>3, <3>2
      <4>2. table[d].seen \in 0 .. now /\ table[d].seen >= d
        BY <1>0, <3>1
      <4> QED
        BY <1>0, <4>1, <4>2
    <3> QED
      BY <3>1, <3>2, <3>3
  <2>7. held' = [held EXCEPT ![w] = got]
    BY <1>3 DEF got, cached
  <2> QED
    BY <1>0, <1>2, <1>3, <2>4, <2>5, <2>6, <2>7
<1>4. CASE /\ held' = [held EXCEPT ![w] = Fetched(n)]
           /\ stage' = [stage EXCEPT ![w] = "read"]
           /\ failures' \in 0 .. MaxFailures
  <2> DEFINE got == Fetched(n)
  <2>1. /\ DOMAIN got = {e \in 0 .. now : e > now - n}
        /\ now \in DOMAIN got
        /\ \A d \in DOMAIN got : got[d] = now
    BY <1>0, FetchedIs
  <2> HIDE DEF got
  <2>2. \A e \in DOMAIN got : \A d \in 0 .. e - 1 :
          (d \in DOMAIN got /\ got[d] > d) \/ Filled(d) \/ got[e] >= d + Short
    <3> SUFFICES ASSUME NEW e \in DOMAIN got, NEW d \in 0 .. e - 1, d \notin DOMAIN got
                 PROVE  Filled(d) \/ got[e] >= d + Short
      BY <1>0, <2>1
    <3>1. e \in 0 .. now /\ got[e] = now
      BY <2>1
    <3>2. d \in 0 .. now - n
      BY <1>0, <2>1, <3>1
    <3> QED
      BY <3>1, <3>2
  <2>3. ASSUME NEW d \in Stored
        PROVE  /\ d \in DOMAIN got => got[d] >= table[d].seen
               /\ \E e \in DOMAIN got : d =< e
    <3>1. d \in 0 .. now /\ table[d].seen \in 0 .. now
      BY <1>0
    <3>2. d \in DOMAIN got => got[d] >= table[d].seen
      BY <2>1, <3>1
    <3>3. now \in DOMAIN got /\ d =< now
      BY <2>1, <3>1
    <3> QED
      BY <3>2, <3>3
  <2>4. DOMAIN got # {} /\ DOMAIN got \subseteq 0 .. now
        /\ \A d \in DOMAIN got : got[d] \in d .. now
    <3>1. DOMAIN got # {} /\ DOMAIN got \subseteq 0 .. now
      BY <2>1
    <3>2. now \in Nat
      BY <1>0
    <3>3. \A d \in DOMAIN got : d \in 0 .. now /\ got[d] = now
      BY <2>1, <3>1
    <3> QED
      BY <3>1, <3>2, <3>3
  <2>5. held' = [held EXCEPT ![w] = got]
    BY <1>4 DEF got
  <2> QED
    BY <1>2, <1>4, <2>2, <2>3, <2>4, <2>5
<1>5. failures < MaxFailures /\ failures' = failures + 1 => failures' \in 0 .. MaxFailures
  BY <1>0
<1>6. failures' = failures => failures' \in 0 .. MaxFailures
  BY <1>0
<1> QED
  BY <1>1, <1>3, <1>4, <1>5, <1>6 DEF Read

\* What each reader asks for reaches back far enough.
LEMMA ShortIsEnough ==
  ASSUME now \in Nat, NEW n \in Nat \ {0}, n >= Short
  PROVE  \A d \in 0 .. now - n : Filled(d) \/ now >= d + Short
OBVIOUS

LEMMA BackfillIsEnough ==
  ASSUME HInv, DaysToFetch > 0
  PROVE  /\ DaysToFetch \in Nat \ {0}
         /\ \A d \in 0 .. now - DaysToFetch : Filled(d) \/ now >= d + Short
<1>0. /\ now \in Nat /\ Stored \subseteq 0 .. now /\ GapsAreOld
      /\ \A d \in Stored : table[d].seen \in 0 .. now /\ table[d].seen >= d
  BY DEF HInv, HistoryTypeOK
<1>1. CASE Stored = {}
  BY <1>0, <1>1, ShortIsEnough DEF DaysToFetch
<1>2. CASE Stored # {}
  <2> DEFINE last == Max(Stored)
             request == Max({now - last + Margin, Least})
  <2>1. last \in Stored
    BY <1>0, <1>2, MaxIsGreatest
  <2>2. now - last + Margin \in Nat \ {0} /\ Least \in Nat \ {0}
    <3>1. last \in 0 .. now
      BY <1>0, <2>1
    <3> HIDE DEF last
    <3> QED
      BY <1>0, <3>1
  <2> HIDE DEF last
  <2>3. request \in {now - last + Margin, Least} /\ request >= now - last + Margin
    <3> DEFINE both == {now - last + Margin, Least}
    <3>1. now - last + Margin + Least \in Nat
      BY <2>2
    <3>2. both \in SUBSET (0 .. now - last + Margin + Least) /\ both # {}
      BY <2>2
    <3>3. Max(both) \in both /\ \A j \in both : j =< Max(both)
      BY <3>1, <3>2, MaxIsGreatest
    <3> QED
      BY <2>2, <3>3
  <2>4. DaysToFetch = request
    BY <1>2 DEF DaysToFetch, last
  <2> HIDE DEF request
  <2>5. DaysToFetch \in Nat \ {0} /\ DaysToFetch > now - last
    BY <1>0, <2>1, <2>2, <2>3, <2>4
  <2>6. ASSUME NEW d \in 0 .. now - DaysToFetch PROVE Filled(d) \/ now >= d + Short
    <3>1. d \in 0 .. last - 1
      BY <1>0, <2>1, <2>5
    <3>2. Filled(d) \/ table[last].seen >= d + Short
      BY <1>0, <2>1, <3>1 DEF GapsAreOld
    <3> QED
      BY <1>0, <2>1, <3>2
  <2> QED
    BY <2>5, <2>6
<1> QED
  BY <1>1, <1>2

-----------------------------------------------------------------------------
(* Storing.                                                                *)

LEMMA ReplacedIs ==
  ASSUME NEW w \in Tasks, table' = Replaced(w)
  PROVE  /\ Stored' = Stored \cup DOMAIN held[w]
         /\ \A d \in DOMAIN held[w] :
              ~(d \in Stored /\ table[d].seen = held[w][d]) =>
                table'[d] = [seen |-> held[w][d], late |-> w \in behind]
         /\ \A d \in Stored :
              ~(d \in DOMAIN held[w] /\ table[d].seen # held[w][d]) => table'[d] = table[d]
BY DEF Replaced, Stored

\* The bars that a task puts into the table, and those that stay.
LEMMA StoredKeeps ==
  ASSUME HInv, NEW w \in Tasks, stage[w] = "read", table' = Replaced(w), now' = now
  PROVE  /\ Stored' \subseteq 0 .. now
         /\ \A d \in Stored' : table'[d].seen \in 0 .. now /\ table'[d].seen >= d
                               /\ table'[d].late \in BOOLEAN
         /\ \A d \in DOMAIN held[w] : d \in Stored' /\ table'[d].seen = held[w][d]
         /\ \A d \in Stored' \ DOMAIN held[w] : d \in Stored /\ table'[d] = table[d]
         /\ \A d \in Nat : Filled(d) => Filled(d)'
         /\ GapsAreOld'
<1>0. /\ now \in Nat /\ Stored \subseteq 0 .. now
      /\ \A d \in Stored : table[d].seen \in 0 .. now /\ table[d].seen >= d
                           /\ table[d].late \in BOOLEAN
      /\ DOMAIN held[w] \subseteq 0 .. now
      /\ \A d \in DOMAIN held[w] : held[w][d] \in d .. now
  BY DEF HInv, HistoryTypeOK, HeldKnown
<1>1. /\ Stored' = Stored \cup DOMAIN held[w]
      /\ \A d \in DOMAIN held[w] :
           ~(d \in Stored /\ table[d].seen = held[w][d]) =>
             table'[d] = [seen |-> held[w][d], late |-> w \in behind]
      /\ \A d \in Stored :
           ~(d \in DOMAIN held[w] /\ table[d].seen # held[w][d]) => table'[d] = table[d]
  BY ReplacedIs
<1>2. ASSUME NEW d \in DOMAIN held[w] PROVE d \in Stored' /\ table'[d].seen = held[w][d]
  <2>1. CASE d \in Stored /\ table[d].seen = held[w][d]
    BY <1>1, <2>1
  <2>2. CASE ~(d \in Stored /\ table[d].seen = held[w][d])
    <3>1. table'[d] = [seen |-> held[w][d], late |-> w \in behind]
      BY <1>1, <2>2
    <3> QED
      BY <1>1, <3>1
  <2> QED
    BY <2>1, <2>2
<1>3. \A d \in Stored' \ DOMAIN held[w] : d \in Stored /\ table'[d] = table[d]
  BY <1>1
<1>4. ASSUME NEW d \in Stored'
      PROVE  table'[d].seen \in 0 .. now /\ table'[d].seen >= d /\ table'[d].late \in BOOLEAN
  <2>1. CASE d \in DOMAIN held[w] /\ ~(d \in Stored /\ table[d].seen = held[w][d])
    <3>1. table'[d] = [seen |-> held[w][d], late |-> w \in behind]
      BY <1>1, <2>1
    <3>2. d \in 0 .. now /\ held[w][d] \in d .. now
      BY <1>0, <2>1
    <3> QED
      BY <1>0, <3>1, <3>2
  <2>2. CASE ~(d \in DOMAIN held[w] /\ ~(d \in Stored /\ table[d].seen = held[w][d]))
    <3>1. d \in Stored /\ table'[d] = table[d]
      BY <1>1, <2>2
    <3> QED
      BY <1>0, <3>1
  <2> QED
    BY <2>1, <2>2
<1>5. ASSUME NEW d \in Nat, Filled(d) PROVE Filled(d)'
  <2>0. d \in Stored /\ (table[d].seen > d \/ table[d].late)
    BY <1>5 DEF Filled, Complete
  <2>1. CASE d \in DOMAIN held[w] /\ ~(d \in Stored /\ table[d].seen = held[w][d])
    <3>0. table'[d] = [seen |-> held[w][d], late |-> w \in behind] /\ d \in Stored'
      BY <1>1, <2>1
    <3>1. table'[d].seen = held[w][d] /\ table'[d].late = (w \in behind) /\ d \in Stored'
      BY <3>0
    <3>2. w \notin behind => held[w][d] >= table[d].seen
      BY <2>0, <2>1 DEF HInv, HeldIsNewest
    <3>3. w \notin behind => held[w][d] > d
      BY <1>0, <2>0, <2>1, <3>2
    <3> QED
      BY <3>1, <3>3 DEF Filled, Complete
  <2>2. CASE ~(d \in DOMAIN held[w] /\ ~(d \in Stored /\ table[d].seen = held[w][d]))
    BY <1>1, <2>0, <2>2 DEF Filled, Complete
  <2> QED
    BY <2>1, <2>2
<1>6. GapsAreOld'
  <2> SUFFICES ASSUME NEW e \in Stored', NEW d \in 0 .. e - 1
               PROVE  Filled(d)' \/ table'[e].seen >= d + Short
    BY <1>1 DEF GapsAreOld
  <2>0. d \in Nat
    OBVIOUS
  <2>1. CASE e \in DOMAIN held[w]
    <3>1. \/ d \in DOMAIN held[w] /\ held[w][d] > d
          \/ Filled(d)
          \/ held[w][e] >= d + Short
      BY <2>1 DEF HInv, HeldIsFounded
    <3>2. d \in DOMAIN held[w] /\ held[w][d] > d => Filled(d)'
      BY <1>2 DEF Filled, Complete
    <3> QED
      BY <1>2, <1>5, <2>0, <2>1, <3>1, <3>2
  <2>2. CASE e \notin DOMAIN held[w]
    <3>1. e \in Stored /\ table'[e] = table[e]
      BY <1>3, <2>2
    <3>2. Filled(d) \/ table[e].seen >= d + Short
      BY <3>1 DEF HInv, GapsAreOld
    <3> QED
      BY <1>5, <2>0, <3>1, <3>2
  <2> QED
    BY <2>1, <2>2
<1> QED
  BY <1>0, <1>1, <1>2, <1>3, <1>4, <1>5, <1>6

\* What of HInv a step of a task can disturb.
TInv ==
  /\ HistoryTypeOK /\ HeldKnown /\ HeldIsFounded /\ HeldIsNewest /\ GapsAreOld
  /\ ViewIsRecent /\ ViewKnown

LEMMA StoreKeeps ==
  ASSUME HInv, NEW w \in Tasks, Store(w)
  PROVE  TInv'
<1> DEFINE ends == IF w = "forecast" THEN "stored" ELSE "idle"
           left == IF w = "forecast" THEN held[w] ELSE <<>>
<1>0. /\ HistoryTypeOK /\ HeldKnown /\ HeldIsFounded /\ HeldIsNewest /\ GapsAreOld
      /\ stage[w] = "read"
      /\ view' = NoView /\ UNCHANGED <<cast, now, up, due, active>>
  BY DEF HInv, Store
<1>1. /\ stage' = [stage EXCEPT ![w] = ends] /\ held' = [held EXCEPT ![w] = left]
  BY DEF Store
<1>2. /\ DOMAIN held' = Tasks /\ DOMAIN stage' = Tasks
      /\ held'[w] = left /\ stage'[w] = ends
      /\ \A v \in Tasks \ {w} : held'[v] = held[v] /\ stage'[v] = stage[v]
  BY <1>0, <1>1 DEF HeldKnown
<1>3. \/ /\ table' = Replaced(w)
         /\ behind' = (behind \cup {v \in Tasks \ {w} : stage[v] # "idle"})
                      \ (IF w = "forecast" THEN {} ELSE {w})
         /\ UNCHANGED failures
      \/ /\ failures < MaxFailures /\ failures' = failures + 1
         /\ behind' = IF w = "forecast" THEN behind ELSE behind \ {w}
         /\ UNCHANGED table
  BY DEF Store
<1>4. /\ Stored' \subseteq 0 .. now
      /\ \A d \in Stored' : table'[d].seen \in 0 .. now /\ table'[d].seen >= d
                            /\ table'[d].late \in BOOLEAN
      /\ \A d \in Nat : Filled(d) => Filled(d)'
      /\ GapsAreOld'
  <2>1. CASE table' = Replaced(w)
    BY <1>0, <2>1, StoredKeeps
  <2>2. CASE table' = table
    BY <1>0, <2>2 DEF HistoryTypeOK, GapsAreOld, Filled, Stored, Complete
  <2> QED
    BY <1>3, <2>1, <2>2
<1>5. HeldKnown'
  BY <1>0, <1>2 DEF HeldKnown
<1>6. HeldIsFounded'
  <2> SUFFICES ASSUME NEW v \in Tasks, stage'[v] = "read",
                      NEW e \in DOMAIN held'[v], NEW d \in 0 .. e - 1
               PROVE  \/ d \in DOMAIN held'[v] /\ held'[v][d] > d
                      \/ Filled(d)'
                      \/ held'[v][e] >= d + Short
    BY DEF HeldIsFounded
  <2>1. v # w /\ held'[v] = held[v] /\ stage[v] = "read" /\ d \in Nat
    BY <1>2
  <2> QED
    BY <1>0, <1>4, <2>1 DEF HeldIsFounded
<1>7. HeldIsNewest'
  <2> SUFFICES ASSUME NEW v \in Tasks, stage'[v] # "idle", v \notin behind', NEW d \in Stored'
               PROVE  /\ d \in DOMAIN held'[v] => held'[v][d] >= table'[d].seen
                      /\ \E e \in DOMAIN held'[v] : d =< e
    BY DEF HeldIsNewest
  <2>1. CASE behind' = (behind \cup {u \in Tasks \ {w} : stage[u] # "idle"})
                       \ (IF w = "forecast" THEN {} ELSE {w}) /\ v # w
    BY <1>2, <2>1
  <2>2. CASE table' = Replaced(w) /\ v = w
    <3>1. w = "forecast" /\ held'[w] = held[w]
      BY <1>2, <2>2
    <3>2. w \notin behind
      BY <1>3, <2>2, <3>1
    <3>3. \A c \in DOMAIN held[w] : table'[c].seen = held[w][c]
      BY <2>2, <1>0, StoredKeeps
    <3>4. d \in DOMAIN held[w] \/ d \in Stored
      BY <2>2, <1>0, StoredKeeps
    <3>5. d \in 0 .. now /\ \A c \in DOMAIN held[w] : held[w][c] \in Nat
      BY <1>0, <1>4 DEF HeldKnown, HistoryTypeOK
    <3>6. \E e \in DOMAIN held[w] : d =< e
      BY <1>0, <3>2, <3>4, <3>5 DEF HeldIsNewest
    <3> QED
      BY <2>2, <3>1, <3>3, <3>5, <3>6
  <2>3. CASE table' = table
    BY <1>0, <1>2, <1>3, <2>3 DEF HeldIsNewest, Stored
  <2> QED
    BY <1>3, <2>1, <2>2, <2>3
<1>8. HistoryTypeOK'
  <2>1. failures' \in 0 .. MaxFailures
    BY <1>0, <1>3 DEF HistoryTypeOK
  <2>2. \A v \in Tasks : (stage'[v] = "idle") = (held'[v] = <<>>)
    <3>1. held[w] # <<>>
      BY <1>0 DEF HistoryTypeOK
    <3> QED
      BY <1>0, <1>2, <3>1 DEF HistoryTypeOK
  <2>3. behind' \subseteq {v \in Tasks : stage'[v] # "idle"}
    <3>1. behind \subseteq {v \in Tasks : stage[v] # "idle"}
      BY <1>0 DEF HistoryTypeOK
    <3>2. \A v \in behind' : v \in Tasks /\ stage[v] # "idle" /\ (v = w => w = "forecast")
      BY <1>0, <1>3, <3>1
    <3> QED
      BY <1>2, <3>2
  <2> QED
    BY <1>0, <1>4, <2>1, <2>2, <2>3 DEF HistoryTypeOK
<1>9. ViewIsRecent' /\ ViewKnown'
  BY <1>0 DEF ViewIsRecent, ViewKnown, NoView
<1> QED
  BY <1>4, <1>5, <1>6, <1>7, <1>8, <1>9 DEF TInv

-----------------------------------------------------------------------------
(* The steps.                                                              *)

\* A forecast looks at the table, and what it holds is as new unless it is behind.
LEMMA ForecastKeeps == ASSUME HInv, Forecast PROVE TInv'
<1>0. /\ HistoryTypeOK /\ HeldKnown /\ HeldIsFounded /\ HeldIsNewest /\ GapsAreOld
      /\ "forecast" \in Tasks
  BY DEF HInv, Tasks
<1>1. /\ DOMAIN held' = Tasks /\ DOMAIN stage' = Tasks
      /\ held'["forecast"] = <<>> /\ stage'["forecast"] = "idle"
      /\ \A v \in Tasks \ {"forecast"} : held'[v] = held[v] /\ stage'[v] = stage[v]
      /\ behind' = behind \ {"forecast"}
      /\ UNCHANGED <<cast, now, up, due, active, table, failures>>
      /\ stage["forecast"] = "stored"
  BY <1>0 DEF HeldKnown, Forecast
<1>2. \A d : Filled(d)' = Filled(d)
  BY <1>1 DEF Filled, Stored, Complete
<1>3. HeldKnown'
  BY <1>0, <1>1 DEF HeldKnown
<1>4. HeldIsFounded' /\ GapsAreOld'
  BY <1>0, <1>1, <1>2 DEF HeldIsFounded, GapsAreOld, Stored
<1>5. HeldIsNewest'
  BY <1>0, <1>1 DEF HeldIsNewest, Stored
<1>6. HistoryTypeOK'
  BY <1>0, <1>1 DEF HistoryTypeOK, Stored
<1>7. ViewIsRecent'
  <2> SUFFICES ASSUME view' # NoView, ~view'.behind
               PROVE  view'.at - Max(DOMAIN view'.bars) =< StaleDays
    BY DEF ViewIsRecent, NoView
  <2> DEFINE bars == held["forecast"]
  <2>1. /\ view' = [bars |-> bars, at |-> now, behind |-> "forecast" \in behind] /\ ~Stale
    BY DEF Forecast
  <2>2. view'.at = now /\ view'.bars = bars /\ "forecast" \notin behind
    BY <2>1
  <2>3. Stored # {} /\ ~(now - Max(Stored) > StaleDays)
    BY <2>1 DEF Stale
  <2>4. now \in Nat /\ Stored \subseteq 0 .. now
    BY <1>0 DEF HistoryTypeOK
  <2>5. Max(Stored) \in Stored
    BY <2>3, <2>4, MaxIsGreatest
  <2>6. DOMAIN bars \subseteq 0 .. now /\ DOMAIN bars # {}
    BY <1>0, <1>1 DEF HeldKnown
  <2>7. Max(DOMAIN bars) \in DOMAIN bars /\ \A e \in DOMAIN bars : e =< Max(DOMAIN bars)
    BY <2>4, <2>6, MaxIsGreatest
  <2>8. \E e \in DOMAIN bars : Max(Stored) =< e
    BY <1>0, <1>1, <2>2, <2>5 DEF HeldIsNewest
  <2> DEFINE last == Max(Stored)
             end == Max(DOMAIN bars)
  <2>9. last \in 0 .. now /\ end \in 0 .. now /\ last =< end
    <3>1. last \in 0 .. now /\ end \in 0 .. now
      BY <2>4, <2>5, <2>6, <2>7
    <3>2. PICK e \in DOMAIN bars : last =< e
      BY <2>8
    <3>3. e =< end /\ e \in 0 .. now
      BY <2>6, <2>7, <3>2
    <3> HIDE DEF last, end
    <3> QED
      BY <2>4, <3>1, <3>2, <3>3
  <2>10. ~(now - last > StaleDays)
    BY <2>3
  <2> HIDE DEF last, end
  <2>11. now - end =< StaleDays
    BY <2>4, <2>9, <2>10
  <2> QED
    BY <2>2, <2>11 DEF end
<1>8. ViewKnown'
  <2> SUFFICES ASSUME view' # NoView
               PROVE  /\ DOMAIN view'.bars \subseteq 0 .. MaxNow /\ DOMAIN view'.bars # {}
                      /\ \A d \in DOMAIN view'.bars : view'.bars[d] \in Nat
    BY DEF ViewKnown, NoView
  <2> DEFINE bars == held["forecast"]
  <2>1. view' = [bars |-> bars, at |-> now, behind |-> "forecast" \in behind]
    BY DEF Forecast
  <2>2. view'.bars = bars
    BY <2>1
  <2>3. /\ DOMAIN bars \subseteq 0 .. now /\ DOMAIN bars # {}
        /\ \A d \in DOMAIN bars : bars[d] \in d .. now
    BY <1>0, <1>1 DEF HeldKnown
  <2>4. now \in Nat /\ 0 .. now \subseteq 0 .. MaxNow
    BY <1>0 DEF HistoryTypeOK
  <2> HIDE DEF bars
  <2>5. \A d \in DOMAIN bars : bars[d] \in Nat
    <3> SUFFICES ASSUME NEW d \in DOMAIN bars PROVE bars[d] \in Nat
      OBVIOUS
    <3>1. d \in 0 .. now /\ bars[d] \in d .. now
      BY <2>3
    <3> QED
      BY <2>4, <3>1
  <2> QED
    BY <2>2, <2>3, <2>4, <2>5
<1> QED
  BY <1>0, <1>3, <1>4, <1>5, <1>6, <1>7, <1>8 DEF TInv

\* A step that reads.
LEMMA ReaderKeeps ==
  ASSUME HInv, NEW w \in Tasks, stage[w] = "idle", NEW n \in Nat \ {0}, Read(w, n),
         \A d \in 0 .. now - n : Filled(d) \/ now >= d + Short,
         view' = NoView, UNCHANGED <<now, up, active, table, behind>>, due' \in BOOLEAN
  PROVE  TInv'
<1>1. /\ HeldKnown' /\ HeldIsFounded' /\ HeldIsNewest'
      /\ failures' \in 0 .. MaxFailures
      /\ behind' \subseteq {v \in Tasks : stage'[v] # "idle"}
      /\ \A v \in Tasks : (stage'[v] = "idle") = (held'[v] = <<>>)
  BY ReadKeeps
<1>2. HistoryTypeOK'
  BY <1>1 DEF HInv, HistoryTypeOK, Stored
<1>3. GapsAreOld'
  BY DEF HInv, GapsAreOld, Filled, Stored, Complete
<1>4. ViewIsRecent' /\ ViewKnown'
  BY DEF ViewIsRecent, ViewKnown
<1> QED
  BY <1>1, <1>2, <1>3, <1>4 DEF TInv

\* A step that leaves the table and the bars in hand alone.
LEMMA OthersKeep ==
  ASSUME HInv, UNCHANGED <<table, held, stage, behind>>,
         now' \in {now, now + 1}, now' =< MaxNow,
         up' \in BOOLEAN, due' \in BOOLEAN, active' \in BOOLEAN,
         failures' \in 0 .. MaxFailures, view' \in {NoView, view}
  PROVE  TInv'
<1>0. /\ HistoryTypeOK /\ HeldKnown /\ HeldIsFounded /\ HeldIsNewest /\ GapsAreOld
      /\ ViewIsRecent /\ ViewKnown /\ now \in Start .. MaxNow
  BY DEF HInv, HistoryTypeOK
<1>1. now' \in Start .. MaxNow /\ 0 .. now \subseteq 0 .. now'
  BY <1>0
<1>2. \A d : Filled(d)' = Filled(d)
  BY DEF Filled, Stored, Complete
<1>3. HeldKnown'
  <2>1. \A d \in 0 .. now : d .. now \subseteq d .. now'
    BY <1>0
  <2> QED
    BY <1>0, <1>1, <2>1 DEF HeldKnown
<1>4. HeldIsFounded' /\ GapsAreOld'
  BY <1>0, <1>2 DEF HeldIsFounded, GapsAreOld, Stored
<1>5. HeldIsNewest'
  BY <1>0 DEF HeldIsNewest, Stored
<1>6. HistoryTypeOK'
  BY <1>0, <1>1 DEF HistoryTypeOK, Stored
<1>7. ViewIsRecent' /\ ViewKnown'
  BY <1>0 DEF ViewIsRecent, ViewKnown
<1> QED
  BY <1>3, <1>4, <1>5, <1>6, <1>7 DEF TInv

LEMMA StopKeeps == ASSUME HInv, StopServer PROVE TInv'
<1>0. /\ HistoryTypeOK /\ GapsAreOld
      /\ DOMAIN held' = Tasks /\ DOMAIN stage' = Tasks
      /\ \A w \in Tasks : held'[w] = <<>> /\ stage'[w] = "idle"
      /\ behind' = {} /\ view' = NoView /\ up' = FALSE /\ due' = FALSE
      /\ UNCHANGED <<cast, now, active, table, failures>>
  BY DEF HInv, StopServer
<1>1. HeldKnown' /\ HeldIsFounded' /\ HeldIsNewest'
  BY <1>0 DEF HeldKnown, HeldIsFounded, HeldIsNewest
<1>2. GapsAreOld'
  BY <1>0 DEF GapsAreOld, Filled, Stored, Complete
<1>3. HistoryTypeOK'
  BY <1>0 DEF HistoryTypeOK, Stored
<1>4. ViewIsRecent' /\ ViewKnown'
  BY <1>0 DEF ViewIsRecent, ViewKnown
<1> QED
  BY <1>1, <1>2, <1>3, <1>4 DEF TInv

LEMMA TaskKeeps == ASSUME HInv, TaskStep \/ StartServer PROVE TInv'
<1>0. /\ HistoryTypeOK /\ now \in Start .. MaxNow /\ now \in Nat
      /\ {"update", "backfill", "forecast"} \subseteq Tasks
      /\ failures \in 0 .. MaxFailures
      /\ up \in BOOLEAN /\ due \in BOOLEAN /\ active \in BOOLEAN
  BY DEF HInv, HistoryTypeOK, Tasks
<1>1. CASE UpdateReads
  BY <1>0, <1>1, ReaderKeeps, ShortIsEnough DEF UpdateReads
<1>2. CASE ForecastReads
  BY <1>0, <1>2, ReaderKeeps, ShortIsEnough DEF ForecastReads
<1>3. CASE BackfillReads
  <2>1. CASE active /\ DaysToFetch > 0
    <3>1. Read("backfill", DaysToFetch)
      BY <1>3, <2>1 DEF BackfillReads
    <3>2. /\ DaysToFetch \in Nat \ {0}
          /\ \A d \in 0 .. now - DaysToFetch : Filled(d) \/ now >= d + Short
      BY <2>1, BackfillIsEnough
    <3> DEFINE n == DaysToFetch
    <3> HIDE DEF n
    <3> QED
      BY <1>0, <1>3, <3>1, <3>2, ReaderKeeps DEF BackfillReads
  <2>2. CASE ~(active /\ DaysToFetch > 0)
    <3>1. /\ UNCHANGED <<table, held, stage, behind, now, up, active, failures>>
          /\ due' \in BOOLEAN /\ view' = NoView
      BY <1>3, <2>2 DEF BackfillReads
    <3>2. /\ now' =< MaxNow /\ now' \in {now, now + 1} /\ view' \in {NoView, view}
          /\ up' \in BOOLEAN /\ active' \in BOOLEAN /\ failures' \in 0 .. MaxFailures
      BY <1>0, <3>1
    <3> QED
      BY <3>1, <3>2, OthersKeep
  <2> QED
    BY <2>1, <2>2
<1>4. CASE \E w \in Tasks \ Robots : Store(w)
  BY <1>4, StoreKeeps
<1>5. CASE Forecast
  BY <1>5, ForecastKeeps
<1>6. CASE SwitchTicker
  BY <1>0, <1>6, OthersKeep DEF SwitchTicker
<1>7. CASE Tick
  <2>1. now' = now + 1 /\ now' =< MaxNow
    BY <1>0, <1>7 DEF Tick
  <2> QED
    BY <1>0, <1>7, <2>1, OthersKeep DEF Tick
<1>8. CASE StartServer
  BY <1>0, <1>8, OthersKeep DEF StartServer
<1> QED
  BY <1>1, <1>2, <1>3, <1>4, <1>5, <1>6, <1>7, <1>8 DEF TaskStep

LEMMA RobotKeeps ==
  ASSUME HInv, NEW r \in Robots, StartRobot(r) \/ RobotStep(r)
  PROVE  TInv' /\ RobotsKnown' /\ RunningIsWorking'
<1>0. /\ HistoryTypeOK /\ now \in Start .. MaxNow /\ now \in Nat /\ r \in Tasks
      /\ failures \in 0 .. MaxFailures
      /\ up \in BOOLEAN /\ due \in BOOLEAN /\ active \in BOOLEAN
      /\ RobotsKnown /\ RunningIsWorking
  BY DEF HInv, HistoryTypeOK, Tasks
<1>1. ASSUME NEW place, Goes(r, place)
      PROVE  RobotsKnown' /\ robot'[r] = place /\ \A q \in Robots \ {r} : robot'[q] = robot[q]
  BY <1>0, <1>1 DEF Goes, RobotsKnown
<1>2. CASE StartRobot(r)
  <2>1. TInv'
    BY <1>0, <1>2, OthersKeep DEF StartRobot
  <2>2. Goes(r, "started") /\ status' = status /\ status # "running"
    BY <1>2 DEF StartRobot
  <2> QED
    BY <1>0, <1>1, <2>1, <2>2 DEF RunningIsWorking
<1>3. CASE RobotBegins(r)
  <2>1. TInv'
    BY <1>0, <1>3, OthersKeep DEF RobotBegins
  <2>2. PICK mode \in Modes : Goes(r, mode)
    BY <1>3 DEF RobotBegins
  <2>3. mode \notin {"none", "started"} /\ status' = "running"
    BY <1>3 DEF RobotBegins, Modes
  <2> QED
    BY <1>0, <1>1, <2>1, <2>2, <2>3 DEF RunningIsWorking
<1>4. CASE RobotReads(r)
  <2>1. TInv'
    <3>1. CASE active
      BY <1>0, <1>4, <3>1, ReaderKeeps, ShortIsEnough DEF RobotReads
    <3>2. CASE ~active
      BY <1>0, <1>4, <3>2, OthersKeep DEF RobotReads
    <3> QED
      BY <3>1, <3>2
  <2>2. PICK place \in {"price_data", "ending"} : Goes(r, place)
    BY <1>4 DEF RobotReads
  <2>3. status' = status
    BY <1>4 DEF RobotReads
  <2> QED
    BY <1>0, <1>1, <2>1, <2>2, <2>3 DEF RunningIsWorking
<1>5. CASE RobotStores(r)
  <2>1. TInv'
    BY <1>0, <1>5, StoreKeeps DEF RobotStores
  <2>2. Goes(r, "ending") /\ status' = status
    BY <1>5 DEF RobotStores
  <2> QED
    BY <1>0, <1>1, <2>1, <2>2 DEF RunningIsWorking
<1>6. CASE RobotWorks(r)
  <2>1. TInv'
    BY <1>0, <1>6, OthersKeep DEF RobotWorks
  <2>2. PICK place \in {"ending", "failed"} : Goes(r, place)
    BY <1>6 DEF RobotWorks
  <2>3. status' = status
    BY <1>6 DEF RobotWorks
  <2> QED
    BY <1>0, <1>1, <2>1, <2>2, <2>3 DEF RunningIsWorking
<1>7. CASE RobotEnds(r)
  <2>1. TInv'
    BY <1>0, <1>7, OthersKeep DEF RobotEnds
  <2>2. Goes(r, "none") /\ status' \in {"done", "error"}
    BY <1>7 DEF RobotEnds
  <2> QED
    BY <1>1, <2>1, <2>2 DEF RunningIsWorking
<1> QED
  BY <1>2, <1>3, <1>4, <1>5, <1>6, <1>7 DEF RobotStep

LEMMA HInvStep == HInv /\ [RobotNext]_<<historyVars, robotVars>> => HInv'
<1> SUFFICES ASSUME HInv, [RobotNext]_<<historyVars, robotVars>> PROVE HInv'
  OBVIOUS
<1>0. TInv' /\ RobotsKnown' /\ RunningIsWorking' => HInv'
  BY DEF TInv, HInv
<1>1. CASE (TaskStep \/ StartServer) /\ UNCHANGED robotVars
  <2>1. RobotsKnown' /\ RunningIsWorking'
    BY <1>1 DEF HInv, RobotsKnown, RunningIsWorking, robotVars
  <2> QED
    BY <1>0, <1>1, <2>1, TaskKeeps
<1>2. CASE ProcessEnds
  BY <1>0, <1>2, StopKeeps DEF ProcessEnds, RobotsKnown, RunningIsWorking
<1>3. CASE \E r \in Robots : StartRobot(r) \/ RobotStep(r)
  BY <1>0, <1>3, RobotKeeps
<1>4. CASE UNCHANGED <<historyVars, robotVars>>
  BY <1>4 DEF historyVars, robotVars, HInv, HistoryTypeOK, HeldKnown, HeldIsFounded, HeldIsNewest,
              GapsAreOld, Filled, Stored, Complete, ViewIsRecent, ViewKnown, RobotsKnown,
              RunningIsWorking
<1> QED
  BY <1>1, <1>2, <1>3, <1>4 DEF RobotNext

LEMMA InitHInv == RobotInit => HInv
<1> SUFFICES ASSUME RobotInit PROVE HInv
  OBVIOUS
<1> USE DEF RobotInit, HistoryInit
<1>1. Stored = {}
  BY DEF Stored
<1>2. HistoryTypeOK
  <2>1. now \in Start .. MaxNow /\ failures \in 0 .. MaxFailures
    OBVIOUS
  <2>2. \A w \in Tasks : stage[w] = "idle" /\ held[w] = <<>>
    OBVIOUS
  <2>3. Stored \subseteq 0 .. now /\ \A d \in Stored : FALSE
    BY <1>1
  <2> QED
    BY <2>1, <2>2, <2>3 DEF HistoryTypeOK
<1>3. HeldKnown /\ HeldIsFounded /\ HeldIsNewest /\ GapsAreOld
  BY <1>1 DEF HeldKnown, HeldIsFounded, HeldIsNewest, GapsAreOld
<1>4. ViewIsRecent /\ ViewKnown /\ RobotsKnown /\ RunningIsWorking
  BY DEF ViewIsRecent, ViewKnown, RobotsKnown, RunningIsWorking
<1> QED
  BY <1>2, <1>3, <1>4 DEF HInv

LEMMA HInvHolds == RobotSpec => []HInv
BY InitHInv, HInvStep, PTL DEF RobotSpec

LEMMA NoOtherGap == HInv => GapOnlyAfterPause
<1> SUFFICES ASSUME HInv, Stored # {}, NEW d \in Min(Stored) .. Max(Stored) - 1,
                    ~(d \in Stored /\ (Complete(d) \/ table[d].late)),
                    NEW e \in Stored, e > d
             PROVE  table[e].seen >= d + Short
  BY DEF GapOnlyAfterPause
<1>1. now \in Nat /\ Stored \subseteq 0 .. now
  BY DEF HInv, HistoryTypeOK
<1>2. Min(Stored) \in Nat
  <2>1. Stored \in SUBSET Nat
    BY <1>1
  <2> QED
    BY <2>1, MinIsLeast
<1>3. Max(Stored) \in Nat
  <2>1. Max(Stored) \in Stored
    BY <1>1, MaxIsGreatest
  <2>2. \A x \in Stored : x \in Nat
    BY <1>1
  <2> QED
    BY <2>1, <2>2
<1> DEFINE low == Min(Stored)
           high == Max(Stored)
<1>4. low \in Nat /\ high \in Nat /\ d \in low .. high - 1 /\ e \in Nat
  BY <1>1, <1>2, <1>3
<1> HIDE DEF low, high
<1>5. d \in 0 .. e - 1
  BY <1>4
<1> QED
  BY <1>5 DEF HInv, GapsAreOld, Filled

\* However many robots, updates, backfills and forecasts read, fetch and store side
\* by side, fail or die with the process: the table has no gap but after a pause
\* longer than the update's window or where a slow task put an old bar back, a
\* forecast is made from recent bars unless another task stored after it read, and
\* the robot's status says "running" only for a thread that is at work.
THEOREM PricesStaySound == RobotSpec => []PricesAreSound
<1>1. HInv => PricesAreSound
  BY NoOtherGap DEF HInv, PricesAreSound, HistoryIsSound
<1> QED
  BY <1>1, HInvHolds, PTL

-----------------------------------------------------------------------------
(* What a forecast is told.                                                *)

LEMMA BarsAre ==
  ASSUME ViewKnown, view # NoView, NEW m \in Markets
  PROVE  Bars(m, view.bars) \in Seq(Bar) /\ Bars(m, view.bars) # <<>>
<1> DEFINE bars == view.bars
           days == DOMAIN bars
           n == Cardinality(days)
           nth(i) == CHOOSE d \in days : Cardinality({e \in days : e < d}) = i - 1
           bar(i) == BarOf(m, nth(i), bars[nth(i)])
<1>1. /\ days \subseteq 0 .. MaxNow /\ days # {}
      /\ \A d \in days : bars[d] \in Nat
  BY DEF ViewKnown
<1>2. IsFiniteSet(days) /\ days \in SUBSET Nat
  <2>1. IsFiniteSet(0 .. MaxNow)
    BY Windows, FS_Interval
  <2>2. \A d \in days : d \in Nat
    BY <1>1
  <2> QED
    BY <1>1, <2>1, <2>2, FS_Subset
<1> HIDE DEF days
<1>3. n \in Nat /\ n # 0
  BY <1>1, <1>2, FS_CardinalityType, FS_EmptySet
<1>4. ASSUME NEW i \in 1 .. n PROVE bar(i) \in Bar
  <2>1. nth(i) \in days
    <3>1. \E d \in days : Cardinality({e \in days : e < d}) = i - 1
      BY <1>2, NthDay
    <3> QED
      BY <3>1
  <2> HIDE DEF nth
  <2>2. nth(i) \in 0 .. MaxNow
    BY <1>1, <2>1
  <2>3. m[nth(i)].whole \in Bar /\ m[nth(i)].early \in Bar
    BY <2>2, MarketsAssumption DEF MarketsAssumption
  <2> QED
    BY <2>3 DEF BarOf
<1>5. Bars(m, bars) = [i \in 1 .. n |-> bar(i)]
  BY DEF Bars, days
<1> HIDE DEF n, bar
<1> DEFINE seq == [i \in 1 .. n |-> bar(i)]
<1>6. seq \in Seq(Bar) /\ Len(seq) = n
  BY <1>3, <1>4
<1> HIDE DEF seq
<1>7. seq # <<>>
  BY <1>3, <1>6, EmptySeq
<1> QED
  BY <1>5, <1>6, <1>7 DEF seq

LEMMA NoBias == ViewKnown => ClaimsHaveNoBias
<1> SUFFICES ASSUME ViewKnown, view # NoView, NEW m \in Markets
             PROVE  LET bars == Bars(m, view.bars)
                        here == Claims(bars)
                        there == Claims(Mirrored(bars))
                        called == Methods(here.regime)
                        other == Methods(there.regime)
                    IN  IF Len(bars) >= Slow
                        THEN /\ \A method \in called \cap other : \A c \in Shown(method) :
                                  Tied(bars, c)
                                  \/ Prompt(there, method)[c] = Opposite(Prompt(here, method)[c])
                             /\ called \ other = (IF here.regime = "STRONG_UPTREND"
                                                 THEN {"volume_breakout"} ELSE {})
                             /\ other \ called = (IF here.regime = "STRONG_DOWNTREND"
                                                 THEN {"volume_breakout"} ELSE {})
                        ELSE here.structure # "bearish" /\ here.regime # "STRONG_DOWNTREND"
  BY DEF ClaimsHaveNoBias
<1> DEFINE bars == Bars(m, view.bars)
           here == Claims(bars)
           there == Claims(Mirrored(bars))
           called == Methods(here.regime)
           other == Methods(there.regime)
<1>1. bars \in Seq(Bar) /\ bars # <<>>
  BY BarsAre
<1> HIDE DEF bars
<1>2. ASSUME Len(bars) >= Slow, NEW method, NEW c \in Shown(method), ~Tied(bars, c)
      PROVE  Prompt(there, method)[c] = Opposite(Prompt(here, method)[c])
  <2>1. c \in {"regime", "rationale", "strength", "structure", "price", "volume", "rsi"}
    BY DEF Shown
  <2>2. there[c] = Opposite(here[c])
    BY <1>1, <1>2, <2>1, ClaimsOpposite
  <2> HIDE DEF here, there
  <2> QED
    BY <2>2 DEF Prompt, Restrict
<1>3. Len(bars) >= Slow =>
        /\ called \ other = (IF here.regime = "STRONG_UPTREND" THEN {"volume_breakout"} ELSE {})
        /\ other \ called = (IF here.regime = "STRONG_DOWNTREND" THEN {"volume_breakout"} ELSE {})
  BY <1>1, MethodsOpposite
<1>4. ~(Len(bars) >= Slow) => here.structure # "bearish" /\ here.regime # "STRONG_DOWNTREND"
  BY <1>1, ClaimsOfFew
<1> QED
  BY <1>2, <1>3, <1>4 DEF bars

\* Whatever the market, with bars enough for the slowest average a forecast of
\* the market upside down is told the opposite of each statement, up to ties,
\* by the same methods but for volume_breakout in strong trends; with fewer it
\* is never told of falling averages nor of a strong downtrend.
THEOREM ClaimsStayFair == RobotSpec => []ClaimsHaveNoBias
<1>1. HInv => ClaimsHaveNoBias
  BY NoBias DEF HInv
<1> QED
  BY <1>1, HInvHolds, PTL
=============================================================================
