--------------------------- MODULE OrderSubmission ---------------------------
(***************************************************************************)
(* How a consensus row becomes an order on Bybit.                          *)
(*                                                                         *)
(* Several threads activate consensus rows: the scheduler's pending-orders *)
(* task, the HTTP endpoint and the forecast pipeline (both call            *)
(* activate_consensus_order), and the manual endpoint (submit_signal       *)
(* directly).  Each saves a bracket (three order rows and a trade) in      *)
(* SQLite, one transaction per row, asks the exchange to place it, and     *)
(* writes the outcome back.  Meanwhile the status synchroniser polls the   *)
(* exchange, three expiry tasks retire old rows, and the process may crash.*)
(*                                                                         *)
(* Every action is one transaction, one exchange request or one lock       *)
(* operation of the code, which is where threads can interleave.           *)
(***************************************************************************)
EXTENDS Integers, FiniteSets

CONSTANTS
  Consensus,      \* rows of the consensus table that ask for an order
  Ticker,         \* trading pairs
  TickerOf,       \* the ticker of each consensus row
  Uid,            \* trade_uid values; every bracket takes a fresh one
  PendingTask,    \* the scheduler thread that runs process_pending_orders
  ApiThread,      \* threads that call activate_consensus_order directly
  ManualThread,   \* threads that call submit_signal for a manual order
  Syncer,         \* concurrent runs of sync_orders_with_bybit
  Nobody, NoUid,  \* null values
  MaxOpenPositions,
  MaxCrashes,     \* bound on the crashes of the server process
  Faults          \* the fault kinds the environment may produce

FaultKind == {"read_error", "write_error", "lost_reply"}

Activator == {PendingTask} \cup ApiThread \cup ManualThread

ASSUME ConstantsAssumption ==
  /\ TickerOf \in [Consensus -> Ticker]
  /\ PendingTask \notin ApiThread \cup ManualThread
  /\ ApiThread \cap ManualThread = {}
  /\ Nobody \notin Activator
  /\ NoUid \notin Uid
  /\ MaxOpenPositions \in Nat
  /\ MaxCrashes \in Nat
  /\ Faults \subseteq FaultKind

VARIABLES
  consensus,  \* consensus table: order_state and trade_id (as its trade_uid)
  overdue,    \* consensus rows older than FORECAST_TTL_MINUTES
  orders,     \* orders table: the status of each row of a bracket
  owner,      \* orders.consensus_id
  stamped,    \* brackets whose ENTRY row has a submitted_at
  trades,     \* trades table: the status of the bracket's trade
  aged,       \* brackets older than the QUEUED and SUBMITTED cutoffs
  exchange,   \* the exchange's own status of the ENTRY order
  position,   \* tickers with a non-zero position on the exchange
  wire,       \* the place_bracket request of a bracket and its reply
  lock,       \* _ticker_locks: who holds the lock of a ticker
  pc, job, bracket, todo,            \* the activating threads
  syncPc, seen, found, flat,         \* the status synchronisers
  crashes

tables    == <<consensus, orders, owner, stamped, trades>>
clocks    == <<overdue, aged>>
remote    == <<exchange, position, wire>>
threads   == <<lock, pc, job, bracket, todo>>
syncVars  == <<syncPc, seen, found, flat>>
vars == <<tables, clocks, remote, threads, syncVars, crashes>>

-----------------------------------------------------------------------------
Role == {"ENTRY", "TAKE_PROFIT", "STOP_LOSS"}

OrderState == {"PENDING_ORDER", "ORDER_SUBMITTED", "ORDER_SKIPPED", "EXPIRED"}

ExchangeStatus == {"None", "New", "PartiallyFilled", "PendingCancel",
                   "Filled", "Cancelled", "Rejected"}

OrderStatus == {"NONE", "QUEUED", "SUBMITTED", "PARTIALLY_FILLED",
                "FILLED_ENTRY", "PENDING_CANCEL", "CANCELLED", "REJECTED",
                "FAILED", "EXPIRED", "STALE", "ARCHIVED"}

TradeStatus == {"NONE", "OPEN", "CLOSED", "CANCELLED"}

\* _map_bybit_status
MapStatus(s) ==
  CASE s = "New"             -> "SUBMITTED"
    [] s = "PartiallyFilled" -> "PARTIALLY_FILLED"
    [] s = "Filled"          -> "FILLED_ENTRY"
    [] s = "Cancelled"       -> "CANCELLED"
    [] s = "Rejected"        -> "REJECTED"
    [] s = "PendingCancel"   -> "PENDING_CANCEL"
    [] OTHER                 -> s

\* Mutant: QUEUED rows are not polled.
PolledOnceSubmitted == {"SUBMITTED", "PARTIALLY_FILLED"}

\* The local statuses sync_orders_with_bybit asks the exchange about.
Polled == {"SUBMITTED", "PARTIALLY_FILLED", "QUEUED"}

Entry(u)  == orders[u]["ENTRY"]
Symbol(u) == TickerOf[owner[u]]
Saved(u)  == Entry(u) # "NONE"
Live(u)   == exchange[u] \in {"New", "PartiallyFilled", "PendingCancel"}

\* The status of the trade the exposure queries join to an ENTRY row.  They
\* join on trades.bybit_order_id, which no statement of the program writes:
\* the LEFT JOIN finds nothing and COALESCE reads the trade as OPEN.
JoinedTradeStatus(u) == "OPEN"

\* An ENTRY row that count_open_orders and has_open_order_for_ticker count.
CountsAsOpen(u) ==
  \/ Entry(u) \in {"QUEUED", "SUBMITTED"}
  \/ Entry(u) = "FILLED_ENTRY" /\ JoinedTradeStatus(u) = "OPEN"

HasOpenOrder(t) == \E u \in Uid : Saved(u) /\ Symbol(u) = t /\ CountsAsOpen(u)

OpenOrders == {u \in Uid : CountsAsOpen(u)}

\* A row get_pending_order_row and get_pending_order_candidates return.
Pending(c) == consensus[c].state = "PENDING_ORDER" /\ consensus[c].trade = NoUid

-----------------------------------------------------------------------------
\* Program points of an activating thread.  "idle" is outside any call; the
\* pending-orders task has its own loop points "expire", "list" and "row".
Outside   == {"idle", "expire", "list", "row", "read", "acquire",
              "mark_skipped", "mark_submitted"}
Checking  == {"precheck", "check_ticker", "check_limit", "quote"}
Saving    == {"save_entry", "save_tp", "save_sl", "save_trade", "link"}
Placing   == {"place", "await"}
Marking   == {"mark_entry", "mark_tp", "mark_sl"}
Inside    == Checking \cup Saving \cup Placing \cup Marking \cup {"fail"}

Tk(p) == TickerOf[job[p]]

\* A thread that is done with its row forgets it.
Goto(p, to) ==
  /\ pc' = [pc EXCEPT ![p] = to]
  /\ job' = IF to \in {"idle", "row"} THEN [job EXCEPT ![p] = Nobody] ELSE job

\* A thread takes up a row.
Take(p, c, at) ==
  /\ pc' = [pc EXCEPT ![p] = at]
  /\ job' = [job EXCEPT ![p] = c]

\* Where a thread goes when the call it made is over.
Home(p) == IF p = PendingTask THEN "row" ELSE "idle"

\* submit_signal returns: its finally clause releases the ticker's lock.
Return(p, to) ==
  /\ lock' = [lock EXCEPT ![Tk(p)] = Nobody]
  /\ bracket' = [bracket EXCEPT ![p] = NoUid]
  /\ Goto(p, to)
  /\ UNCHANGED todo

\* A refusal: a permanent reason marks the row skipped, but only when the
\* caller is activate_consensus_order.
AfterPermanentRefusal(p) ==
  IF p \in ManualThread THEN Home(p) ELSE "mark_skipped"

InHand(u) == \E p \in Activator : bracket[p] = u

-----------------------------------------------------------------------------
Init ==
  /\ consensus = [c \in Consensus |-> [state |-> "PENDING_ORDER", trade |-> NoUid]]
  /\ overdue = {}
  /\ orders = [u \in Uid |-> [r \in Role |-> "NONE"]]
  /\ owner = [u \in Uid |-> Nobody]
  /\ stamped = {}
  /\ trades = [u \in Uid |-> "NONE"]
  /\ aged = {}
  /\ exchange = [u \in Uid |-> "None"]
  /\ position = {}
  /\ wire = [u \in Uid |-> "idle"]
  /\ lock = [t \in Ticker |-> Nobody]
  /\ pc = [p \in Activator |-> "idle"]
  /\ job = [p \in Activator |-> Nobody]
  /\ bracket = [p \in Activator |-> NoUid]
  /\ todo = {}
  /\ syncPc = [s \in Syncer |-> "idle"]
  /\ seen = [s \in Syncer |-> [u \in Uid |-> "NONE"]]
  /\ found = [s \in Syncer |-> [uid |-> NoUid, status |-> "NONE"]]
  /\ flat = [s \in Syncer |-> {}]
  /\ crashes = 0

-----------------------------------------------------------------------------
(* Callers: process_pending_orders, the activation endpoint, manual orders. *)

StartPendingTask ==
  /\ pc[PendingTask] = "idle"
  /\ Goto(PendingTask, "expire")
  /\ UNCHANGED <<tables, clocks, remote, lock, bracket, todo, syncVars, crashes>>

ExpireStalePending ==
  /\ pc[PendingTask] = "expire"
  /\ consensus' = [c \in Consensus |->
                     IF c \in overdue /\ Pending(c)
                     THEN [consensus[c] EXCEPT !.state = "EXPIRED"]
                     ELSE consensus[c]]
  /\ Goto(PendingTask, "list")
  /\ UNCHANGED <<orders, owner, stamped, trades, clocks, remote,
                 lock, bracket, todo, syncVars, crashes>>

ListCandidates ==
  /\ pc[PendingTask] = "list"
  /\ \/ todo' = {c \in Consensus \ overdue : Pending(c)}
     \/ "read_error" \in Faults /\ todo' = {}
  /\ Goto(PendingTask, "row")
  /\ UNCHANGED <<tables, clocks, remote, lock, bracket, syncVars, crashes>>

\* The next listed row: mark it skipped if its ticker has exposure by now,
\* otherwise activate it.  The list is not read again.
ProcessCandidate(c) ==
  /\ pc[PendingTask] = "row"
  /\ c \in todo
  /\ todo' = todo \ {c}
  /\ \/ HasOpenOrder(TickerOf[c]) /\ Take(PendingTask, c, "mark_skipped")
     \/ /\ ~HasOpenOrder(TickerOf[c]) \/ "read_error" \in Faults
        /\ Take(PendingTask, c, "read")
  /\ UNCHANGED <<tables, clocks, remote, lock, bracket, syncVars, crashes>>

FinishPendingTask ==
  /\ pc[PendingTask] = "row"
  /\ todo = {}
  /\ Goto(PendingTask, "idle")
  /\ UNCHANGED <<tables, clocks, remote, lock, bracket, todo, syncVars, crashes>>

StartActivation(p, c) ==
  /\ p \in ApiThread
  /\ pc[p] = "idle"
  /\ Take(p, c, "read")
  /\ UNCHANGED <<tables, clocks, remote, lock, bracket, todo, syncVars, crashes>>

StartManual(p, c) ==
  /\ p \in ManualThread
  /\ pc[p] = "idle"
  /\ Take(p, c, "acquire")
  /\ UNCHANGED <<tables, clocks, remote, lock, bracket, todo, syncVars, crashes>>

\* activate_consensus_order reads the row once, before it takes the lock.
ReadPendingRow(p) ==
  /\ pc[p] = "read"
  /\ Goto(p, IF Pending(job[p]) THEN "acquire" ELSE Home(p))
  /\ UNCHANGED <<tables, clocks, remote, lock, bracket, todo, syncVars, crashes>>

\* mark_order_submitted: no condition on the row's current state.
MarkConsensusSubmitted(p) ==
  /\ pc[p] = "mark_submitted"
  /\ consensus' = [consensus EXCEPT ![job[p]].state = "ORDER_SUBMITTED"]
  /\ Goto(p, Home(p))
  /\ UNCHANGED <<orders, owner, stamped, trades, clocks, remote,
                 lock, bracket, todo, syncVars, crashes>>

\* mark_order_skipped: no condition on the row's current state either.
MarkConsensusSkipped(p) ==
  /\ pc[p] = "mark_skipped"
  /\ consensus' = [consensus EXCEPT ![job[p]].state = "ORDER_SKIPPED"]
  /\ Goto(p, Home(p))
  /\ UNCHANGED <<orders, owner, stamped, trades, clocks, remote,
                 lock, bracket, todo, syncVars, crashes>>

-----------------------------------------------------------------------------
(* submit_signal, up to the placement.                                      *)

\* Mutant: the lock is taken without looking whether it is free.
AcquireLockBlindly(p) ==
  /\ pc[p] = "acquire"
  /\ lock' = [lock EXCEPT ![Tk(p)] = p]
  /\ Goto(p, "precheck")
  /\ UNCHANGED <<tables, clocks, remote, bracket, todo, syncVars, crashes>>

\* lock.acquire(blocking=False); a busy lock is not a permanent refusal.
AcquireLock(p) ==
  /\ pc[p] = "acquire"
  /\ IF lock[Tk(p)] = Nobody
     THEN /\ lock' = [lock EXCEPT ![Tk(p)] = p]
          /\ Goto(p, "precheck")
     ELSE /\ Goto(p, Home(p))
          /\ UNCHANGED lock
  /\ UNCHANGED <<tables, clocks, remote, bracket, todo, syncVars, crashes>>

\* Worker running, order mode, live confirmation, ticker known, not blocked:
\* configuration the model does not track, so each outcome is possible.
Precheck(p) ==
  /\ pc[p] = "precheck"
  /\ \/ Goto(p, "check_ticker") /\ UNCHANGED <<lock, bracket, todo>>
     \/ Return(p, Home(p))
     \/ Return(p, AfterPermanentRefusal(p))
  /\ UNCHANGED <<tables, clocks, remote, syncVars, crashes>>

CheckTicker(p) ==
  /\ pc[p] = "check_ticker"
  /\ IF HasOpenOrder(Tk(p))
     THEN Return(p, AfterPermanentRefusal(p))
     ELSE Goto(p, "check_limit") /\ UNCHANGED <<lock, bracket, todo>>
  /\ UNCHANGED <<tables, clocks, remote, syncVars, crashes>>

CheckLimit(p) ==
  /\ pc[p] = "check_limit"
  /\ IF Cardinality(OpenOrders) >= MaxOpenPositions
     THEN Return(p, AfterPermanentRefusal(p))
     ELSE Goto(p, "quote") /\ UNCHANGED <<lock, bracket, todo>>
  /\ UNCHANGED <<tables, clocks, remote, syncVars, crashes>>

\* has_open_order_for_ticker and count_open_orders swallow a database error
\* and answer "no open order" and 0.
CheckReadsNothing(p) ==
  /\ "read_error" \in Faults
  /\ pc[p] \in {"check_ticker", "check_limit"}
  /\ Goto(p, IF pc[p] = "check_ticker" THEN "check_limit" ELSE "quote")
  /\ UNCHANGED <<tables, clocks, remote, lock, bracket, todo, syncVars, crashes>>

\* Balance, sizing, instrument filters, price, slippage and leverage: five
\* requests, any of which may fail; none of these reasons is permanent.  They
\* always fail once the model has run out of fresh trade_uids (its bound).
UidLeft ==
  Cardinality({u \in Uid : ~Saved(u)}) >
    Cardinality({p \in Activator : pc[p] = "save_entry"})

QuoteAndSize(p) ==
  /\ pc[p] = "quote"
  /\ \/ UidLeft /\ Goto(p, "save_entry") /\ UNCHANGED <<lock, bracket, todo>>
     \/ Return(p, Home(p))
  /\ UNCHANGED <<tables, clocks, remote, syncVars, crashes>>

\* Mutant: the placement is sent before the take-profit row is saved.
SaveEntryOnly(p) ==
  /\ pc[p] = "save_entry"
  /\ \E u \in Uid :
       /\ ~Saved(u)
       /\ orders' = [orders EXCEPT ![u]["ENTRY"] = "QUEUED"]
       /\ owner' = [owner EXCEPT ![u] = job[p]]
       /\ bracket' = [bracket EXCEPT ![p] = u]
  /\ Goto(p, "place")
  /\ UNCHANGED <<consensus, stamped, trades, clocks, remote,
                 lock, todo, syncVars, crashes>>

\* _save_bracket: five inserts or updates, each a transaction of its own.
SaveEntry(p) ==
  /\ pc[p] = "save_entry"
  /\ \E u \in Uid :
       /\ ~Saved(u)
       /\ orders' = [orders EXCEPT ![u]["ENTRY"] = "QUEUED"]
       /\ owner' = [owner EXCEPT ![u] = job[p]]
       /\ bracket' = [bracket EXCEPT ![p] = u]
  /\ Goto(p, "save_tp")
  /\ UNCHANGED <<consensus, stamped, trades, clocks, remote,
                 lock, todo, syncVars, crashes>>

SaveChild(p) ==
  /\ \/ /\ pc[p] = "save_tp"
        /\ orders' = [orders EXCEPT ![bracket[p]]["TAKE_PROFIT"] = "QUEUED"]
        /\ Goto(p, "save_sl")
     \/ /\ pc[p] = "save_sl"
        /\ orders' = [orders EXCEPT ![bracket[p]]["STOP_LOSS"] = "QUEUED"]
        /\ Goto(p, "save_trade")
  /\ UNCHANGED <<consensus, owner, stamped, trades, clocks, remote,
                 lock, bracket, todo, syncVars, crashes>>

SaveTrade(p) ==
  /\ pc[p] = "save_trade"
  /\ trades' = [trades EXCEPT ![bracket[p]] = "OPEN"]
  /\ Goto(p, "link")
  /\ UNCHANGED <<consensus, orders, owner, stamped, clocks, remote,
                 lock, bracket, todo, syncVars, crashes>>

LinkConsensus(p) ==
  /\ pc[p] = "link"
  /\ consensus' = [consensus EXCEPT ![job[p]].trade = bracket[p]]
  /\ Goto(p, "place")
  /\ UNCHANGED <<orders, owner, stamped, trades, clocks, remote,
                 lock, bracket, todo, syncVars, crashes>>

-----------------------------------------------------------------------------
(* submit_signal, the placement and its outcome.                            *)

SendPlacement(p) ==
  /\ pc[p] = "place"
  /\ wire' = [wire EXCEPT ![bracket[p]] = "sent"]
  /\ Goto(p, "await")
  /\ UNCHANGED <<tables, clocks, exchange, position,
                 lock, bracket, todo, syncVars, crashes>>

\* Mutant: an empty result is taken for a success.
ReceiveAnyReply(p) ==
  /\ pc[p] = "await"
  /\ wire[bracket[p]] \in {"accepted", "refused"}
  /\ Goto(p, "mark_entry")
  /\ wire' = [wire EXCEPT ![bracket[p]] = "idle"]
  /\ UNCHANGED <<tables, clocks, exchange, position,
                 lock, bracket, todo, syncVars, crashes>>

\* bybit_request_sync returns an order_id, or a falsy or id-less result.
ReceiveReply(p) ==
  /\ pc[p] = "await"
  /\ wire[bracket[p]] \in {"accepted", "refused"}
  /\ Goto(p, IF wire[bracket[p]] = "accepted" THEN "mark_entry" ELSE "fail")
  /\ wire' = [wire EXCEPT ![bracket[p]] = "idle"]
  /\ UNCHANGED <<tables, clocks, exchange, position,
                 lock, bracket, todo, syncVars, crashes>>

\* Mutant: the wait for the reply has no bound.
WaitForEver(p) == FALSE /\ UNCHANGED vars

\* The worker or the caller gives up waiting.  A request that has not left
\* the queue is dropped; one that has may still reach the exchange.
PlacementTimeout(p) ==
  /\ "lost_reply" \in Faults
  /\ pc[p] = "await"
  /\ wire[bracket[p]] = "sent"
  /\ \/ wire' = [wire EXCEPT ![bracket[p]] = "idle"]
     \/ UNCHANGED wire
  /\ Goto(p, "fail")
  /\ UNCHANGED <<tables, clocks, exchange, position,
                 lock, bracket, todo, syncVars, crashes>>

\* Mutant: the failed submission is reported as submitted.
FailBracketSilently(p) ==
  /\ pc[p] = "fail"
  /\ orders' = [orders EXCEPT ![bracket[p]] = [r \in Role |-> "FAILED"]]
  /\ Return(p, IF p \in ManualThread THEN Home(p) ELSE "mark_submitted")
  /\ UNCHANGED <<consensus, owner, stamped, trades, clocks, remote, syncVars, crashes>>

\* Mutant: the status the documentation calls ERROR.
FailBracketError(p) ==
  /\ pc[p] = "fail"
  /\ orders' = [orders EXCEPT ![bracket[p]] = [r \in Role |-> "ERROR"]]
  /\ Return(p, Home(p))
  /\ UNCHANGED <<consensus, owner, stamped, trades, clocks, remote, syncVars, crashes>>

\* _fail_bracket: every row of the trade_uid, whatever its status.
FailBracket(p) ==
  /\ pc[p] = "fail"
  /\ orders' = [orders EXCEPT ![bracket[p]] = [r \in Role |-> "FAILED"]]
  /\ Return(p, Home(p))
  /\ UNCHANGED <<consensus, owner, stamped, trades, clocks, remote, syncVars, crashes>>

\* The three SUBMITTED updates, again one transaction each and unconditional.
MarkEntry(p) ==
  /\ pc[p] = "mark_entry"
  /\ orders' = [orders EXCEPT ![bracket[p]]["ENTRY"] = "SUBMITTED"]
  /\ stamped' = stamped \cup {bracket[p]}
  /\ Goto(p, "mark_tp")
  /\ UNCHANGED <<consensus, owner, trades, clocks, remote,
                 lock, bracket, todo, syncVars, crashes>>

MarkTakeProfit(p) ==
  /\ pc[p] = "mark_tp"
  /\ orders' = [orders EXCEPT ![bracket[p]]["TAKE_PROFIT"] = "SUBMITTED"]
  /\ Goto(p, "mark_sl")
  /\ UNCHANGED <<consensus, owner, stamped, trades, clocks, remote,
                 lock, bracket, todo, syncVars, crashes>>

\* The last update; then submit_signal returns SUBMITTED to its caller.
MarkStopLoss(p) ==
  /\ pc[p] = "mark_sl"
  /\ orders' = [orders EXCEPT ![bracket[p]]["STOP_LOSS"] = "SUBMITTED"]
  /\ Return(p, IF p \in ManualThread THEN Home(p) ELSE "mark_submitted")
  /\ UNCHANGED <<consensus, owner, stamped, trades, clocks, remote, syncVars, crashes>>

\* A write transaction fails (a locked or full database).  While the outcome
\* is being recorded the except clause fails the bracket; elsewhere the
\* exception leaves submit_signal, or the caller, as it is, and a failed
\* expiry counts as nothing expired.
WriteError(p) ==
  /\ "write_error" \in Faults
  /\ \/ /\ pc[p] \in Marking
        /\ Goto(p, "fail")
        /\ UNCHANGED <<lock, bracket, todo>>
     \/ /\ pc[p] \in Saving \cup {"fail"}
        /\ Return(p, Home(p))
     \/ /\ pc[p] \in {"mark_submitted", "mark_skipped"}
        /\ Goto(p, Home(p))
        /\ UNCHANGED <<lock, bracket, todo>>
     \/ /\ pc[p] = "expire"
        /\ Goto(p, "list")
        /\ UNCHANGED <<lock, bracket, todo>>
  /\ UNCHANGED <<tables, clocks, remote, syncVars, crashes>>

-----------------------------------------------------------------------------
(* The exchange (external), seen through the client.                        *)

\* The reply of a request nobody waits for any more is dropped.
Reply(u, r) ==
  IF \E p \in Activator : bracket[p] = u /\ pc[p] = "await" THEN r ELSE "idle"

\* The order is live from here on.  Its reply may be lost (the client logs
\* the exception and returns None) or carry no order id.
ExchangeAccepts(u) ==
  /\ wire[u] = "sent"
  /\ exchange[u] = "None"
  /\ exchange' = [exchange EXCEPT ![u] = "New"]
  /\ \/ wire' = [wire EXCEPT ![u] = Reply(u, "accepted")]
     \/ "lost_reply" \in Faults /\ wire' = [wire EXCEPT ![u] = Reply(u, "refused")]
  /\ UNCHANGED <<tables, clocks, position, threads, syncVars, crashes>>

ExchangeRefuses(u) ==
  /\ wire[u] = "sent"
  /\ wire' = [wire EXCEPT ![u] = Reply(u, "refused")]
  /\ UNCHANGED <<tables, clocks, exchange, position, threads, syncVars, crashes>>

\* How an accepted order moves on, by itself or on a cancel request.
ExchangeMoves == {<<"New", "PartiallyFilled">>, <<"New", "Filled">>,
                  <<"New", "Cancelled">>, <<"New", "Rejected">>,
                  <<"New", "PendingCancel">>,
                  <<"PartiallyFilled", "Filled">>,
                  <<"PartiallyFilled", "PendingCancel">>,
                  <<"PartiallyFilled", "Cancelled">>,
                  <<"PendingCancel", "Cancelled">>,
                  <<"PendingCancel", "Filled">>}

OrderMoves(u) ==
  /\ \E to \in ExchangeStatus :
       /\ <<exchange[u], to>> \in ExchangeMoves
       /\ exchange' = [exchange EXCEPT ![u] = to]
       /\ position' = IF to \in {"PartiallyFilled", "Filled"}
                      THEN position \cup {Symbol(u)} ELSE position
  /\ UNCHANGED <<tables, clocks, wire, threads, syncVars, crashes>>

\* The attached take-profit or stop-loss fires, or the position is closed.
PositionCloses(t) ==
  /\ t \in position
  /\ position' = position \ {t}
  /\ UNCHANGED <<tables, clocks, exchange, wire, threads, syncVars, crashes>>

-----------------------------------------------------------------------------
(* sync_orders_with_bybit.  TAKE_PROFIT and STOP_LOSS rows carry neither a  *)
(* bybit_order_id nor a link id, so only ENTRY rows are ever looked up.     *)

SyncSnapshot(s) ==
  /\ syncPc[s] = "idle"
  /\ seen' = [seen EXCEPT ![s] = [u \in Uid |-> IF Entry(u) \in Polled
                                                THEN Entry(u) ELSE "NONE"]]
  /\ syncPc' = [syncPc EXCEPT ![s] = "orders"]
  /\ UNCHANGED <<tables, clocks, remote, threads, found, flat, crashes>>

\* One order of the snapshot, looked up among the open orders and then in the
\* history: the exchange answers with a status other than the one read.
SyncFinds(s, u) ==
  /\ syncPc[s] = "orders"
  /\ seen[s][u] # "NONE"
  /\ exchange[u] # "None"
  /\ MapStatus(exchange[u]) # seen[s][u]
  /\ found' = [found EXCEPT ![s] = [uid |-> u, status |-> MapStatus(exchange[u])]]
  /\ syncPc' = [syncPc EXCEPT ![s] = "apply"]
  /\ UNCHANGED <<tables, clocks, remote, threads, seen, flat, crashes>>

\* An unchanged status, no such order yet, or no answer (an API error reads as
\* an empty list): on to the next order.
SyncSkips(s, u) ==
  /\ syncPc[s] = "orders"
  /\ seen[s][u] # "NONE"
  /\ seen' = [seen EXCEPT ![s][u] = "NONE"]
  /\ UNCHANGED <<tables, clocks, remote, threads, syncPc, found, flat, crashes>>

\* The update of the row is by id, whatever its status is by now, and commits
\* together with the trade's update.  A cancelled entry cancels the trade
\* unless the entry row, already rewritten, says it was filled.
SyncApply(s) ==
  LET u == found[s].uid
      new == found[s].status
  IN
  /\ syncPc[s] = "apply"
  /\ orders' = [orders EXCEPT ![u]["ENTRY"] = new]
  /\ trades' = IF /\ new = "CANCELLED"
                  /\ trades[u] = "OPEN"
                  /\ orders'[u]["ENTRY"] \notin {"FILLED_ENTRY", "PARTIALLY_FILLED"}
               THEN [trades EXCEPT ![u] = "CANCELLED"] ELSE trades
  /\ seen' = [seen EXCEPT ![s][u] = "NONE"]
  /\ found' = [found EXCEPT ![s] = [uid |-> NoUid, status |-> "NONE"]]
  /\ syncPc' = [syncPc EXCEPT ![s] = "orders"]
  /\ UNCHANGED <<consensus, owner, stamped, clocks, remote, threads, flat, crashes>>

\* get_positions: the client answers [] when the API call fails.
SyncPositions(s) ==
  /\ syncPc[s] = "orders"
  /\ \A u \in Uid : seen[s][u] = "NONE"
  /\ \/ flat' = [flat EXCEPT ![s] = Ticker \ position]
     \/ "lost_reply" \in Faults /\ flat' = [flat EXCEPT ![s] = Ticker]
  /\ syncPc' = [syncPc EXCEPT ![s] = "positions"]
  /\ UNCHANGED <<tables, clocks, remote, threads, seen, found, crashes>>

ClosableTrade(s, u) ==
  /\ trades[u] = "OPEN"
  /\ Symbol(u) \in flat[s]
  /\ Entry(u) \in {"FILLED_ENTRY", "PARTIALLY_FILLED"}

SyncCloseTrades(s) ==
  /\ syncPc[s] = "positions"
  /\ trades' = [u \in Uid |-> IF ClosableTrade(s, u) THEN "CLOSED" ELSE trades[u]]
  /\ flat' = [flat EXCEPT ![s] = {}]
  /\ syncPc' = [syncPc EXCEPT ![s] = "idle"]
  /\ UNCHANGED <<consensus, orders, owner, stamped, clocks, remote, threads,
                 seen, found, crashes>>

-----------------------------------------------------------------------------
(* Time, the expiry tasks and crashes.                                      *)

\* Age is tracked only of rows some task looks at the age of.
ConsensusAges(c) ==
  /\ c \notin overdue /\ Pending(c)
  /\ overdue' = overdue \cup {c}
  /\ UNCHANGED <<tables, aged, remote, threads, syncVars, crashes>>

\* A submission takes minutes at most, the shortest cutoff is twelve hours:
\* no bracket gets old while a thread is still working on it.
BracketAges(u) ==
  /\ u \notin aged /\ ~InHand(u)
  /\ \E r \in Role : orders[u][r] \in {"QUEUED", "SUBMITTED"}
  /\ aged' = aged \cup {u}
  /\ UNCHANGED <<tables, overdue, remote, threads, syncVars, crashes>>

Retire(rows, from, to) ==
  orders' = [u \in Uid |-> [r \in Role |->
               IF u \in rows /\ orders[u][r] = from THEN to ELSE orders[u][r]]]

\* Mutant: the age is taken from submitted_at, which a QUEUED row lacks.
ExpireStampedQueuedOrders ==
  /\ \E u \in aged \cap stamped, r \in Role : orders[u][r] = "QUEUED"
  /\ Retire(aged \cap stamped, "QUEUED", "EXPIRED")
  /\ UNCHANGED <<consensus, owner, stamped, trades, clocks, remote,
                 threads, syncVars, crashes>>

\* expire_queued_orders, by created_at.
ExpireQueuedOrders ==
  /\ \E u \in aged, r \in Role : orders[u][r] = "QUEUED"
  /\ Retire(aged, "QUEUED", "EXPIRED")
  /\ UNCHANGED <<consensus, owner, stamped, trades, clocks, remote,
                 threads, syncVars, crashes>>

\* submitted_at defaults to '', which is less than every cutoff: a SUBMITTED
\* row without a stamp is overdue at once.
OverdueEntries ==
  {u \in Uid : Entry(u) = "SUBMITTED" /\ (u \in aged \/ u \notin stamped)}

\* ib_parent_id of a bracket's trade is the id of its ENTRY row; the ENTRY
\* row's own ib_parent_id is 0 (here NoUid).
TradeParent(u) == u
EntryParent(u) == NoUid

ExpireStuckSubmitted ==
  /\ \E u \in Uid, r \in Role :
        orders[u][r] = "SUBMITTED" /\ u \in aged \cup OverdueEntries
  /\ trades' = [u \in Uid |->
                  IF /\ trades[u] = "OPEN"
                     /\ TradeParent(u) \in {EntryParent(v) : v \in OverdueEntries}
                  THEN "CANCELLED" ELSE trades[u]]
  /\ orders' = [u \in Uid |-> [r \in Role |->
                  IF /\ orders[u][r] = "SUBMITTED"
                     /\ u \in aged \/ (r = "ENTRY" /\ u \in OverdueEntries)
                  THEN "STALE" ELSE orders[u][r]]]
  /\ UNCHANGED <<consensus, owner, stamped, clocks, remote, threads, syncVars, crashes>>

\* Filled rows are archived thirty days after the fill.
ExpireFilledOrders ==
  /\ \E old \in SUBSET {u \in Uid : Entry(u) = "FILLED_ENTRY" /\ ~InHand(u)} :
       /\ old # {}
       /\ Retire(old, "FILLED_ENTRY", "ARCHIVED")
  /\ UNCHANGED <<consensus, owner, stamped, trades, clocks, remote,
                 threads, syncVars, crashes>>

\* The process dies and restarts: locks and threads are gone, the database
\* and the exchange stay, a request on the wire may be lost or not.
Crash ==
  /\ crashes < MaxCrashes
  /\ crashes' = crashes + 1
  /\ lock' = [t \in Ticker |-> Nobody]
  /\ pc' = [p \in Activator |-> "idle"]
  /\ bracket' = [p \in Activator |-> NoUid]
  /\ job' = [p \in Activator |-> Nobody]
  /\ todo' = {}
  /\ syncPc' = [s \in Syncer |-> "idle"]
  /\ seen' = [s \in Syncer |-> [u \in Uid |-> "NONE"]]
  /\ found' = [s \in Syncer |-> [uid |-> NoUid, status |-> "NONE"]]
  /\ flat' = [s \in Syncer |-> {}]
  /\ \E lost \in SUBSET Uid :
       wire' = [u \in Uid |-> IF wire[u] = "sent" /\ u \notin lost
                              THEN "sent" ELSE "idle"]
  /\ UNCHANGED <<tables, clocks, exchange, position>>

-----------------------------------------------------------------------------
\* A thread's own steps; the code bounds every wait, so each one goes on.
ThreadStep(p) ==
  \/ ReadPendingRow(p) \/ MarkConsensusSubmitted(p) \/ MarkConsensusSkipped(p)
  \/ AcquireLock(p) \/ Precheck(p) \/ CheckTicker(p) \/ CheckLimit(p)
  \/ CheckReadsNothing(p) \/ QuoteAndSize(p)
  \/ SaveEntry(p) \/ SaveChild(p) \/ SaveTrade(p) \/ LinkConsensus(p)
  \/ SendPlacement(p) \/ ReceiveReply(p) \/ PlacementTimeout(p) \/ FailBracket(p)
  \/ MarkEntry(p) \/ MarkTakeProfit(p) \/ MarkStopLoss(p) \/ WriteError(p)

PendingTaskStep ==
  \/ ExpireStalePending \/ ListCandidates \/ FinishPendingTask
  \/ \E c \in Consensus : ProcessCandidate(c)

Call ==
  \/ StartPendingTask
  \/ \E p \in Activator, c \in Consensus : StartActivation(p, c) \/ StartManual(p, c)

ExchangeStep ==
  \/ \E u \in Uid : ExchangeAccepts(u) \/ ExchangeRefuses(u) \/ OrderMoves(u)
  \/ \E t \in Ticker : PositionCloses(t)

SyncStep(s) ==
  \/ SyncSnapshot(s) \/ SyncApply(s) \/ SyncPositions(s) \/ SyncCloseTrades(s)
  \/ \E u \in Uid : SyncFinds(s, u) \/ SyncSkips(s, u)

ExpiryTask == ExpireQueuedOrders \/ ExpireStuckSubmitted \/ ExpireFilledOrders

Clock ==
  \/ \E c \in Consensus : ConsensusAges(c)
  \/ \E u \in Uid : BracketAges(u)

Next ==
  \/ Call
  \/ \E p \in Activator : ThreadStep(p)
  \/ PendingTaskStep
  \/ ExchangeStep
  \/ \E s \in Syncer : SyncStep(s)
  \/ ExpiryTask
  \/ Clock
  \/ Crash

Spec == Init /\ [][Next]_vars

\* A thread inside a call goes on: every wait of it is bounded by a timeout.
ThreadFairness == \A p \in Activator : WF_vars(ThreadStep(p))

\* The synchroniser runs again and again, and the exchange answers an order's
\* query if it is asked for ever.
SyncFairness ==
  \A s \in Syncer :
    /\ WF_vars(SyncStep(s))
    /\ \A u \in Uid : SF_vars(SyncFinds(s, u))

\* Time passes and the scheduler keeps running the expiry tasks.
ExpiryFairness ==
  /\ \A u \in Uid : WF_vars(BracketAges(u))
  /\ WF_vars(ExpireQueuedOrders)
  /\ WF_vars(ExpireStuckSubmitted)
  /\ WF_vars(ExpireFilledOrders)

\* Nothing is assumed of new calls, nor of what the exchange does to an order.
FairSpec == Spec /\ ThreadFairness /\ SyncFairness

-----------------------------------------------------------------------------
(* Properties.                                                              *)

\* Every variable stays in its type.
TablesType ==
  /\ consensus \in [Consensus -> [state : OrderState, trade : Uid \cup {NoUid}]]
  /\ orders \in [Uid -> [Role -> OrderStatus]]
  /\ owner \in [Uid -> Consensus \cup {Nobody}]
  /\ stamped \subseteq Uid
  /\ trades \in [Uid -> TradeStatus]

RemoteType ==
  /\ exchange \in [Uid -> ExchangeStatus]
  /\ position \subseteq Ticker
  /\ wire \in [Uid -> {"idle", "sent", "accepted", "refused"}]

ThreadsType ==
  /\ lock \in [Ticker -> Activator \cup {Nobody}]
  /\ pc \in [Activator -> Outside \cup Inside]
  /\ job \in [Activator -> Consensus \cup {Nobody}]
  /\ bracket \in [Activator -> Uid \cup {NoUid}]
  /\ todo \subseteq Consensus

SyncType ==
  /\ syncPc \in [Syncer -> {"idle", "orders", "apply", "positions"}]
  /\ seen \in [Syncer -> [Uid -> Polled \cup {"NONE"}]]
  /\ found \in [Syncer -> [uid : Uid \cup {NoUid}, status : OrderStatus]]
  /\ flat \in [Syncer -> SUBSET Ticker]

ClocksType ==
  /\ overdue \subseteq Consensus
  /\ aged \subseteq Uid
  /\ crashes \in 0..MaxCrashes

TypeOK == TablesType /\ RemoteType /\ ThreadsType /\ SyncType /\ ClocksType

\* The per-ticker lock and the duplicate check together: two submissions, in
\* whatever threads and with whatever timeouts, write errors and restarts in
\* between, never leave two QUEUED ENTRY rows for one ticker.
OneQueuedPerTicker ==
  \A u, v \in Uid :
    (u # v /\ Entry(u) = "QUEUED" /\ Entry(v) = "QUEUED") => Symbol(u) # Symbol(v)

\* The bracket is on disk before the exchange can hear of it: an order that
\* is, or may become, known to the exchange has its three rows and its trade,
\* so that a restart can find it by its link id.
SavedBeforePlaced ==
  \A u \in Uid :
    (exchange[u] # "None" \/ wire[u] # "idle") =>
      /\ \A r \in Role : orders[u][r] # "NONE"
      /\ trades[u] # "NONE"

\* What the local row says of the exchange has been true there: submitters
\* and synchronisers writing over each other never claim more than happened.
Reached(u, local) ==
  CASE local = "SUBMITTED"        -> exchange[u] # "None"
    [] local = "PARTIALLY_FILLED" -> exchange[u] \notin {"None", "New", "Rejected"}
    [] local = "FILLED_ENTRY"     -> exchange[u] = "Filled"
    [] local = "ARCHIVED"         -> exchange[u] = "Filled"
    [] local = "STALE"            -> exchange[u] # "None"
    [] local = "PENDING_CANCEL"   -> exchange[u] \in {"PendingCancel", "Cancelled", "Filled"}
    [] local = "CANCELLED"        -> exchange[u] = "Cancelled"
    [] local = "REJECTED"         -> exchange[u] = "Rejected"
    [] OTHER                      -> TRUE

LocalNeverAhead == \A u \in Uid : Reached(u, Entry(u))

\* A consensus row says ORDER_SUBMITTED only if an order placed for it has
\* reached the exchange.
SubmittedIsReal ==
  \A c \in Consensus :
    consensus[c].state = "ORDER_SUBMITTED" =>
      \E u \in Uid : owner[u] = c /\ exchange[u] # "None"

\* Whatever crashes, an order that is live on the exchange is one the
\* synchroniser still polls.  Only a recorded failure (a lost reply, a write
\* error), the expiry tasks and PENDING_CANCEL lose it.
LiveIsTracked ==
  \A u \in Uid :
    Live(u) => \/ Entry(u) \in Polled \cup {"STALE", "PENDING_CANCEL"}
               \/ Entry(u) = "FAILED" /\ Faults \cap {"lost_reply", "write_error"} # {}
               \/ u \in aged

\* A submission ends, releasing the ticker's lock.
SubmissionEnds ==
  \A p \in Activator : (pc[p] \in Inside) ~> (pc[p] \notin Inside)

\* A row does not block its ticker for ever: if the expiry tasks run, even one
\* whose order the exchange never moves again leaves the set the duplicate
\* check counts.
ExposureEnds ==
  ExpiryFairness => \A u \in Uid : (Saved(u) /\ CountsAsOpen(u)) ~> ~CountsAsOpen(u)

\* A fill is noticed without the help of the expiry tasks: the entry's row ends
\* up filled for good, whatever crashes in between and whatever submitters and
\* synchronisers write over each other with what they read before.  Only a
\* recorded failure, age, a row called STALE and PENDING_CANCEL lose it.
FillIsNoticed ==
  \A u \in Uid :
    (exchange[u] = "Filled") ~>
      [](\/ Entry(u) \in {"FILLED_ENTRY", "ARCHIVED", "FAILED", "STALE", "PENDING_CANCEL"}
         \/ u \in aged)

-----------------------------------------------------------------------------
(* What the documentation says, and the code does not do.                   *)

\* README.md, MAX_OPEN_POSITIONS: the maximum of simultaneous positions.
LimitRespected == Cardinality(position) <= MaxOpenPositions
=============================================================================
