---------------------------- MODULE TradingReset ----------------------------
(***************************************************************************)
(* The reset of the trading state: scripts/tools/reset_trading_state.py,   *)
(* with the calls it makes of the exchange (scripts/core/bybit_client.py)  *)
(* and of the database (reset_forecasts_consensus_and_trading).            *)
(*                                                                         *)
(* The server is stopped while the tool runs, the exchange is not: an      *)
(* order that rests there may be filled between any two steps.  A call     *)
(* that fails may fail before or after the exchange has done it.           *)
(***************************************************************************)
EXTENDS Naturals, Sequences, FiniteSets

CONSTANTS Symbols

VARIABLES
  resting,   \* symbols with an order that rests on the exchange
  held,      \* symbols with an open position
  rows,      \* tables of the trading state that have rows
  tool,      \* where the tool is
  how,       \* its options: [mode, dry]
  listed,    \* what it was told is open: [orders, held]
  toClose,   \* positions it has yet to close
  errors,    \* something failed in the exchange's part
  result,    \* the exit of the last run that came to an end
  refilled   \* listed positions whose symbol has had an order filled since

resetVars == <<resting, held, rows, tool, how, listed, toClose, errors, result, refilled>>

\* The deletions of the reset, in their order.
DeleteSteps ==
  <<"forecast_run_links", "logs", "consensus", "forecast_runs", "orders", "trades">>

TradingTables == {DeleteSteps[i] : i \in 1..Len(DeleteSteps)}

Modes == {"full", "db_only", "bybit_only"}

TypeOKReset ==
  /\ resting \subseteq Symbols /\ held \subseteq Symbols /\ refilled \subseteq Symbols
  /\ rows \subseteq TradingTables
  /\ tool \in {"off", "start", "connect", "orders", "positions", "cancel", "close",
               "decide", "wipe"}
  /\ how \in [mode : Modes, dry : BOOLEAN]
  /\ listed \in [orders : SUBSET Symbols, held : SUBSET Symbols]
  /\ toClose \subseteq Symbols
  /\ errors \in BOOLEAN
  /\ result \in {"none", "done", "failed", "aborted"}

Nothing == [orders |-> {}, held |-> {}]

\* Outside a run of the tool what the exchange holds is left open.
Forgotten ==
  /\ resting' = {} /\ held' = {} /\ refilled' = {}
  /\ rows' = TradingTables
  /\ tool' = "off" /\ how' = [mode |-> "full", dry |-> FALSE]
  /\ listed' = Nothing /\ toClose' = {}
  /\ errors' = FALSE /\ result' = "none"

InitReset ==
  /\ resting = {} /\ held = {} /\ refilled = {}
  /\ rows = TradingTables
  /\ tool = "off" /\ how = [mode |-> "full", dry |-> FALSE]
  /\ listed = Nothing /\ toClose = {}
  /\ errors = FALSE /\ result = "none"

\* The exchange fills an order that rests.
Fill(s) ==
  /\ tool \notin {"off", "start"} /\ s \in resting
  /\ resting' = resting \ {s}
  /\ held' = held \cup {s}
  /\ refilled' = refilled \cup ({s} \cap listed.held)
  /\ UNCHANGED <<rows, tool, how, listed, toClose, errors, result>>

\* main: the database manager is built first.
RunTool ==
  /\ tool = "off"
  /\ tool' = "start"
  /\ how' = [mode |-> "full", dry |-> FALSE]
  /\ result' = "none" /\ listed' = Nothing /\ toClose' = {} /\ errors' = FALSE
  /\ resting' = {} /\ held' = {} /\ refilled' = {}
  /\ UNCHANGED rows

Exit(r) ==
  /\ tool' = "off"
  /\ result' = r

\* The manager is there.  By the options the exchange comes first, with whatever
\* it holds, or is left out.
AfterConstruction(mode, dry) ==
  /\ tool = "start"
  /\ how' = [mode |-> mode, dry |-> dry]
  /\ IF mode = "db_only"
     THEN tool' = "wipe" /\ UNCHANGED <<resting, held>>
     ELSE /\ tool' = "connect"
          /\ resting' \in SUBSET Symbols
          /\ held' \in SUBSET Symbols
  /\ UNCHANGED <<rows, listed, toClose, errors, result, refilled>>

\* Credentials, client and connection: without them there is no reset.
Connect ==
  /\ tool = "connect"
  /\ \/ tool' = "orders" /\ UNCHANGED errors
     \/ tool' = "decide" /\ errors' = TRUE
  /\ UNCHANGED <<resting, held, rows, how, listed, toClose, result, refilled>>

\* get_open_orders answers an empty list when it fails.
ListOrders ==
  /\ tool = "orders"
  /\ \E answer \in {resting, {}} : listed' = [listed EXCEPT !.orders = answer]
  /\ tool' = "positions"
  /\ UNCHANGED <<resting, held, rows, how, toClose, errors, result, refilled>>

\* So does get_positions.
ListPositions ==
  /\ tool = "positions"
  /\ \E answer \in {held, {}} :
       /\ listed' = [listed EXCEPT !.held = answer]
       /\ toClose' = IF how.dry THEN {} ELSE answer
  /\ tool' = IF how.dry THEN "decide" ELSE "cancel"
  /\ UNCHANGED <<resting, held, rows, how, errors, result, refilled>>

\* cancel_all_orders, called when the list has an order.
CancelAll ==
  /\ tool = "cancel"
  /\ \/ /\ listed.orders = {}
        /\ UNCHANGED <<resting, errors>>
     \/ /\ listed.orders # {}
        /\ resting' = {}
        /\ errors' \in {errors, TRUE}
     \/ /\ listed.orders # {}
        /\ errors' = TRUE
        /\ UNCHANGED resting
  /\ tool' = "close"
  /\ UNCHANGED <<held, rows, how, listed, toClose, result, refilled>>

\* close_position_market reads the position again and sells what there is.
ClosePosition(s) ==
  /\ tool = "close" /\ s \in toClose
  /\ toClose' = toClose \ {s}
  /\ \/ /\ s \in held
        /\ held' = held \ {s}
        /\ errors' \in {errors, TRUE}
     \/ /\ errors' = TRUE
        /\ UNCHANGED held
  /\ UNCHANGED <<resting, rows, tool, how, listed, result, refilled>>

AllClosed ==
  /\ tool = "close" /\ toClose = {}
  /\ tool' = "decide"
  /\ UNCHANGED <<resting, held, rows, how, listed, toClose, errors, result, refilled>>

\* Mutant: the database is reset whatever the exchange has said.
DecideAnyway ==
  /\ tool = "decide"
  /\ IF how.mode = "bybit_only"
     THEN Exit(IF errors THEN "failed" ELSE "done")
     ELSE tool' = "wipe" /\ UNCHANGED result
  /\ UNCHANGED <<resting, held, rows, how, listed, toClose, errors, refilled>>

\* An error on the exchange's side keeps the database as it is.
Decide ==
  /\ tool = "decide"
  /\ IF errors /\ ~how.dry
     THEN Exit("aborted")
     ELSE IF how.mode = "bybit_only"
          THEN Exit(IF errors THEN "failed" ELSE "done")
          ELSE tool' = "wipe" /\ UNCHANGED result
  /\ UNCHANGED <<resting, held, rows, how, listed, toClose, errors, refilled>>

\* Mutant: the errors are noted and the reset reported as done.
WipeUnreported(n) ==
  /\ tool = "wipe" /\ ~how.dry
  /\ rows' = rows \cap {DeleteSteps[i] : i \in 1..n}
  /\ Exit("done")
  /\ UNCHANGED <<resting, held, how, listed, toClose, errors, refilled>>

\* The deletions and their commit.  One that finds the database locked is noted
\* and the rest are tried: the first n fail, and the others go through.
Wipe(n) ==
  /\ tool = "wipe" /\ ~how.dry
  /\ rows' = rows \cap {DeleteSteps[i] : i \in 1..n}
  /\ Exit(IF n > 0 THEN "failed" ELSE "done")
  /\ UNCHANGED <<resting, held, how, listed, toClose, errors, refilled>>

\* The rows are counted, and left.
CountRows ==
  /\ tool = "wipe" /\ how.dry
  /\ Exit(IF errors THEN "failed" ELSE "done")
  /\ UNCHANGED <<resting, held, rows, how, listed, toClose, errors, refilled>>

ResetStep ==
  \/ Connect \/ ListOrders \/ ListPositions \/ CancelAll
  \/ \E s \in Symbols : ClosePosition(s)
  \/ AllClosed \/ Decide \/ CountRows
  \/ \E n \in 0..Len(DeleteSteps) : Wipe(n)

\* The process dies: a deletion that was not committed is undone.
ToolDies ==
  /\ tool # "off"
  /\ tool' = "off"
  /\ UNCHANGED <<resting, held, rows, how, listed, toClose, errors, result, refilled>>

=============================================================================
