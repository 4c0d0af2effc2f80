------------------------------ MODULE Console ------------------------------
(***************************************************************************)
(* The operator's console and the server behind it: the settings that name *)
(* the account, the table of tickers edited by several clients from what   *)
(* each of them loaded, and the operation "Place Trade" of a client, whose *)
(* request starts a submission and may give up before it is answered.      *)
(***************************************************************************)
EXTENDS TradingAccount, Activities

CONSTANTS Operator,  \* the clients that edit the table of tickers
          Cast,      \* bound: the actors that can be at work in one behaviour
          place,     \* the operation "Place Trade"
          accounts   \* the operation "Sync Accounts"

Actor == {"settings", "tickers", "client", "jobs", "orders", "sync"}

ASSUME ConsoleAssumption ==
  /\ {place, accounts} \subseteq Op /\ place # accounts
  /\ Cast \subseteq SUBSET Actor

VARIABLES row,     \* the ticker's row of settings: "absent", "open" or "blocked"
          wanted,  \* history: it was added and not deleted since
          loaded,  \* the clients whose table, as they loaded it, shows the ticker
          cast     \* the actors at work in this behaviour

vars == <<accountVars, activityVars, row, wanted, loaded, cast>>
tickerVars == <<row, wanted, loaded, cast>>

TypeOK ==
  /\ AccountTypeOK /\ ActivityTypeOK
  /\ row \in {"absent", "open", "blocked"}
  /\ wanted \in BOOLEAN
  /\ loaded \subseteq Operator
  /\ cast \in Cast

Init ==
  /\ AccountInit /\ ActivityInit
  /\ row \in {"open", "blocked"}
  /\ wanted = TRUE
  /\ loaded = {}
  /\ cast \in Cast

-----------------------------------------------------------------------------
(* The table of tickers.                                                   *)

Editing == "tickers" \in cast /\ Handling /\ UNCHANGED activityVars

\* A change of the row is one more setting that a submission may have missed.
SetRow(r) ==
  /\ row' = r
  /\ submission' = [submission EXCEPT !.settled = FALSE]
  /\ UNCHANGED <<settingsVars, up, worker, client, refresh, sync, balance, failures>>

LoadTickers(o) ==
  /\ Editing
  /\ loaded' = IF row = "absent" THEN loaded \ {o} ELSE loaded \cup {o}
  /\ UNCHANGED <<accountVars, row, wanted, cast>>

\* POST /tickers: refused when the ticker is there.
AddTicker(o) ==
  /\ Editing /\ row = "absent"
  /\ SetRow("open")
  /\ wanted' = TRUE
  /\ loaded' = loaded \cup {o}
  /\ UNCHANGED cast

\* Mutant: the row is upserted without asking whether it is still there.
SaveTickerBlindly(o) ==
  /\ Editing /\ o \in loaded
  /\ SetRow("open")
  /\ UNCHANGED <<wanted, loaded, cast>>

\* PUT /tickers/{ticker}, for a row of the table as the client loaded it: the
\* row is replaced, and with it what the client does not send.
SaveTicker(o) ==
  /\ Editing /\ o \in loaded
  /\ row # "absent"
  /\ SetRow("open")
  /\ UNCHANGED <<wanted, loaded, cast>>

DeleteTicker ==
  /\ Editing /\ row # "absent"
  /\ SetRow("absent")
  /\ wanted' = FALSE
  /\ UNCHANGED <<loaded, cast>>

\* trading_blocked is set in the database itself.
BlockTicker ==
  /\ Editing /\ row = "open"
  /\ SetRow("blocked")
  /\ UNCHANGED <<wanted, loaded, cast>>

\* submit_signal: is_ticker_known; a failed read refuses the order.
CheckKnown ==
  /\ submission.at = "ticker"
  /\ \/ /\ submission' = IF row = "absent" THEN Unsent ELSE [submission EXCEPT !.at = "block"]
        /\ UNCHANGED failures
     \/ /\ failures < MaxFailures /\ failures' = failures + 1
        /\ submission' = Unsent
  /\ UNCHANGED <<settingsVars, up, worker, client, refresh, sync, balance>>

\* Mutant: the answer of the database is not looked at.
CheckBlockedNever ==
  /\ submission.at = "block"
  /\ submission' = [submission EXCEPT !.at = "balance"]
  /\ UNCHANGED <<settingsVars, up, worker, client, refresh, sync, balance, failures>>

\* Then is_ticker_blocked, on a connection of its own: a ticker without a row is
\* not blocked, nor is one whose row cannot be read.
CheckBlocked ==
  /\ submission.at = "block"
  /\ \/ /\ submission' = IF row = "blocked" THEN Unsent ELSE [submission EXCEPT !.at = "balance"]
        /\ UNCHANGED failures
     \/ /\ failures < MaxFailures /\ failures' = failures + 1
        /\ submission' = [submission EXCEPT !.at = "balance", !.unread = TRUE]
  /\ UNCHANGED <<settingsVars, up, worker, client, refresh, sync, balance>>

-----------------------------------------------------------------------------
(* The operations of the client.                                          *)

\* Place Trade, unless the row's trade is already being placed.
PlaceTrade(t) == Click(place, t)

SyncAccounts(t) == Click(accounts, t)

Requests(o, t) ==
  /\ up /\ thread[t].op = o /\ thread[t].at = "working"
  /\ Becomes(t, "waiting")
  /\ UNCHANGED <<run, held, callbacks, tickerVars>>

\* The request reaches the server: a submission begins, unless the worker is
\* not running or one of the ticker is going on.
RequestTrade(t) ==
  /\ Requests(place, t)
  /\ IF worker /\ submission.at = "idle" THEN BeginSubmission ELSE UNCHANGED submission
  /\ UNCHANGED <<settingsVars, up, worker, client, refresh, sync, balance, failures>>

\* POST /accounts/sync: 503 without the worker, 502 without a wallet.
RequestSync(t) ==
  /\ Requests(accounts, t)
  /\ IF worker /\ sync.at = "idle" /\ Account(client) # None THEN FetchWallet
     ELSE UNCHANGED accountVars

Activity ==
  \E t \in Thread : \/ PlaceTrade(t) \/ SyncAccounts(t)
                    \/ Reports(t) \/ CallsFinished(t) \/ DropsCallbacks(t)

ClientSteps == "client" \in cast /\ Activity /\ UNCHANGED <<accountVars, tickerVars>>

\* A job of the server submits orders of its own.
JobSubmits ==
  /\ BeginSubmission
  /\ UNCHANGED <<settingsVars, up, worker, client, refresh, sync, balance, failures>>

SubmissionStep ==
  ReadMode \/ ReadConfirmed \/ CheckKnown \/ CheckBlocked \/ GetBalance \/ PlaceBracket \/ Return

SyncStep == "sync" \in cast /\ (FetchWallet \/ PersistAccount)

Server ==
  \/ "settings" \in cast /\ (SaveSettings \/ SwitchProfile \/ SaveKey \/ BeginSave \/ EndSave)
  \/ StartServer \/ StopServer
  \/ "jobs" \in cast /\ \E r \in Refresher : RefreshStep(r)
  \/ "orders" \in cast /\ (JobSubmits \/ SubmissionStep)
  \/ SyncStep

Next ==
  \/ Server /\ UNCHANGED <<activityVars, tickerVars>>
  \/ ClientSteps
  \/ \E t \in Thread : RequestTrade(t) \/ RequestSync(t)
  \/ \E o \in Operator : LoadTickers(o) \/ AddTicker(o) \/ SaveTicker(o)
  \/ DeleteTicker \/ BlockTicker

Spec == Init /\ [][Next]_vars

\* The jobs that need prices and the synchronisation come round again and
\* again and a save of the file is finished, while the server runs.
FairSpec ==
  /\ Spec
  /\ WF_vars(EndSave /\ UNCHANGED <<activityVars, tickerVars>>)
  /\ \A r \in Refresher : WF_vars("jobs" \in cast /\ RefreshStep(r) /\ UNCHANGED <<activityVars, tickerVars>>)
  /\ WF_vars(SyncStep /\ UNCHANGED <<activityVars, tickerVars>>)

-----------------------------------------------------------------------------
\* bybit_config.py: whatever reads fail, and in whatever order the settings
\* change under a load, an order reaches the live account only if the operator
\* had turned the demo off, chosen the live profile and enabled trading.
LiveOnlyWhenChosen ==
  submission.account = "live" => {"demo", "profile", "mode"} \subseteq stores.changed

\* bybit_order_manager.py: if nothing was stored since a submission began, it
\* places an order only as the settings allow and for a ticker of the table,
\* and for a blocked one only if the read of trading_blocked failed: that test
\* fails open, those of the mode and of the table refuse.
SettingsObeyed ==
  submission.at = "placed" /\ submission.settled =>
    /\ stored.mode # "disabled"
    /\ stored.mode = "live" => stored.confirmed
    /\ row # "absent"
    /\ row = "blocked" => submission.unread

\* bybit_client.py, bybit_config.py: once the process has a client it never
\* loses its keys, though secrets.ini is empty while it is being written.
ClientKeepsKeys == client.made => client.keys # None

\* Whatever is read and stored meanwhile, an order goes only where the operator's
\* settings send it, through a client that has keys; a failed read lets through
\* nothing but the order of a blocked ticker.
OrdersFollowSettings == TypeOK /\ LiveOnlyWhenChosen /\ SettingsObeyed /\ ClientKeepsKeys

\* consensus_tab.py and the others: a control is not given back while a task
\* it started is at work, though on_finished runs in the task's thread.
HeldWhileWorking == HeldAtWork

\* endpoints.py update_ticker: saving a table loaded earlier does not bring back
\* a ticker another client deleted meanwhile.
DeletedTickerStaysOut == row # "absent" => wanted

\* What the tabs show and store is not ahead of what was done, nor behind it.
TabsAreTrue == HeldWhileWorking /\ DeletedTickerStaysOut

\* The client that serves requests ends up as the settings say, and the row of
\* the active profile ends up showing that account's balance.
SettingsTakeEffect ==
  <>[](up /\ "jobs" \in cast /\ stored.profile \in file) =>
    <>[](client.keys = stored.profile /\ client.demo = stored.demo)

BalancesSettle ==
  <>[](worker /\ {"jobs", "sync"} \subseteq cast /\ stored.profile \in file) =>
    <>[](Account(client) # None => balance[stored.profile] = Account(client))

\* Both: no setting and no balance of an earlier account stays in use.
AccountSettles == SettingsTakeEffect /\ BalancesSettle
=============================================================================
