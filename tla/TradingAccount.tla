--------------------------- MODULE TradingAccount ---------------------------
(***************************************************************************)
(* Which account the server trades on.  The operator stores the settings   *)
(* one key at a time and the API keys of a profile in secrets.ini; the     *)
(* process has one global Bybit client, made when the worker starts and    *)
(* made again, from the settings of that moment, by every job that needs   *)
(* prices; the worker serves a request with whatever client is there.  A   *)
(* submission reads the trading mode once, then asks for the balance, then *)
(* places its bracket.  The account synchronisation reads a wallet through *)
(* the client and files it under the profile the settings name afterwards. *)
(***************************************************************************)
EXTENDS Integers

CONSTANTS Refresher,    \* the pool threads of the jobs that remake the client
          MaxStores,    \* bound: settings stored and credentials saved
          MaxFailures   \* bound: reads of the settings that fail

ASSUME TradingAccountAssumption == MaxStores \in Nat /\ MaxFailures \in Nat

Profile == {"demo", "live"}
Mode == {"disabled", "paper", "live"}
None == "none"

\* The settings that say where, and whether, orders are placed.
Settings == [demo : BOOLEAN, profile : Profile, mode : Mode, confirmed : BOOLEAN]

\* Mutant: the mode that cannot be read is left empty.
DefaultEmpty == [demo |-> TRUE, profile |-> "demo", mode |-> "", confirmed |-> FALSE]

\* Mutant: a key that cannot be read puts the client on the live exchange.
DefaultLive == [demo |-> FALSE, profile |-> "demo", mode |-> "disabled", confirmed |-> FALSE]

\* What a key is worth when it is missing, empty or cannot be read.
Default == [demo |-> TRUE, profile |-> "demo", mode |-> "disabled", confirmed |-> FALSE]

NoClient == [demo |-> TRUE, keys |-> None, made |-> FALSE]

VARIABLES stored,      \* the settings in the database
          file,        \* the profiles whose keys secrets.ini holds
          saving,      \* the save of secrets.ini that is being written
          up,          \* the server runs
          worker,      \* the Bybit worker takes requests
          client,      \* the global client
          refresh,     \* the jobs that remake the client
          submission,  \* the submission of an order
          sync,        \* the account synchronisation
          balance,     \* the account whose balance the row of a profile shows
          stores,      \* history: what the operator has stored so far
          failures     \* history: reads that failed so far

settingsVars == <<stored, file, saving, stores>>
accountVars == <<stored, file, saving, up, worker, client, refresh, submission,
                 sync, balance, stores, failures>>

NotSaving == [profile |-> None, kept |-> {}, active |-> FALSE]
Resting == [at |-> "idle", demo |-> TRUE, profile |-> "demo"]
\* `settled`: nothing was stored since it began; `unread`: history, the read of
\* trading_blocked failed.
Unsent == [at |-> "idle", mode |-> "disabled", sized |-> None, account |-> None,
           settled |-> TRUE, unread |-> FALSE]
Unsynced == [at |-> "idle", wallet |-> None]

AccountTypeOK ==
  /\ stored \in Settings
  /\ file \subseteq Profile
  /\ saving \in [profile : Profile \cup {None}, kept : SUBSET Profile, active : BOOLEAN]
  /\ up \in BOOLEAN /\ worker \in BOOLEAN
  /\ client \in [demo : BOOLEAN, keys : Profile \cup {None}, made : BOOLEAN]
  /\ refresh \in [Refresher -> [at : {"idle", "profile", "keys"}, demo : BOOLEAN,
                                profile : Profile]]
  /\ submission \in [at : {"idle", "mode", "confirmed", "ticker", "block", "balance", "bracket",
                           "placed"},
                     mode : Mode, sized : Profile \cup {None},
                     account : Profile \cup {None}, settled : BOOLEAN, unread : BOOLEAN]
  /\ sync \in [at : {"idle", "row"}, wallet : Profile \cup {None}]
  /\ balance \in [Profile -> Profile \cup {None}]
  /\ stores \in [count : 0..MaxStores, changed : SUBSET DOMAIN Default]
  /\ failures \in 0..MaxFailures

Changed(s) == {k \in DOMAIN Default : s[k] # Default[k]}

AccountInit ==
  /\ stored \in Settings
  /\ file = Profile
  /\ saving = NotSaving
  /\ up = FALSE /\ worker = FALSE
  /\ client = NoClient
  /\ refresh = [r \in Refresher |-> Resting]
  /\ submission = Unsent
  /\ sync = Unsynced
  /\ balance = [p \in Profile |-> None]
  /\ stores = [count |-> 0, changed |-> Changed(stored)]
  /\ failures = 0

-----------------------------------------------------------------------------
(* The operator: PUT /config/{key} and PUT /bybit-credentials.  Both are   *)
(* handlers of the event loop without an await: they exclude each other,   *)
(* not the threads.                                                        *)

Handling == up /\ saving = NotSaving

Stores(s) ==
  /\ stores.count < MaxStores
  /\ stored' = s
  /\ stores' = [count |-> stores.count + 1, changed |-> stores.changed \cup Changed(s)]
  /\ submission' = [submission EXCEPT !.settled = FALSE]

StoreSetting(k) ==
  /\ Handling
  /\ \E s \in Settings : s # stored /\ s = [stored EXCEPT ![k] = s[k]] /\ Stores(s)
  /\ UNCHANGED <<file, saving, up, worker, client, refresh, sync, balance, failures>>

\* Of the keys modelled here the settings tab writes the mode; the accounts tab
\* the profile, when another one is active; the keys tab any key.
SaveSettings == StoreSetting("mode")

SwitchProfile == StoreSetting("profile")

SaveKey == \E k \in DOMAIN Default : StoreSetting(k)

\* save_secrets_profile reads the file, then opens it for writing: it is empty
\* until the new content is written.
BeginSave ==
  /\ Handling /\ stores.count < MaxStores
  /\ \E p \in Profile, active \in BOOLEAN :
       saving' = [profile |-> p, kept |-> file, active |-> active]
  /\ file' = {}
  /\ UNCHANGED <<stored, up, worker, client, refresh, submission, sync, balance,
                 stores, failures>>

EndSave ==
  /\ up /\ saving # NotSaving
  /\ file' = saving.kept \cup {saving.profile}
  /\ saving' = NotSaving
  /\ Stores(IF saving.active THEN [stored EXCEPT !.profile = saving.profile] ELSE stored)
  /\ UNCHANGED <<up, worker, client, refresh, sync, balance, failures>>

-----------------------------------------------------------------------------
(* load_bybit_config and the client it makes.                              *)

\* One key is read on a connection of its own; a failed read gives its default.
Reads(k, v) ==
  \/ v = stored[k] /\ UNCHANGED failures
  \/ failures < MaxFailures /\ v = Default[k] /\ failures' = failures + 1

Values(k) == {stored[k], Default[k]}

\* The keys of the profile, if the file holds them at this moment.
KeysOf(p) == IF p \in file THEN p ELSE None

\* Mutant: the credentials are not validated.
MakeClientUnchecked(demo, keys) == client' = [demo |-> demo, keys |-> keys, made |-> TRUE]

\* Mutant: a client that is there is kept.
MakeClientOnce(demo, keys) ==
  client' = IF keys # None /\ ~client.made
            THEN [demo |-> demo, keys |-> keys, made |-> TRUE] ELSE client

\* validate_api_credentials: without keys no client is made.
MakeClient(demo, keys) ==
  client' = IF keys # None THEN [demo |-> demo, keys |-> keys, made |-> TRUE] ELSE client

\* The exchange knows a key only where it was issued.
Account(c) == IF c.keys # None /\ (c.keys = "demo") = c.demo THEN c.keys ELSE None

\* The server starts: its worker needs keys, or it is not started at all.
StartServer ==
  /\ ~up
  /\ up' = TRUE
  /\ worker' = (KeysOf(stored.profile) # None)
  /\ MakeClient(stored.demo, KeysOf(stored.profile))
  /\ UNCHANGED <<stored, file, saving, refresh, submission, sync, balance, stores, failures>>

\* The process ends, or is killed in the middle of anything.
StopServer ==
  /\ up
  /\ up' = FALSE /\ worker' = FALSE
  /\ client' = NoClient
  /\ saving' = NotSaving
  /\ refresh' = [r \in Refresher |-> Resting]
  /\ submission' = Unsent
  /\ sync' = Unsynced
  /\ UNCHANGED <<stored, file, balance, stores, failures>>

ReadDemo(r) ==
  /\ up /\ refresh[r].at = "idle"
  /\ \E v \in Values("demo") :
       /\ Reads("demo", v)
       /\ refresh' = [refresh EXCEPT ![r].at = "profile", ![r].demo = v]
  /\ UNCHANGED <<settingsVars, up, worker, client, submission, sync, balance>>

ReadProfile(r) ==
  /\ refresh[r].at = "profile"
  /\ \E v \in Values("profile") :
       /\ Reads("profile", v)
       /\ refresh' = [refresh EXCEPT ![r].at = "keys", ![r].profile = v]
  /\ UNCHANGED <<settingsVars, up, worker, client, submission, sync, balance>>

Remake(r) ==
  /\ refresh[r].at = "keys"
  /\ MakeClient(refresh[r].demo, KeysOf(refresh[r].profile))
  /\ refresh' = [refresh EXCEPT ![r] = Resting]
  /\ UNCHANGED <<settingsVars, up, worker, submission, sync, balance, failures>>

RefreshStep(r) == ReadDemo(r) \/ ReadProfile(r) \/ Remake(r)

-----------------------------------------------------------------------------
(* submit_signal: the mode, the ticker, the balance, the bracket.          *)

\* The mode and its confirmation are two keys, read one after the other.
BeginSubmission ==
  /\ worker /\ submission.at = "idle"
  /\ submission' = [Unsent EXCEPT !.at = "mode"]

ReadMode ==
  /\ submission.at = "mode"
  /\ \E v \in Values("mode") :
       /\ Reads("mode", v)
       /\ submission' = [submission EXCEPT !.at = "confirmed", !.mode = v]
  /\ UNCHANGED <<settingsVars, up, worker, client, refresh, sync, balance>>

\* Mutant: a live mode needs no confirmation.
RefusedWhenDisabled(mode, confirmed) == mode = "disabled"

\* submit_signal's own test of the mode.
Refused(mode, confirmed) == mode = "disabled" \/ (mode = "live" /\ ~confirmed)

ReadConfirmed ==
  /\ submission.at = "confirmed"
  /\ \E v \in Values("confirmed") :
       /\ Reads("confirmed", v)
       /\ submission' = IF Refused(submission.mode, v) THEN Unsent
                        ELSE [submission EXCEPT !.at = "ticker"]
  /\ UNCHANGED <<settingsVars, up, worker, client, refresh, sync, balance>>

\* The worker answers through the client of the moment.
GetBalance ==
  /\ submission.at = "balance"
  /\ submission' = IF Account(client) = None THEN Unsent
                   ELSE [submission EXCEPT !.at = "bracket", !.sized = Account(client)]
  /\ UNCHANGED <<settingsVars, up, worker, client, refresh, sync, balance, failures>>

PlaceBracket ==
  /\ submission.at = "bracket"
  /\ submission' = IF Account(client) = None THEN Unsent
                   ELSE [submission EXCEPT !.at = "placed", !.account = Account(client)]
  /\ UNCHANGED <<settingsVars, up, worker, client, refresh, sync, balance, failures>>

Return ==
  /\ submission.at = "placed"
  /\ submission' = Unsent
  /\ UNCHANGED <<settingsVars, up, worker, client, refresh, sync, balance, failures>>

-----------------------------------------------------------------------------
(* sync_account_data: periodic in the worker, or over POST /accounts/sync. *)

\* The wallet comes from the account the client is on.
FetchWallet ==
  /\ worker /\ sync.at = "idle"
  /\ Account(client) # None
  /\ sync' = [at |-> "row", wallet |-> Account(client)]
  /\ UNCHANGED <<settingsVars, up, worker, client, refresh, submission, balance, failures>>

\* update_accounts_table: the row of that profile is made or updated.
Files(p, wallet) == balance' = [balance EXCEPT ![p] = wallet]

\* Mutant: the wallet is filed under the demo profile whatever is active.
PersistAccountAsDemo ==
  /\ sync.at = "row"
  /\ Files("demo", sync.wallet)
  /\ sync' = Unsynced
  /\ UNCHANGED <<settingsVars, up, worker, client, refresh, submission, failures>>

\* _persist_account_data: the row is that of the profile stored by now.
PersistAccount ==
  /\ sync.at = "row"
  /\ \E p \in Values("profile") :
       /\ Reads("profile", p)
       /\ Files(p, sync.wallet)
  /\ sync' = Unsynced
  /\ UNCHANGED <<settingsVars, up, worker, client, refresh, submission>>
=============================================================================
