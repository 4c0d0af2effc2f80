---------------------------- MODULE Maintenance ----------------------------
(***************************************************************************)
(* The database across starts, crashes, upgrades and resets: the server,   *)
(* whose start builds a manager and whose scheduled tasks build theirs     *)
(* side by side (SchemaMigration), and the reset tool, which runs while    *)
(* the server is stopped (TradingReset).  The first file is any of the     *)
(* ones an earlier version of the program has left behind, or none; the    *)
(* behaviours with resets start from a present one, which the tool's own   *)
(* manager then leaves as it is.  The operator runs bybit_migrate, too,    *)
(* between two runs of the server.                                         *)
(***************************************************************************)
EXTENDS SchemaMigration, TradingReset

CONSTANTS Tasks      \* threads of the scheduler's pool

ASSUME ThreadsAssumption ==
  /\ Threads = Tasks \cup {"boot", "tool", "cli"}
  /\ Tasks \cap {"boot", "tool", "cli"} = {}

VARIABLES
  up,        \* the server has started
  drill,     \* "upgrade", "migrate" or "reset": what this behaviour is about
  edited     \* what the operator has chosen: "prompts", "DAILY", "CAP", or "OLD"
             \* (by an earlier version)

vars == <<schemaVars, resetVars, up, drill, edited>>

\* The files the program may be started on.
TablesOf(names) == {<<t, "id">> : t \in names}

Versions ==
  [none      |-> {},
   \* before trades were kept, with the first heartbeat
   plain     |-> TablesOf({"settings", "orders", "heartbeat_log"})
                   \cup {<<"settings", "ticker">>, <<"heartbeat_log", "ib_ok">>},
   \* with trades and a history, before their identifiers
   traded    |-> TablesOf({"settings", "orders", "heartbeat_log", "trades",
                           "portfolio_history", "forecast_run_links"})
                   \cup {<<"settings", "ticker">>, <<"heartbeat_log", "bybit_ok">>},
   \* a settings table of another shape
   malformed |-> TablesOf({"settings", "orders"}) \cup {<<"orders", "trade_uid">>},
   current   |-> CompleteSchema]

Keys == {"OLD", "DAILY", "CAP"}

Init ==
  /\ \E v \in DOMAIN Versions :
       /\ schema = Versions[v]
       /\ file = (v # "none")
       /\ seeded = IF v = "none" THEN "none" ELSE "default"
       /\ drill \in CASE v = "current" -> {"upgrade", "reset"}
                      [] v \in {"plain", "traded"} -> {"upgrade", "migrate"}
                      [] OTHER -> {"upgrade"}
       /\ \/ config = [k \in Keys |-> "none"] /\ edited = {}
          \/ /\ v \notin {"none", "current"} /\ drill = "upgrade"
             /\ config = [k \in Keys |-> IF k = "OLD" THEN "chosen" ELSE "none"]
             /\ edited = {"OLD"}
  /\ phase = [t \in Threads |-> "idle"]
  /\ at = [t \in Threads |-> 1]
  /\ note = [t \in Threads |-> "none"]
  /\ whole = [t \in Threads |-> FALSE]
  /\ InitReset
  /\ up = FALSE

TypeOK ==
  /\ TypeOKReset
  /\ phase \in [Threads -> Parts]
  /\ note \in [Threads -> {"none", "new", "missing", "chosen"}]
  /\ config \in [Keys -> {"none", "default", "percent", "chosen", "edited"}]
  /\ seeded \in {"none", "default", "edited"}
  /\ up \in BOOLEAN /\ drill \in {"upgrade", "migrate", "reset"}
  /\ edited \subseteq {"prompts"} \cup Keys

\* A server is being started, or a tool runs.
Busy == phase["boot"] \notin {"idle", "using"} \/ phase["cli"] # "idle" \/ tool # "off"

\* t has no use for its manager any more.
Leaves(t) ==
  /\ phase' = [phase EXCEPT ![t] = "idle"]
  /\ whole' = [whole EXCEPT ![t] = FALSE]

\* The lifespan of the server: its manager first.
StartServer ==
  /\ ~up /\ ~Busy
  /\ Construct("boot")
  /\ Forgotten
  /\ UNCHANGED <<up, drill, edited>>

ServerUp ==
  /\ ~up /\ phase["boot"] = "using"
  /\ up' = TRUE
  /\ Leaves("boot")
  /\ UNCHANGED <<file, schema, config, seeded, at, note, resetVars, drill, edited>>

\* A scheduled task builds its own manager.
StartTask(t) ==
  /\ up
  /\ Construct(t)
  /\ UNCHANGED <<resetVars, up, drill, edited>>

Constructing(t) ==
  /\ ConstructorStep(t)
  /\ UNCHANGED <<resetVars, up, drill, edited>>

\* The operator's edits reach the database through the server.
EditPrompt ==
  /\ up /\ drill = "upgrade"
  /\ seeded' = "edited"
  /\ edited' = edited \cup {"prompts"}
  /\ UNCHANGED <<file, schema, config, phase, at, note, whole, resetVars, up, drill>>

EditConfig ==
  /\ up /\ drill # "reset"
  /\ LET key == IF drill = "migrate" THEN "CAP" ELSE "DAILY" IN
       /\ config' = [config EXCEPT ![key] = "edited"]
       /\ edited' = edited \cup {key}
  /\ UNCHANGED <<file, schema, seeded, phase, at, note, whole, resetVars, up, drill>>

\* The server stops or dies, with every thread wherever it is.
ServerDies ==
  /\ tool = "off"
  /\ up' = FALSE
  /\ phase' = [t \in Threads |-> "idle"]
  /\ at' = [t \in Threads |-> 1]
  /\ note' = [t \in Threads |-> "none"]
  /\ whole' = [t \in Threads |-> FALSE]
  /\ UNCHANGED <<file, schema, config, seeded, resetVars, drill, edited>>

\* bybit_migrate from the command line, with the server stopped.
StartMigration ==
  /\ ~up /\ ~Busy /\ drill = "migrate"
  /\ RunMigration
  /\ UNCHANGED <<resetVars, up, drill, edited>>

\* The reset, on an existing file and with the server stopped.
StartReset ==
  /\ ~up /\ ~Busy /\ file /\ drill = "reset"
  /\ RunTool
  /\ Construct("tool")
  /\ UNCHANGED <<up, drill, edited>>

Reset ==
  /\ \/ /\ phase["tool"] = "using"
        /\ \E mode \in Modes, dry \in BOOLEAN : AfterConstruction(mode, dry)
     \/ ResetStep
     \/ \E s \in Symbols : Fill(s)
  /\ IF tool' = "off" THEN Leaves("tool") ELSE UNCHANGED <<phase, whole>>
  /\ UNCHANGED <<file, schema, config, seeded, at, note, up, drill, edited>>

ResetDies ==
  /\ ToolDies
  /\ Leaves("tool")
  /\ at' = [at EXCEPT !["tool"] = 1]
  /\ note' = [note EXCEPT !["tool"] = "none"]
  /\ UNCHANGED <<file, schema, config, seeded, up, drill, edited>>

Next ==
  \/ StartServer \/ ServerUp \/ ServerDies
  \/ \E t \in Tasks : StartTask(t)
  \/ \E t \in Threads : Constructing(t)
  \/ EditPrompt \/ EditConfig \/ StartMigration
  \/ StartReset \/ Reset \/ ResetDies

\* Threads run on, a server that is asked to start comes up, and its scheduler
\* goes on starting tasks.
Fairness ==
  /\ \A t \in Threads : WF_vars(Constructing(t))
  /\ \A t \in Tasks : WF_vars(StartTask(t))

Spec == Init /\ [][Next]_vars /\ Fairness

-----------------------------------------------------------------------------
\* What the operator chose survives: a prompt template is not replaced by the
\* default of a later start, a setting not by the default of a manager or of the
\* operator's own migration, and the staleness limit is under its new key or
\* still under the old one, whatever part of an upgrade a crash has cut off.
ChoicesKept ==
  /\ "prompts" \in edited => seeded = "edited"
  /\ \A k \in {"DAILY", "CAP"} : k \in edited => config[k] = "edited"
  /\ edited \cap {"OLD", "DAILY"} = {"OLD"} => "chosen" \in {config["OLD"], config["DAILY"]}

\* A manager that met no error has the whole schema under it, even if others
\* were changing the file at the same time.
ManagerHasSchema ==
  \A t \in Threads : phase[t] = "using" /\ whole[t] => Complete

\* The one script whose errors nobody catches never has one: by the time it runs
\* every column it indexes is there, so no start and no task is lost to it.
NoStartRaises ==
  \A t \in Threads : phase[t] = "ensure" => ~Fails(Current(t), schema)

\* An upgrade, however it is cut short or overlaps with another, keeps what was
\* chosen and leaves every manager a file it can work with.
UpgradeIsSound == TypeOK /\ ChoicesKept /\ ManagerHasSchema /\ NoStartRaises

\* The trading rows are deleted only after the exchange has been cleared of all
\* that it reported: no such order rests, and a position that is there again
\* comes from an order filled since.
WipedMeansClosed ==
  tool = "off" /\ how.mode = "full" /\ ~how.dry /\ result \in {"done", "failed"} =>
    /\ resting \cap listed.orders = {}
    /\ held \cap listed.held \subseteq refilled

\* A reset that reports success has left no row behind.
DoneMeansEmpty ==
  tool = "off" /\ result = "done" /\ how.mode # "bybit_only" /\ ~how.dry => rows = {}

\* A reset leaves the exchange and the tables in step, or says that it did not.
ResetIsSound == WipedMeansClosed /\ DoneMeansEmpty

\* Whatever file the server starts on and however often it is killed meanwhile,
\* once it stays up its schema becomes complete and stays so.
SchemaCompletes == <>[]up => <>[]Complete
=============================================================================
