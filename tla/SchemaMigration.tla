-------------------------- MODULE SchemaMigration --------------------------
(***************************************************************************)
(* The schema of the database and the constructor that brings it up to     *)
(* date: SQLiteManager.__init__ (scripts/core/sqlite_manager.py) with      *)
(* _init_db, _seed_defaults, _migrate_schema and the steps it borrows from *)
(* scripts/core/bybit_migrate.py.                                          *)
(*                                                                         *)
(* Every scheduled task builds a manager of its own, so constructors run   *)
(* side by side in the pool threads; a statement that changes the schema   *)
(* commits by itself, so they interleave statement by statement and the    *)
(* process may die between any two.  The thread "cli" is the operator's    *)
(* own run of bybit_migrate, which takes some of the same steps in its own *)
(* order.                                                                  *)
(*                                                                         *)
(* schema is the set of <<table, column>> pairs of the file; a table is    *)
(* there when its "id" is.  Tables and columns that no statement treats    *)
(* differently are represented by one of them.                             *)
(***************************************************************************)
EXTENDS Naturals, Sequences, FiniteSets

CONSTANTS Threads       \* the constructors that may run side by side

VARIABLES
  file,      \* the database file exists
  schema,    \* set of <<table, column>>
  config,    \* key -> the kind of value it holds, "none" when absent
  seeded,    \* the prompt templates: "none", "default", or "edited"
  phase,     \* thread -> the part of the constructor it is in
  at,        \* thread -> the next statement of that part
  note,      \* thread -> what the constructor has read and not used yet
  whole      \* thread -> it has had to give up no part of its work

schemaVars == <<file, schema, config, seeded, phase, at, note, whole>>

Exists(t) == <<t, "id">> \in schema

Table(t, columns) == [kind |-> "table", table |-> t, columns |-> columns]

Index(t, column) == [kind |-> "index", table |-> t, columns |-> {column}]

Column(t, column) == [kind |-> "column", table |-> t, columns |-> {column}]

Pairs(s) == {<<s.table, c>> : c \in s.columns}

\* _CREATE_TABLES, the tables of settings and prices.
SettingsTables == << Table("settings", {"ticker"}) >>

\* _CREATE_TABLES, from the accounts to the orders.
OrdersTables == << Table("orders", {"trade_uid"}), Index("orders", "trade_uid") >>

\* _CREATE_TABLES, the rest: the run history, the trades and the ledgers.
LedgerTables ==
  << Table("heartbeat_log", {"bybit_ok"}), Table("trades", {"trade_uid"}),
     Index("trades", "trade_uid"), Table("portfolio_history", {"row_type"}),
     Index("portfolio_history", "row_type") >>

CreateTables == SettingsTables \o OrdersTables \o LedgerTables

\* Mutant: a column that CREATE TABLE has and the migration has not.
MissingColumnsForgotten ==
  << Column("settings", "sector"), Column("forecast_run_links", "r_multiple"),
     Column("trades", "trade_uid"), Column("portfolio_history", "row_type") >>

\* The columns _migrate_schema adds to tables of an older file.
MissingColumns ==
  << Column("settings", "sector"), Column("forecast_run_links", "r_multiple"),
     Column("orders", "trade_uid"), Column("trades", "trade_uid"),
     Column("portfolio_history", "row_type") >>

\* The second script: tables an older file may lack.
OrderTables ==
  << Table("orders", {"trade_uid"}), Index("orders", "trade_uid"),
     Table("heartbeat_log", {"bybit_ok"}), Table("forecast_run_links", {"r_multiple"}) >>

TradeTables == << Table("trades", {"trade_uid"}), Index("trades", "trade_uid") >>

EnsureTables == OrderTables \o TradeTables

\* bybit_migrate: the columns of an order, of a trade and of a ticker.
OrderColumns ==
  << Column("orders", "bybit_order_id"), Column("orders", "bybit_order_link_id") >>

TradeColumns == << Column("trades", "symbol") >>

TickerColumns == << Column("settings", "leverage") >>

\* bybit_migrate: its own tables.
BybitTables == << Table("bybit_order_transactions", {}) >>

MetaTables == << Table("perp_market_snapshots", {}) >>

HeartbeatColumns == << Column("heartbeat_log", "bybit_ok") >>

\* The parts of a constructor that are lists of statements.
Script(p) ==
  CASE p = "create"  -> CreateTables
    [] p = "columns" -> MissingColumns
    [] p = "ensure"  -> EnsureTables
    [] p = "orders"  -> OrderColumns
    [] p = "trades"  -> TradeColumns
    [] p = "tickers" -> TickerColumns
    [] p = "bybit"   -> BybitTables
    [] p = "meta"    -> MetaTables
    [] p = "heartbeat" -> HeartbeatColumns

\* The parts that add a column only after a look for it.
Looking == {"orders", "trades", "tickers", "heartbeat"}

Scripts == {"create", "columns", "ensure", "bybit", "meta"} \cup Looking

\* The functions of bybit_migrate, in the order of migrate_to_bybit.
CliOrder == <<"orders", "trades", "tickers", "heartbeat", "bybit", "defaults">>

\* Mutant: the old keys are deleted first.
MigrationOrderSwapped ==
  <<"columns", "rename", "ensure", "keys", "drop", "bridge", "carry", "settings", "replace">>
    \o CliOrder \o <<"meta">>

\* The parts of _migrate_schema, in their order.
MigrationOrder ==
  <<"columns", "rename", "ensure", "keys", "bridge", "carry", "drop", "settings", "replace">>
    \o CliOrder \o <<"meta">>

\* A manager's parts, and those of the operator's run.
Order(t) == IF t = "cli" THEN CliOrder ELSE MigrationOrder

\* What a statement meets in the file: a table that exists is left as it is, an
\* index over a column the table lacks and a column that is already there are
\* errors of SQLite.
Fails(s, file_schema) ==
  CASE s.kind = "table"  -> FALSE
    [] s.kind = "index"  -> ~(Pairs(s) \subseteq file_schema)
    [] s.kind = "column" -> <<s.table, "id">> \notin file_schema
                            \/ Pairs(s) \subseteq file_schema

Effect(s) ==
  CASE s.kind = "table"  -> IF Exists(s.table) THEN schema
                            ELSE schema \cup Pairs(s) \cup {<<s.table, "id">>}
    [] s.kind = "index"  -> schema
    [] s.kind = "column" -> schema \cup Pairs(s)

HeartbeatOld == <<"heartbeat_log", "ib_ok">>
HeartbeatNew == <<"heartbeat_log", "bybit_ok">>

\* Mutant: the column is looked for under the name other tables have for it.
MalformedBySymbol(file_schema) ==
  <<"settings", "id">> \in file_schema /\ <<"settings", "symbol">> \notin file_schema

Malformed(file_schema) ==
  <<"settings", "id">> \in file_schema /\ <<"settings", "ticker">> \notin file_schema

\* What finds nothing to do, and would find nothing later either, is passed over
\* together with the statement before it.
NoWork(s, file_schema) ==
  IF s.kind = "table" THEN <<s.table, "id">> \in file_schema
  ELSE Fails(s, file_schema) <=> s.kind = "column"

HasWork(p, file_schema, keys) ==
  CASE p \in Scripts  -> \E i \in 1..Len(Script(p)) : ~NoWork(Script(p)[i], file_schema)
    [] p = "rename"   -> HeartbeatOld \in file_schema /\ HeartbeatNew \notin file_schema
    [] p = "keys"     -> keys["DAILY"] = "none" \/ keys["CAP"] = "none"
    [] p = "defaults" -> keys["CAP"] = "none"
    [] p \in {"bridge", "drop"} -> keys["OLD"] # "none"
    [] p = "settings" -> Malformed(file_schema)
    [] p \in {"carry", "replace"} -> FALSE

Least(S) == CHOOSE i \in S : \A j \in S : i <= j

GoTo(t, p) ==
  /\ phase' = [phase EXCEPT ![t] = p]
  /\ at' = [at EXCEPT ![t] = 1]

\* On to the first of t's parts after the done ones that finds work; the
\* manager is then in use, the operator's run over.
NextPart(t, done) ==
  LET ahead == {i \in (done + 1)..Len(Order(t)) : HasWork(Order(t)[i], schema', config')} IN
  GoTo(t, IF ahead # {} THEN Order(t)[Least(ahead)] ELSE IF t = "cli" THEN "idle" ELSE "using")

\* On to the next part after p of t's constructor; a new file is seeded instead.
EndPart(t, p) ==
  IF p = "create"
  THEN IF note[t] = "new" THEN GoTo(t, "seed") ELSE NextPart(t, 0)
  ELSE NextPart(t, CHOOSE i \in 1..Len(Order(t)) : Order(t)[i] = p)

\* On to the next statement of a script, or to the next part.
Advance(t) ==
  LET script == Script(phase[t])
      ahead == {i \in (at[t] + 1)..Len(script) : ~NoWork(script[i], schema')} IN
  IF ahead = {} THEN EndPart(t, phase[t])
  ELSE /\ at' = [at EXCEPT ![t] = Least(ahead)]
       /\ UNCHANGED phase

Current(t) == Script(phase[t])[at[t]]

-----------------------------------------------------------------------------
\* SQLiteManager(...): the file is looked for before the connection makes it.
Construct(t) ==
  /\ phase[t] \in {"idle", "using"}
  /\ note' = [note EXCEPT ![t] = IF file THEN "none" ELSE "new"]
  /\ whole' = [whole EXCEPT ![t] = file]
  /\ file' = TRUE
  /\ GoTo(t, "create")
  /\ UNCHANGED <<schema, config, seeded>>

\* migrate_to_bybit on an existing file.
RunMigration ==
  /\ phase["cli"] = "idle" /\ file
  /\ UNCHANGED <<file, schema, config, seeded, note, whole>>
  /\ NextPart("cli", 0)

\* A statement of the first script.  An index over a missing column ends the
\* script; the constructor logs it and goes on.
CreateStatement(t) ==
  /\ phase[t] = "create"
  /\ UNCHANGED <<file, config, seeded, note>>
  /\ IF Fails(Current(t), schema)
     THEN /\ UNCHANGED schema
          /\ EndPart(t, "create")
          /\ whole' = [whole EXCEPT ![t] = FALSE]
     ELSE /\ schema' = Effect(Current(t))
          /\ Advance(t)
          /\ UNCHANGED whole

\* INSERT OR IGNORE of the keys the manager knows.
WithDefaults ==
  [k \in DOMAIN config |-> IF k # "OLD" /\ config[k] = "none" THEN "default" ELSE config[k]]

\* A new file is filled in one transaction, and gets no migration.
SeedDefaults(t) ==
  /\ phase[t] = "seed"
  /\ config' = WithDefaults
  /\ seeded' = "default"
  /\ note' = [note EXCEPT ![t] = "none"]
  /\ GoTo(t, "using")
  /\ UNCHANGED <<file, schema, whole>>

\* One missing column: what cannot be added is skipped.
AddColumn(t) ==
  /\ phase[t] = "columns"
  /\ UNCHANGED <<file, config, seeded, note, whole>>
  /\ schema' = IF Fails(Current(t), schema) THEN schema ELSE Effect(Current(t))
  /\ Advance(t)

\* heartbeat_log.ib_ok becomes bybit_ok.
RenameHeartbeat(t) ==
  /\ phase[t] = "rename"
  /\ UNCHANGED <<file, config, seeded, note, whole>>
  /\ schema' = IF HasWork("rename", schema, config)
               THEN (schema \ {HeartbeatOld}) \cup {HeartbeatNew} ELSE schema
  /\ EndPart(t, "rename")

\* A statement of the second script, whose errors nothing catches.
EnsureStatement(t) ==
  /\ phase[t] = "ensure"
  /\ UNCHANGED <<file, config, seeded, note, whole>>
  /\ IF Fails(Current(t), schema)
     THEN UNCHANGED schema /\ GoTo(t, "idle")
     ELSE schema' = Effect(Current(t)) /\ Advance(t)

\* The keys an older file lacks, with their defaults.
SeedConfigKeys(t) ==
  /\ phase[t] = "keys"
  /\ UNCHANGED <<file, schema, seeded, note, whole>>
  /\ config' = WithDefaults
  /\ EndPart(t, "keys")

\* Mutant: the new key is read instead of the old one.
ReadNewKey(t) ==
  /\ phase[t] = "bridge"
  /\ UNCHANGED <<file, schema, config, seeded, whole>>
  /\ note' = [note EXCEPT ![t] = config["DAILY"]]
  /\ GoTo(t, "carry")

\* The staleness limit an older file kept under another key is read ...
ReadOldKey(t) ==
  /\ phase[t] = "bridge"
  /\ UNCHANGED <<file, schema, config, seeded, whole>>
  /\ note' = [note EXCEPT ![t] = config["OLD"]]
  /\ GoTo(t, "carry")

\* ... carried over to the new key ...
CarryOver(t) ==
  /\ phase[t] = "carry"
  /\ UNCHANGED <<file, schema, seeded, whole>>
  /\ config' = IF note[t] # "none" THEN [config EXCEPT !["DAILY"] = note[t]] ELSE config
  /\ note' = [note EXCEPT ![t] = "none"]
  /\ EndPart(t, "carry")

\* ... and the old key is deleted, in a transaction of its own.
DropDeprecated(t) ==
  /\ phase[t] = "drop"
  /\ UNCHANGED <<file, schema, seeded, note, whole>>
  /\ config' = [config EXCEPT !["OLD"] = "none"]
  /\ EndPart(t, "drop")

\* A settings table without a ticker column is put aside ...
PutSettingsAside(t) ==
  /\ phase[t] = "settings"
  /\ UNCHANGED <<file, config, seeded, note, whole>>
  /\ IF Malformed(schema)
     THEN schema' = {x \in schema : x[1] # "settings"} /\ GoTo(t, "replace")
     ELSE UNCHANGED schema /\ EndPart(t, "settings")

\* ... and an empty one made in its place.
ReplaceSettings(t) ==
  /\ phase[t] = "replace"
  /\ UNCHANGED <<file, config, seeded, note>>
  /\ schema' = Effect(Table("settings", {"ticker"}))
  /\ whole' = [whole EXCEPT ![t] = FALSE]
  /\ EndPart(t, "replace")

\* Mutant: a column that is there ends the function.
LookForColumnReturning(t) ==
  /\ phase[t] \in Looking
  /\ note[t] = "none"
  /\ UNCHANGED <<file, schema, config, seeded, whole>>
  /\ IF Fails(Current(t), schema)
     THEN EndPart(t, phase[t]) /\ UNCHANGED note
     ELSE note' = [note EXCEPT ![t] = "missing"] /\ UNCHANGED <<phase, at>>

\* migrate_orders_table and its like: the column is looked for ...
LookForColumn(t) ==
  /\ phase[t] \in Looking
  /\ note[t] = "none"
  /\ UNCHANGED <<file, schema, config, seeded, whole>>
  /\ IF Fails(Current(t), schema)
     THEN Advance(t) /\ UNCHANGED note
     ELSE note' = [note EXCEPT ![t] = "missing"] /\ UNCHANGED <<phase, at>>

\* ... and added.  Another constructor may have added it in between: the error
\* ends this function, which has the rest of its columns to add.
AddBybitColumn(t) ==
  /\ phase[t] \in Looking
  /\ note[t] = "missing"
  /\ UNCHANGED <<file, config, seeded>>
  /\ note' = [note EXCEPT ![t] = "none"]
  /\ IF Fails(Current(t), schema)
     THEN /\ UNCHANGED schema
          /\ EndPart(t, phase[t])
          /\ whole' = [whole EXCEPT ![t] = FALSE]
     ELSE /\ schema' = Effect(Current(t))
          /\ Advance(t)
          /\ UNCHANGED whole

\* The tables of bybit_migrate and of the meta labels.
CreateLateTable(t) ==
  /\ phase[t] \in {"bybit", "meta"}
  /\ UNCHANGED <<file, config, seeded, note, whole>>
  /\ schema' = Effect(Current(t))
  /\ Advance(t)

\* add_bybit_config_defaults: the keys the file lacks, in one transaction.  The
\* cap on a position is one of them, here in percent; elsewhere in the program
\* it is a fraction.
AddConfigDefaults(t) ==
  /\ phase[t] = "defaults"
  /\ UNCHANGED <<file, schema, seeded, note, whole>>
  /\ config' = [config EXCEPT !["CAP"] = IF @ = "none" THEN "percent" ELSE @]
  /\ EndPart(t, "defaults")

ConstructorStep(t) ==
  \/ CreateStatement(t) \/ SeedDefaults(t) \/ AddColumn(t) \/ RenameHeartbeat(t)
  \/ EnsureStatement(t) \/ SeedConfigKeys(t) \/ ReadOldKey(t) \/ CarryOver(t)
  \/ DropDeprecated(t) \/ PutSettingsAside(t) \/ ReplaceSettings(t)
  \/ LookForColumn(t) \/ AddBybitColumn(t) \/ CreateLateTable(t) \/ AddConfigDefaults(t)

-----------------------------------------------------------------------------
\* The schema every component of the server relies on.
CompleteSchema ==
  UNION {UNION {Pairs(Script(p)[i]) \cup {<<Script(p)[i].table, "id">>} :
                i \in 1..Len(Script(p))} : p \in Scripts}

Complete == CompleteSchema \subseteq schema

Parts == Scripts \cup {MigrationOrder[i] : i \in 1..Len(MigrationOrder)}
           \cup {"idle", "seed", "using", "defaults"}

=============================================================================
