------------------------- MODULE Maintenance_proofs -------------------------
(***************************************************************************)
(* What is proved of Maintenance for any number of scheduled tasks and any *)
(* symbols.                                                                *)
(***************************************************************************)
EXTENDS Maintenance, SequenceTheorems, WellFoundedInduction, TLAPS

-----------------------------------------------------------------------------
(* The reset of the trading state.                                         *)

\* The tool runs on the exchange, and nothing has failed there.
ExchangeInOrder == how.mode # "db_only" /\ ~how.dry /\ ~errors

\* A run that has not come to an end has no result, and starts without errors.
RunHasNoResult ==
  /\ tool # "off" => result = "none"
  /\ tool = "start" => ~errors

\* The reset keeps the exchange on its side: a run of the database alone touches
\* nothing else, and any other that deletes has met no error.
WipeIsCleared ==
  /\ tool = "wipe" /\ ~how.dry => ~errors
  /\ tool \notin {"off", "start", "wipe"} => how.mode # "db_only"

\* No order the tool was told of rests once they are cancelled.
OrdersCancelled ==
  tool \in {"close", "decide", "wipe"} /\ ExchangeInOrder => resting \cap listed.orders = {}

\* A position the tool was told of is gone, still to be closed, or there again.
PositionsClosing ==
  tool \in {"cancel", "close", "decide", "wipe"} /\ ExchangeInOrder =>
    held \cap listed.held \subseteq refilled \cup toClose

AllAreClosed == tool \in {"decide", "wipe"} /\ ExchangeInOrder => toClose = {}

ResetInv ==
  /\ TypeOKReset
  /\ RunHasNoResult /\ WipeIsCleared
  /\ OrdersCancelled /\ PositionsClosing /\ AllAreClosed
  /\ ResetIsSound

\* How the variables of the reset may change: by a step of the tool, by the
\* exchange, by the death of the tool or by what comes with another start.
ResetMoves ==
  \/ Forgotten \/ RunTool
  \/ \E mode \in Modes, dry \in BOOLEAN : AfterConstruction(mode, dry)
  \/ ResetStep
  \/ \E s \in Symbols : Fill(s)
  \/ ToolDies
  \/ UNCHANGED resetVars

LEMMA NextResets == ASSUME [Next]_vars PROVE ResetMoves
<1>1. CASE StartServer
  BY <1>1 DEF StartServer, ResetMoves
<1>2. CASE StartReset
  BY <1>2 DEF StartReset, ResetMoves
<1>3. CASE Reset
  BY <1>3 DEF Reset, ResetMoves
<1>4. CASE ResetDies
  BY <1>4 DEF ResetDies, ResetMoves
<1>5. CASE \/ ServerUp \/ ServerDies \/ EditPrompt \/ EditConfig \/ StartMigration
           \/ (\E t \in Tasks : StartTask(t))
           \/ (\E t \in Threads : Constructing(t))
           \/ UNCHANGED vars
  BY <1>5 DEF ServerUp, ServerDies, EditPrompt, EditConfig, StartMigration, StartTask,
              Constructing, vars, ResetMoves
<1> QED
  BY <1>1, <1>2, <1>3, <1>4, <1>5 DEF Next

LEMMA ResetInit == ASSUME Init PROVE ResetInv
BY DEF Init, InitReset, ResetInv, TypeOKReset, RunHasNoResult, WipeIsCleared,
       OrdersCancelled, PositionsClosing, AllAreClosed, ResetIsSound, WipedMeansClosed,
       DoneMeansEmpty, ExchangeInOrder, Nothing, Modes

\* What a run starts from.
LEMMA ResetStarts ==
  ASSUME ResetInv, Forgotten \/ RunTool
  PROVE  ResetInv'
<1> USE DEF ResetInv, TypeOKReset, RunHasNoResult, WipeIsCleared, OrdersCancelled,
            PositionsClosing, AllAreClosed, ResetIsSound, WipedMeansClosed,
            DoneMeansEmpty, ExchangeInOrder, Modes
<1>1. Nothing \in [orders : SUBSET Symbols, held : SUBSET Symbols]
  BY DEF Nothing
<1>2. CASE Forgotten
  BY <1>1, <1>2 DEF Forgotten
<1>3. CASE RunTool
  BY <1>1, <1>3 DEF RunTool
<1> QED
  BY <1>2, <1>3

LEMMA ResetTypes == ASSUME ResetInv, ResetMoves PROVE TypeOKReset'
<1> USE DEF TypeOKReset, ResetInv
<1>1. CASE Forgotten \/ RunTool
  BY <1>1, ResetStarts
<1>2. CASE \E mode \in Modes, dry \in BOOLEAN : AfterConstruction(mode, dry)
  BY <1>2 DEF AfterConstruction
<1>3. CASE Connect
  BY <1>3 DEF Connect
<1>4. CASE ListOrders
  BY <1>4 DEF ListOrders
<1>5. CASE ListPositions
  BY <1>5 DEF ListPositions
<1>6. CASE CancelAll
  BY <1>6 DEF CancelAll
<1>7. CASE \E s \in Symbols : ClosePosition(s)
  BY <1>7 DEF ClosePosition
<1>8. CASE AllClosed \/ Decide \/ CountRows
  BY <1>8 DEF AllClosed, Decide, CountRows, Exit
<1>9. CASE \E n \in 0 .. Len(DeleteSteps) : Wipe(n)
  BY <1>9 DEF Wipe, Exit
<1>10. CASE \E s \in Symbols : Fill(s)
  BY <1>10 DEF Fill
<1>11. CASE ToolDies \/ UNCHANGED resetVars
  BY <1>11 DEF ToolDies, resetVars
<1> QED
  BY <1>1, <1>2, <1>3, <1>4, <1>5, <1>6, <1>7, <1>8, <1>9, <1>10, <1>11
     DEF ResetMoves, ResetStep

LEMMA ResetNext == ASSUME ResetInv, ResetMoves PROVE ResetInv'
<1> DEFINE Sound == RunHasNoResult /\ WipeIsCleared /\ OrdersCancelled
                    /\ PositionsClosing /\ AllAreClosed /\ ResetIsSound
<1> SUFFICES Sound'
  BY ResetTypes DEF ResetInv
<1> USE DEF ResetInv, TypeOKReset, RunHasNoResult, WipeIsCleared,
            OrdersCancelled, PositionsClosing, AllAreClosed, ResetIsSound,
            WipedMeansClosed, DoneMeansEmpty, ExchangeInOrder
<1>1. CASE Forgotten \/ RunTool
  BY <1>1, ResetStarts
<1>2. CASE \E mode \in Modes, dry \in BOOLEAN : AfterConstruction(mode, dry)
  BY <1>2 DEF AfterConstruction
<1>3. CASE Connect
  BY <1>3 DEF Connect
<1>4. CASE ListOrders
  BY <1>4 DEF ListOrders
<1>5. CASE ListPositions
  BY <1>5 DEF ListPositions
<1>6. CASE CancelAll
  BY <1>6 DEF CancelAll
<1>7. CASE \E s \in Symbols : ClosePosition(s)
  <2>1. PICK s \in Symbols : ClosePosition(s)
    BY <1>7
  <2>2. tool = "close" /\ tool' = tool /\ toClose' = toClose \ {s}
    BY <2>1 DEF ClosePosition
  <2>3. UNCHANGED <<resting, rows, how, listed, result, refilled>>
    BY <2>1 DEF ClosePosition
  <2>4. errors' \/ (held' = held \ {s} /\ s \in held)
    BY <2>1 DEF ClosePosition
  <2>5. errors' \/ (errors' = errors)
    BY <2>1 DEF ClosePosition
  <2>6. PositionsClosing'
    BY <2>2, <2>3, <2>4, <2>5
  <2> QED
    BY <2>2, <2>3, <2>5, <2>6
<1>8. CASE AllClosed
  BY <1>8 DEF AllClosed
<1>9. CASE Decide
  BY <1>9 DEF Decide, Exit
<1>10. CASE CountRows
  BY <1>10 DEF CountRows, Exit
<1>11. CASE \E n \in 0 .. Len(DeleteSteps) : Wipe(n)
  <2>1. PICK n \in 0 .. Len(DeleteSteps) : Wipe(n)
    BY <1>11
  <2>2. n \in Nat /\ (n = 0 => {DeleteSteps[i] : i \in 1 .. n} = {})
    BY DEF DeleteSteps
  <2> QED
    BY <2>1, <2>2 DEF Wipe, Exit
<1>12. CASE \E s \in Symbols : Fill(s)
  BY <1>12 DEF Fill
<1>13. CASE ToolDies
  BY <1>13 DEF ToolDies
<1>14. CASE UNCHANGED resetVars
  BY <1>14 DEF resetVars
<1> QED
  BY <1>1, <1>2, <1>3, <1>4, <1>5, <1>6, <1>7, <1>8, <1>9, <1>10, <1>11, <1>12, <1>13,
     <1>14 DEF ResetMoves, ResetStep

LEMMA ResetInvHolds == Spec => []ResetInv
<1>1. Init => ResetInv
  BY ResetInit
<1>2. ResetInv /\ [Next]_vars => ResetInv'
  BY NextResets, ResetNext
<1> QED
  BY <1>1, <1>2, PTL DEF Spec

\* However the exchange answers, whatever it fills meanwhile and wherever the
\* tool dies, trading rows are deleted only after what the exchange reported has
\* been cleared there, and a reset that reports success has deleted them all.
THEOREM ResetsAreSound == Spec => []ResetIsSound
BY ResetInvHolds, PTL DEF ResetInv

-----------------------------------------------------------------------------
(* The parts of a constructor and their statements.                        *)

\* The least of some numbers is one of them, and below the others.
LEMMA LeastIsLeast ==
  ASSUME NEW S \in SUBSET Nat, S # {}
  PROVE  Least(S) \in S /\ \A j \in S : Least(S) =< j
<1> DEFINE below == {ss \in Nat \X Nat : ss[1] < ss[2]}
<1>1. below = OpToRel(<, Nat)
  BY Zenon DEF OpToRel
<1>2. IsWellFoundedOn(below, Nat)
  BY <1>1, NatLessThanWellFounded, Zenon
<1> HIDE DEF below
<1>3. PICK i \in S : \A j \in S : ~(<<j, i>> \in below)
  BY <1>2, WFMin
<1>4. \A j \in S : i =< j
  <2> SUFFICES ASSUME NEW j \in S, j < i PROVE FALSE
    OBVIOUS
  <2>1. <<j, i>> \in Nat \X Nat /\ <<j, i>>[1] < <<j, i>>[2]
    OBVIOUS
  <2>2. <<j, i>> \in below
    BY <2>1, Zenon DEF below
  <2> QED
    BY <1>3, <2>2
<1> QED
  BY <1>4 DEF Least

\* The parts of _migrate_schema, one after the other.
LEMMA PartsInOrder ==
  /\ Len(MigrationOrder) = 16
  /\ MigrationOrder[1] = "columns" /\ MigrationOrder[2] = "rename"
  /\ MigrationOrder[3] = "ensure" /\ MigrationOrder[4] = "keys"
  /\ MigrationOrder[5] = "bridge" /\ MigrationOrder[6] = "carry"
  /\ MigrationOrder[7] = "drop" /\ MigrationOrder[8] = "settings"
  /\ MigrationOrder[9] = "replace" /\ MigrationOrder[10] = "orders"
  /\ MigrationOrder[11] = "trades" /\ MigrationOrder[12] = "tickers"
  /\ MigrationOrder[13] = "heartbeat" /\ MigrationOrder[14] = "bybit"
  /\ MigrationOrder[15] = "defaults" /\ MigrationOrder[16] = "meta"
<1> DEFINE names == {"columns", "rename", "ensure", "keys", "bridge", "carry", "drop",
                     "settings", "replace", "orders", "trades", "tickers", "heartbeat",
                     "bybit", "defaults", "meta"}
           first == <<"columns", "rename", "ensure", "keys", "bridge", "carry", "drop",
                      "settings", "replace">>
           both == first \o CliOrder
<1>1. first \in Seq(names)
  OBVIOUS
<1>2. CliOrder \in Seq(names)
  BY DEF CliOrder
<1>3. <<"meta">> \in Seq(names)
  OBVIOUS
<1>4. Len(first) = 9
  OBVIOUS
<1>14. Len(CliOrder) = 6
  BY DEF CliOrder
<1>15. Len(<<"meta">>) = 1 /\ <<"meta">>[1] = "meta"
  OBVIOUS
<1> HIDE DEF first, names
<1>5. both \in Seq(names) /\ Len(both) = 15
  <2>1. both \in Seq(names) /\ Len(both) = Len(first) + Len(CliOrder)
    BY <1>1, <1>2, ConcatProperties
  <2> HIDE DEF both
  <2> QED
    BY <2>1, <1>4, <1>14
<1>6. \A i \in 1 .. 15 : both[i] = IF i =< 9 THEN first[i] ELSE CliOrder[i - 9]
  <2>1. \A i \in 1 .. Len(first) + Len(CliOrder) :
          both[i] = IF i =< Len(first) THEN first[i] ELSE CliOrder[i - Len(first)]
    BY <1>1, <1>2, ConcatProperties
  <2> HIDE DEF both
  <2> QED
    BY <2>1, <1>4, <1>14
<1>7. MigrationOrder = both \o <<"meta">>
  BY DEF MigrationOrder, first
<1> HIDE DEF both
<1>8. MigrationOrder \in Seq(names) /\ Len(MigrationOrder) = 16
  <2>1. MigrationOrder \in Seq(names) /\ Len(MigrationOrder) = Len(both) + Len(<<"meta">>)
    BY <1>3, <1>5, <1>7, ConcatProperties
  <2> QED
    BY <2>1, <1>5, <1>15
<1>9. \A i \in 1 .. 16 : MigrationOrder[i] = IF i =< 15 THEN both[i] ELSE "meta"
  <2>1. \A i \in 1 .. Len(both) + Len(<<"meta">>) :
          MigrationOrder[i] = IF i =< Len(both) THEN both[i] ELSE <<"meta">>[i - Len(both)]
    BY <1>3, <1>5, <1>7, ConcatProperties
  <2> QED
    BY <2>1, <1>5, <1>15
<1>10. /\ first[1] = "columns" /\ first[2] = "rename" /\ first[3] = "ensure"
       /\ first[4] = "keys" /\ first[5] = "bridge" /\ first[6] = "carry"
       /\ first[7] = "drop" /\ first[8] = "settings" /\ first[9] = "replace"
  BY DEF first
<1>11. /\ CliOrder[1] = "orders" /\ CliOrder[2] = "trades" /\ CliOrder[3] = "tickers"
       /\ CliOrder[4] = "heartbeat" /\ CliOrder[5] = "bybit" /\ CliOrder[6] = "defaults"
  BY DEF CliOrder
<1>12. \A i \in 1 .. 9 : MigrationOrder[i] = first[i]
  BY <1>6, <1>9
<1>13. \A i \in 10 .. 15 : MigrationOrder[i] = CliOrder[i - 9]
  BY <1>6, <1>9
<1> QED
  BY <1>8, <1>9, <1>10, <1>11, <1>12, <1>13

\* What a part is in the order, the use of the manager after the last.
Place(p) ==
  CASE p = "columns" -> 1 [] p = "rename" -> 2 [] p = "ensure" -> 3 [] p = "keys" -> 4
    [] p = "bridge" -> 5 [] p = "carry" -> 6 [] p = "drop" -> 7 [] p = "settings" -> 8
    [] p = "replace" -> 9 [] p = "orders" -> 10 [] p = "trades" -> 11
    [] p = "tickers" -> 12 [] p = "heartbeat" -> 13 [] p = "bybit" -> 14
    [] p = "defaults" -> 15 [] p = "meta" -> 16 [] p = "using" -> 17 [] OTHER -> 0

LEMMA PlacesInOrder == \A i \in 1 .. 16 : Place(MigrationOrder[i]) = i
BY PartsInOrder, SMTT(60) DEF Place

LEMMA OrderOfPlaces ==
  \A p \in STRING : Place(p) \in 1 .. 16 => MigrationOrder[Place(p)] = p
BY PartsInOrder, SMTT(60) DEF Place

\* The parts of the two long scripts, one after the other.
LEMMA EightInOrder ==
  ASSUME NEW a, NEW b, NEW c, NEW d, NEW e, NEW f, NEW g, NEW h
  PROVE  LET s == <<a>> \o <<b, c>> \o <<d, e, f, g, h>> IN
         /\ Len(s) = 8
         /\ s[1] = a /\ s[2] = b /\ s[3] = c /\ s[4] = d
         /\ s[5] = e /\ s[6] = f /\ s[7] = g /\ s[8] = h
<1> DEFINE all == {a, b, c, d, e, f, g, h}
           x == <<a>>
           y == <<b, c>>
           z == <<d, e, f, g, h>>
           xy == x \o y
           s == xy \o z
<1>1. x \in Seq(all) /\ y \in Seq(all) /\ z \in Seq(all)
  OBVIOUS
<1>2. Len(x) = 1
  OBVIOUS
<1>3. Len(y) = 2
  OBVIOUS
<1>4. Len(z) = 5
  OBVIOUS
<1>5. /\ x[1] = a /\ y[1] = b /\ y[2] = c
      /\ z[1] = d /\ z[2] = e /\ z[3] = f /\ z[4] = g /\ z[5] = h
  OBVIOUS
<1> SUFFICES /\ Len(s) = 8
             /\ s[1] = a /\ s[2] = b /\ s[3] = c /\ s[4] = d
             /\ s[5] = e /\ s[6] = f /\ s[7] = g /\ s[8] = h
  OBVIOUS
<1> HIDE DEF all, x, y, z
<1>7. /\ xy \in Seq(all) /\ Len(xy) = Len(x) + Len(y)
      /\ \A i \in 1 .. Len(x) + Len(y) : xy[i] = IF i =< Len(x) THEN x[i] ELSE y[i - Len(x)]
  BY <1>1, ConcatProperties
<1> HIDE DEF xy
<1>8. /\ Len(s) = Len(xy) + Len(z)
      /\ \A i \in 1 .. Len(xy) + Len(z) : s[i] = IF i =< Len(xy) THEN xy[i] ELSE z[i - Len(xy)]
  <2>1. xy \in Seq(all)
    BY <1>7
  <2> QED
    BY <1>1, <2>1, ConcatProperties
<1> HIDE DEF s
<1>9. Len(xy) = 3 /\ \A i \in 1 .. 3 : xy[i] = IF i = 1 THEN x[1] ELSE y[i - 1]
  BY <1>2, <1>3, <1>7
<1>10. Len(s) = 8 /\ \A i \in 1 .. 8 : s[i] = IF i =< 3 THEN xy[i] ELSE z[i - 3]
  BY <1>4, <1>8, <1>9
<1> QED
  BY <1>5, <1>9, <1>10

LEMMA SixInOrder ==
  ASSUME NEW a, NEW b, NEW c, NEW d, NEW e, NEW f
  PROVE  LET s == <<a, b, c, d>> \o <<e, f>> IN
         /\ Len(s) = 6
         /\ s[1] = a /\ s[2] = b /\ s[3] = c /\ s[4] = d /\ s[5] = e /\ s[6] = f
<1> DEFINE all == {a, b, c, d, e, f}
           x == <<a, b, c, d>>
           y == <<e, f>>
           s == x \o y
<1>1. x \in Seq(all) /\ y \in Seq(all)
  OBVIOUS
<1>2. Len(x) = 4
  OBVIOUS
<1>3. Len(y) = 2
  OBVIOUS
<1>4. x[1] = a /\ x[2] = b /\ x[3] = c /\ x[4] = d /\ y[1] = e /\ y[2] = f
  OBVIOUS
<1> SUFFICES /\ Len(s) = 6
             /\ s[1] = a /\ s[2] = b /\ s[3] = c /\ s[4] = d /\ s[5] = e /\ s[6] = f
  OBVIOUS
<1> HIDE DEF all, x, y
<1>6. /\ Len(s) = Len(x) + Len(y)
      /\ \A i \in 1 .. Len(x) + Len(y) : s[i] = IF i =< Len(x) THEN x[i] ELSE y[i - Len(x)]
  BY <1>1, ConcatProperties
<1> HIDE DEF s
<1>7. Len(s) = 6 /\ \A i \in 1 .. 6 : s[i] = IF i =< 4 THEN x[i] ELSE y[i - 4]
  BY <1>2, <1>3, <1>6
<1> QED
  BY <1>4, <1>7

\* The statements of the first script, and those of the second.
LEMMA CreateScript ==
  LET s == Script("create") IN
  /\ Len(s) = 8
  /\ s[1] = Table("settings", {"ticker"}) /\ s[2] = Table("orders", {"trade_uid"})
  /\ s[3] = Index("orders", "trade_uid") /\ s[4] = Table("heartbeat_log", {"bybit_ok"})
  /\ s[5] = Table("trades", {"trade_uid"}) /\ s[6] = Index("trades", "trade_uid")
  /\ s[7] = Table("portfolio_history", {"row_type"})
  /\ s[8] = Index("portfolio_history", "row_type")
<1>1. Script("create") = SettingsTables \o OrdersTables \o LedgerTables
  BY DEF Script, CreateTables
<1> QED
  BY <1>1, EightInOrder DEF SettingsTables, OrdersTables, LedgerTables

LEMMA EnsureScript ==
  LET s == Script("ensure") IN
  /\ Len(s) = 6
  /\ s[1] = Table("orders", {"trade_uid"}) /\ s[2] = Index("orders", "trade_uid")
  /\ s[3] = Table("heartbeat_log", {"bybit_ok"})
  /\ s[4] = Table("forecast_run_links", {"r_multiple"})
  /\ s[5] = Table("trades", {"trade_uid"}) /\ s[6] = Index("trades", "trade_uid")
<1>1. Script("ensure") = OrderTables \o TradeTables
  BY DEF Script, EnsureTables
<1> QED
  BY <1>1, SixInOrder DEF OrderTables, TradeTables

LEMMA ColumnsScript ==
  LET s == Script("columns") IN
  /\ Len(s) = 5
  /\ s[1] = Column("settings", "sector") /\ s[2] = Column("forecast_run_links", "r_multiple")
  /\ s[3] = Column("orders", "trade_uid") /\ s[4] = Column("trades", "trade_uid")
  /\ s[5] = Column("portfolio_history", "row_type")
BY DEF Script, MissingColumns

LEMMA ShortScripts ==
  /\ Script("orders") = << Column("orders", "bybit_order_id"),
                           Column("orders", "bybit_order_link_id") >>
  /\ Script("trades") = << Column("trades", "symbol") >>
  /\ Script("tickers") = << Column("settings", "leverage") >>
  /\ Script("heartbeat") = << Column("heartbeat_log", "bybit_ok") >>
  /\ Script("bybit") = << Table("bybit_order_transactions", {}) >>
  /\ Script("meta") = << Table("perp_market_snapshots", {}) >>
BY DEF Script, OrderColumns, TradeColumns, TickerColumns, HeartbeatColumns, BybitTables,
       MetaTables

\* The column with which every script makes a table.
MadeWith(table) ==
  CASE table = "settings" -> {"ticker"}
    [] table \in {"orders", "trades"} -> {"trade_uid"}
    [] table = "heartbeat_log" -> {"bybit_ok"}
    [] table = "portfolio_history" -> {"row_type"}
    [] table = "forecast_run_links" -> {"r_multiple"}
    [] OTHER -> {}

\* The tables that the first script has made or found.
FirstTables == {"settings", "orders", "heartbeat_log", "trades", "portfolio_history"}

MakesTable(s) == s.kind = "table" /\ s.columns = MadeWith(s.table)

MakesIndex(s) ==
  /\ s.kind = "index" /\ s.columns = MadeWith(s.table)
  /\ s.table \in {"orders", "trades", "portfolio_history"}

AddsColumn(s) ==
  /\ s.kind = "column" /\ s.columns \cap {"id", "ib_ok", "ticker"} = {}
  /\ s.table \in FirstTables \/ s = Column("forecast_run_links", "r_multiple")

\* What the three kinds of statement say.
LEMMA StatementFields ==
  ASSUME NEW t, NEW c
  PROVE  /\ \A cs : /\ Table(t, cs).kind = "table" /\ Table(t, cs).table = t
                    /\ Table(t, cs).columns = cs
         /\ Index(t, c).kind = "index" /\ Index(t, c).table = t /\ Index(t, c).columns = {c}
         /\ Column(t, c).kind = "column" /\ Column(t, c).table = t
         /\ Column(t, c).columns = {c}
BY DEF Table, Index, Column

LEMMA MadeWithIs ==
  /\ MadeWith("settings") = {"ticker"} /\ MadeWith("orders") = {"trade_uid"}
  /\ MadeWith("trades") = {"trade_uid"} /\ MadeWith("heartbeat_log") = {"bybit_ok"}
  /\ MadeWith("portfolio_history") = {"row_type"}
  /\ MadeWith("forecast_run_links") = {"r_multiple"}
  /\ MadeWith("bybit_order_transactions") = {} /\ MadeWith("perp_market_snapshots") = {}
BY DEF MadeWith

LEMMA StatementsMade ==
  /\ \A t, cs : MadeWith(t) = cs => MakesTable(Table(t, cs))
  /\ \A t \in {"orders", "trades", "portfolio_history"} : \A c :
       MadeWith(t) = {c} => MakesIndex(Index(t, c))
<1>1. ASSUME NEW t, NEW cs, MadeWith(t) = cs PROVE MakesTable(Table(t, cs))
  BY <1>1 DEF MakesTable, Table
<1>2. ASSUME NEW t \in {"orders", "trades", "portfolio_history"}, NEW c, MadeWith(t) = {c}
      PROVE  MakesIndex(Index(t, c))
  BY <1>2 DEF MakesIndex, Index
<1> QED
  BY <1>1, <1>2

LEMMA TablesMade ==
  /\ MakesTable(Table("settings", {"ticker"})) /\ MakesTable(Table("orders", {"trade_uid"}))
  /\ MakesTable(Table("trades", {"trade_uid"}))
  /\ MakesTable(Table("heartbeat_log", {"bybit_ok"}))
  /\ MakesTable(Table("portfolio_history", {"row_type"}))
  /\ MakesTable(Table("forecast_run_links", {"r_multiple"}))
  /\ MakesTable(Table("bybit_order_transactions", {}))
  /\ MakesTable(Table("perp_market_snapshots", {}))
BY MadeWithIs, StatementsMade, Zenon

LEMMA Statements ==
  ASSUME NEW p \in Scripts, NEW i \in 1 .. Len(Script(p))
  PROVE  /\ p \in {"create", "ensure"} => MakesTable(Script(p)[i]) \/ MakesIndex(Script(p)[i])
         /\ p \in {"bybit", "meta"} => MakesTable(Script(p)[i])
         /\ p \in Looking \cup {"columns"} => AddsColumn(Script(p)[i])
<1>1. CASE p = "create"
  <2>1. ASSUME NEW s \in {Script(p)[1], Script(p)[2], Script(p)[4], Script(p)[5], Script(p)[7]}
        PROVE  MakesTable(s)
    BY <1>1, CreateScript, TablesMade
  <2>2. ASSUME NEW s \in {Script(p)[3], Script(p)[6], Script(p)[8]} PROVE MakesIndex(s)
    <3>1. MadeWith("orders") = {"trade_uid"} /\ MadeWith("trades") = {"trade_uid"}
          /\ MadeWith("portfolio_history") = {"row_type"}
      BY MadeWithIs
    <3> QED
      BY <1>1, <3>1, CreateScript, StatementsMade
  <2>3. i \in 1 .. 8 /\ p \notin {"bybit", "meta"} /\ p \notin Looking \cup {"columns"}
    BY <1>1, CreateScript DEF Looking
  <2> QED
    BY <2>1, <2>2, <2>3
<1>2. CASE p = "ensure"
  <2>1. ASSUME NEW s \in {Script(p)[1], Script(p)[3], Script(p)[4], Script(p)[5]}
        PROVE  MakesTable(s)
    BY <1>2, EnsureScript, TablesMade
  <2>2. ASSUME NEW s \in {Script(p)[2], Script(p)[6]} PROVE MakesIndex(s)
    <3>1. MadeWith("orders") = {"trade_uid"} /\ MadeWith("trades") = {"trade_uid"}
      BY MadeWithIs
    <3> QED
      BY <1>2, <3>1, EnsureScript, StatementsMade
  <2>3. i \in 1 .. 6 /\ p \notin {"bybit", "meta"} /\ p \notin Looking \cup {"columns"}
    BY <1>2, EnsureScript DEF Looking
  <2> QED
    BY <2>1, <2>2, <2>3
<1>3. CASE p = "columns"
  BY <1>3, ColumnsScript, StatementFields DEF AddsColumn, FirstTables
<1>4. CASE p = "bybit"
  <2>1. i = 1 /\ Script(p)[1] = Table("bybit_order_transactions", {})
    BY <1>4, ShortScripts
  <2> QED
    BY <1>4, <2>1, TablesMade DEF Looking
<1>5. CASE p = "meta"
  <2>1. i = 1 /\ Script(p)[1] = Table("perp_market_snapshots", {})
    BY <1>5, ShortScripts
  <2> QED
    BY <1>5, <2>1, TablesMade DEF Looking
<1>6. CASE p \in Looking
  BY <1>6, ShortScripts, StatementFields DEF Looking, AddsColumn, FirstTables
<1> QED
  BY <1>1, <1>2, <1>3, <1>4, <1>5, <1>6 DEF Scripts

-----------------------------------------------------------------------------
(* What a step may do to the schema.                                       *)

\* A statement has no more to do in the file: for a column, as long as there is
\* no table.
Left(s, sch) ==
  /\ s.kind = "table" => <<s.table, "id">> \in sch
  /\ s.kind = "index" => Pairs(s) \subseteq sch
  /\ s.kind = "column" => (<<s.table, "id">> \in sch => Pairs(s) \subseteq sch)

\* Nothing is lost but the heartbeat's old column, and a settings table that is
\* malformed; none becomes malformed; and a table comes with its columns.
SchemaStep ==
  /\ \A x \in schema :
       x # HeartbeatOld /\ (x[1] # "settings" \/ ~Malformed(schema)) => x \in schema'
  /\ ~Malformed(schema) => ~Malformed(schema')
  /\ \A t : <<t, "id">> \in schema' /\ <<t, "id">> \notin schema =>
              \A c \in MadeWith(t) : <<t, c>> \in schema'

LEMMA NoWorkLeft ==
  ASSUME NEW s, NEW sch, MakesTable(s) \/ MakesIndex(s) \/ AddsColumn(s), NoWork(s, sch)
  PROVE  Left(s, sch)
BY DEF MakesTable, MakesIndex, AddsColumn, NoWork, Left, Fails

LEMMA UnchangedSchema == ASSUME schema' = schema PROVE SchemaStep
BY DEF SchemaStep, Malformed

LEMMA EffectSteps ==
  ASSUME NEW s, MakesTable(s) \/ MakesIndex(s) \/ AddsColumn(s), ~Fails(s, schema),
         schema' = Effect(s)
  PROVE  SchemaStep /\ Left(s, schema')
<1>1. CASE MakesTable(s) /\ Exists(s.table)
  <2>1. schema' = schema
    BY <1>1 DEF Effect, MakesTable
  <2> QED
    BY <1>1, <2>1, UnchangedSchema DEF Left, MakesTable, Exists
<1>2. CASE MakesTable(s) /\ ~Exists(s.table)
  <2>1. schema' = schema \cup Pairs(s) \cup {<<s.table, "id">>}
    BY <1>2 DEF Effect, MakesTable
  <2>2. \A c \in MadeWith(s.table) : <<s.table, c>> \in schema'
    BY <1>2, <2>1 DEF MakesTable, Pairs
  <2>3. \A t : <<t, "id">> \in schema' /\ <<t, "id">> \notin schema =>
                 t = s.table \/ "id" \in s.columns
    BY <2>1 DEF Pairs
  <2>4. "id" \notin s.columns
    BY <1>2 DEF MakesTable, MadeWith
  <2>5. ~Malformed(schema) => ~Malformed(schema')
    <3>1. "ticker" \in MadeWith("settings")
      BY DEF MadeWith
    <3> QED
      BY <2>1, <2>2, <2>3, <2>4, <3>1 DEF Malformed
  <2> QED
    BY <1>2, <2>1, <2>2, <2>3, <2>4, <2>5 DEF SchemaStep, Left, MakesTable
<1>3. CASE MakesIndex(s)
  <2>1. schema' = schema
    BY <1>3 DEF Effect, MakesIndex
  <2> QED
    BY <1>3, <2>1, UnchangedSchema DEF Left, MakesIndex, Fails
<1>4. CASE AddsColumn(s)
  <2>1. schema' = schema \cup Pairs(s) /\ <<s.table, "id">> \in schema /\ "id" \notin s.columns
    BY <1>4 DEF Effect, AddsColumn, Fails
  <2>2. \A t : <<t, "id">> \in schema' => <<t, "id">> \in schema
    BY <2>1 DEF Pairs
  <2>3. ~Malformed(schema) => ~Malformed(schema')
    BY <2>1, <2>2 DEF Malformed
  <2> QED
    BY <1>4, <2>1, <2>2, <2>3 DEF SchemaStep, Left, AddsColumn
<1> QED
  BY <1>1, <1>2, <1>3, <1>4

\* The types of the variables of the upgrade, and the place of a thread in a
\* script.
UpgradeTypes ==
  /\ phase \in [Threads -> Parts] /\ at \in [Threads -> Nat]
  /\ note \in [Threads -> {"none", "new", "missing", "chosen"}]
  /\ whole \in [Threads -> BOOLEAN]
  /\ config \in [Keys -> {"none", "default", "percent", "chosen", "edited"}]
  /\ config["OLD"] \in {"none", "chosen"}
  /\ seeded \in {"none", "default", "edited"}
  /\ up \in BOOLEAN /\ file \in BOOLEAN /\ drill \in {"upgrade", "migrate", "reset"}
  /\ edited \subseteq {"prompts"} \cup Keys
  /\ \A t \in Threads : phase[t] \in Scripts => at[t] \in 1 .. Len(Script(phase[t]))

\* The statement a thread is at.
LEMMA CurrentMade ==
  ASSUME UpgradeTypes, NEW t \in Threads, phase[t] \in Scripts
  PROVE  /\ MakesTable(Current(t)) \/ MakesIndex(Current(t)) \/ AddsColumn(Current(t))
         /\ phase[t] \in {"bybit", "meta"} => MakesTable(Current(t))
         /\ phase[t] \in {"create", "ensure"} => MakesTable(Current(t)) \/ MakesIndex(Current(t))
         /\ phase[t] \in Looking \cup {"columns"} => AddsColumn(Current(t))
BY Statements DEF UpgradeTypes, Current, Scripts

LEMMA ConstructorSchema ==
  ASSUME UpgradeTypes, NEW t \in Threads, ConstructorStep(t)
  PROVE  SchemaStep
<1>1. CASE schema' = schema
  BY <1>1, UnchangedSchema
<1>2. CASE phase[t] \in Scripts /\ ~Fails(Current(t), schema) /\ schema' = Effect(Current(t))
  BY <1>2, CurrentMade, EffectSteps
<1>3. CASE RenameHeartbeat(t) /\ schema' # schema
  <2>1. HeartbeatOld \in schema /\ schema' = (schema \ {HeartbeatOld}) \cup {HeartbeatNew}
    BY <1>3 DEF RenameHeartbeat, HasWork, Scripts, Looking
  <2>2. \A x : x[1] = "settings" \/ x[2] = "id" => x # HeartbeatNew /\ x # HeartbeatOld
    BY DEF HeartbeatOld, HeartbeatNew
  <2>3. <<"settings", "id">> \in schema' => <<"settings", "id">> \in schema
    BY <2>1, <2>2
  <2>4. <<"settings", "ticker">> \in schema => <<"settings", "ticker">> \in schema'
    BY <2>1, <2>2
  <2>5. \A x : <<x, "id">> \in schema' => <<x, "id">> \in schema
    BY <2>1, <2>2
  <2> QED
    BY <2>1, <2>3, <2>4, <2>5 DEF SchemaStep, Malformed
<1>4. CASE PutSettingsAside(t) /\ schema' # schema
  <2>1. Malformed(schema) /\ schema' = {x \in schema : x[1] # "settings"}
    BY <1>4 DEF PutSettingsAside
  <2> QED
    BY <2>1 DEF SchemaStep, Malformed
<1>5. CASE ReplaceSettings(t)
  <2>1. MakesTable(Table("settings", {"ticker"})) /\ ~Fails(Table("settings", {"ticker"}), schema)
    BY TablesMade DEF Fails, Table
  <2> QED
    BY <1>5, <2>1, EffectSteps DEF ReplaceSettings
<1> QED
  <2>1. CASE CreateLateTable(t)
    <3>1. ~Fails(Current(t), schema)
      BY <2>1, CurrentMade DEF CreateLateTable, Fails, MakesTable, Scripts
    <3> QED
      BY <1>2, <2>1, <3>1 DEF CreateLateTable, Scripts
  <2>2. CASE CreateStatement(t) \/ AddColumn(t) \/ EnsureStatement(t) \/ AddBybitColumn(t)
    BY <1>1, <1>2, <2>2 DEF CreateStatement, AddColumn, EnsureStatement, AddBybitColumn, Scripts
  <2>3. CASE \/ SeedDefaults(t) \/ SeedConfigKeys(t) \/ ReadOldKey(t) \/ CarryOver(t)
             \/ DropDeprecated(t) \/ LookForColumn(t) \/ AddConfigDefaults(t)
    BY <1>1, <2>3 DEF SeedDefaults, SeedConfigKeys, ReadOldKey, CarryOver, DropDeprecated,
                      LookForColumn, AddConfigDefaults
  <2> QED
    BY <1>1, <1>3, <1>4, <1>5, <2>1, <2>2, <2>3 DEF ConstructorStep

LEMMA NextSchema == ASSUME UpgradeTypes, [Next]_vars PROVE SchemaStep
<1>1. CASE \E t \in Threads : Constructing(t)
  BY <1>1, ConstructorSchema DEF Constructing
<1>2. CASE ~(\E t \in Threads : Constructing(t))
  BY <1>2, UnchangedSchema
     DEF Next, StartServer, ServerUp, ServerDies, StartTask, EditPrompt, EditConfig,
         StartMigration, StartReset, Reset, ResetDies, Construct, RunMigration, vars, schemaVars
<1> QED
  BY <1>1, <1>2

-----------------------------------------------------------------------------
(* The way of a thread through the parts.                                  *)

Managers == Threads \ {"cli"}

MigrationParts == {MigrationOrder[i] : i \in 1 .. 16}

CliParts == {"orders", "trades", "tickers", "heartbeat", "bybit", "defaults"}

LEMMA PartsAre ==
  /\ MigrationParts = {"columns", "rename", "ensure", "keys", "bridge", "carry", "drop",
                       "settings", "replace", "orders", "trades", "tickers", "heartbeat",
                       "bybit", "defaults", "meta"}
  /\ Parts = MigrationParts \cup {"idle", "create", "seed", "using"}
<1>1. MigrationParts \subseteq {"columns", "rename", "ensure", "keys", "bridge", "carry",
                                "drop", "settings", "replace", "orders", "trades", "tickers",
                                "heartbeat", "bybit", "defaults", "meta"}
  BY PartsInOrder DEF MigrationParts
<1>2. {"columns", "rename", "ensure", "keys", "bridge", "carry", "drop", "settings"}
        \subseteq MigrationParts
  BY PartsInOrder DEF MigrationParts
<1>3. {"replace", "orders", "trades", "tickers", "heartbeat", "bybit", "defaults", "meta"}
        \subseteq MigrationParts
  BY PartsInOrder DEF MigrationParts
<1>4. MigrationParts = {MigrationOrder[i] : i \in 1 .. Len(MigrationOrder)}
  BY PartsInOrder DEF MigrationParts
<1>5. Parts = Scripts \cup MigrationParts \cup {"idle", "seed", "using", "defaults"}
  BY <1>4, Zenon DEF Parts
<1> QED
  BY <1>1, <1>2, <1>3, <1>5 DEF Scripts, Looking

LEMMA PlacesOfParts ==
  /\ \A p \in MigrationParts : Place(p) \in 1 .. 16 /\ MigrationOrder[Place(p)] = p
  /\ Place("using") = 17 /\ Place("create") = 0 /\ Place("idle") = 0 /\ Place("seed") = 0
<1>1. \A p \in MigrationParts : Place(p) \in 1 .. 16 /\ MigrationOrder[Place(p)] = p
  BY PlacesInOrder DEF MigrationParts
<1> QED
  BY <1>1 DEF Place

\* A script has a statement.
LEMMA ScriptsHaveStatements == \A p \in Scripts : Len(Script(p)) \in Nat /\ 1 =< Len(Script(p))
<1>1. /\ Len(Script("orders")) = 2 /\ Len(Script("trades")) = 1 /\ Len(Script("tickers")) = 1
      /\ Len(Script("heartbeat")) = 1 /\ Len(Script("bybit")) = 1 /\ Len(Script("meta")) = 1
  BY ShortScripts
<1>2. /\ Len(Script("create")) = 8 /\ Len(Script("ensure")) = 6 /\ Len(Script("columns")) = 5
  BY CreateScript, EnsureScript, ColumnsScript
<1>3. \A p \in Scripts : \/ Len(Script(p)) = 1 \/ Len(Script(p)) = 2 \/ Len(Script(p)) = 5
                        \/ Len(Script(p)) = 6 \/ Len(Script(p)) = 8
  BY <1>1, <1>2, Zenon DEF Scripts, Looking
<1> QED
  BY <1>3

\* Where t goes: to part q, at its first statement.
Goes(t, q) ==
  /\ phase' = [phase EXCEPT ![t] = q]
  /\ at' = [at EXCEPT ![t] = 1]

\* A constructor goes on to the first part that finds work.
LEMMA Jumps ==
  ASSUME NEW t \in Managers, NEW done \in 0 .. 16, NextPart(t, done)
  PROVE  \E q \in MigrationParts \cup {"using"} :
           /\ Goes(t, q)
           /\ Place(q) \in (done + 1) .. 17
           /\ q # "using" => HasWork(q, schema', config')
           /\ \A j \in (done + 1) .. (Place(q) - 1) :
                ~HasWork(MigrationOrder[j], schema', config')
<1> DEFINE ahead == {i \in (done + 1) .. 16 : HasWork(MigrationOrder[i], schema', config')}
<1>1. Order(t) = MigrationOrder /\ Len(MigrationOrder) = 16 /\ t # "cli"
  BY PartsInOrder DEF Order, Managers
<1>2. GoTo(t, IF ahead # {} THEN MigrationOrder[Least(ahead)] ELSE "using")
  BY <1>1, Zenon DEF NextPart
<1>3. CASE ahead # {}
  <2>1. Least(ahead) \in ahead /\ \A j \in ahead : Least(ahead) =< j
    <3>1. ahead \in SUBSET Nat
      OBVIOUS
    <3> QED
      BY <1>3, <3>1, LeastIsLeast
  <2>2. PICK i \in (done + 1) .. 16 : i = Least(ahead)
    BY <2>1
  <2>3. Place(MigrationOrder[i]) = i /\ MigrationOrder[i] \in MigrationParts
    BY PlacesInOrder DEF MigrationParts
  <2>4. HasWork(MigrationOrder[i], schema', config')
    BY <2>1, <2>2
  <2>5. \A j \in (done + 1) .. (i - 1) : ~HasWork(MigrationOrder[j], schema', config')
    BY <2>1, <2>2
  <2>6. Goes(t, MigrationOrder[i])
    BY <1>2, <1>3, <2>2 DEF GoTo, Goes
  <2> HIDE DEF ahead
  <2> QED
    BY <2>3, <2>4, <2>5, <2>6
<1>4. CASE ahead = {}
  <2>1. Goes(t, "using")
    BY <1>2, <1>4 DEF GoTo, Goes
  <2>2. \A j \in (done + 1) .. 16 : ~HasWork(MigrationOrder[j], schema', config')
    BY <1>4
  <2> QED
    BY <2>1, <2>2, PlacesOfParts
<1> QED
  BY <1>3, <1>4

LEMMA EndsInPlace ==
  ASSUME NEW t \in Managers, NEW p \in MigrationParts, EndPart(t, p)
  PROVE  NextPart(t, Place(p))
<1>1. Order(t) = MigrationOrder /\ Len(MigrationOrder) = 16 /\ p # "create"
  BY PartsInOrder, PartsAre DEF Order, Managers
<1>2. Place(p) \in 1 .. 16 /\ \A i \in 1 .. 16 : MigrationOrder[i] = p <=> i = Place(p)
  BY PlacesOfParts, PlacesInOrder
<1>3. (CHOOSE i \in 1 .. Len(Order(t)) : Order(t)[i] = p) = Place(p)
  BY <1>1, <1>2
<1> QED
  BY <1>1, <1>3 DEF EndPart

\* The operator's run goes on to another of its parts, or is over.
LEMMA CliJumps ==
  ASSUME NEW done \in 0 .. 6, NextPart("cli", done)
  PROVE  \E q \in CliParts \cup {"idle"} : Goes("cli", q)
<1> DEFINE ahead == {i \in (done + 1) .. 6 : HasWork(CliOrder[i], schema', config')}
<1>1. Order("cli") = CliOrder /\ Len(CliOrder) = 6
  BY DEF Order, CliOrder
<1>2. GoTo("cli", IF ahead # {} THEN CliOrder[Least(ahead)] ELSE "idle")
  BY <1>1, Zenon DEF NextPart
<1>3. \A i \in 1 .. 6 : CliOrder[i] \in CliParts
  BY DEF CliOrder, CliParts
<1>4. CASE ahead # {}
  <2>1. ahead \in SUBSET Nat
    OBVIOUS
  <2>2. Least(ahead) \in ahead
    BY <1>4, <2>1, LeastIsLeast
  <2>3. Least(ahead) \in 1 .. 6
    BY <2>2
  <2>4. Goes("cli", CliOrder[Least(ahead)])
    BY <1>2, <1>4 DEF GoTo, Goes
  <2> HIDE DEF ahead
  <2> QED
    BY <1>3, <2>3, <2>4
<1>5. CASE ahead = {}
  BY <1>2, <1>5 DEF GoTo, Goes
<1> QED
  BY <1>4, <1>5

LEMMA CliEnds ==
  ASSUME NEW p \in CliParts, EndPart("cli", p)
  PROVE  \E q \in CliParts \cup {"idle"} : Goes("cli", q)
<1>1. Order("cli") = CliOrder /\ Len(CliOrder) = 6 /\ p # "create"
  BY DEF Order, CliOrder, CliParts
<1>2. \E i \in 1 .. 6 : CliOrder[i] = p
  BY DEF CliOrder, CliParts
<1> DEFINE done == CHOOSE i \in 1 .. Len(Order("cli")) : Order("cli")[i] = p
<1>3. done \in 0 .. 6
  BY <1>1, <1>2
<1>4. NextPart("cli", done)
  BY <1>1 DEF EndPart
<1> HIDE DEF done
<1> QED
  BY <1>3, <1>4, CliJumps

\* A script goes on to the next statement that finds work, or ends.
LEMMA Advances ==
  ASSUME NEW t \in Threads, phase[t] \in Scripts, at[t] \in 1 .. Len(Script(phase[t])),
         Advance(t)
  PROVE  \/ /\ EndPart(t, phase[t])
            /\ \A i \in (at[t] + 1) .. Len(Script(phase[t])) :
                 NoWork(Script(phase[t])[i], schema')
         \/ \E k \in (at[t] + 1) .. Len(Script(phase[t])) :
              /\ phase' = phase /\ at' = [at EXCEPT ![t] = k]
              /\ ~NoWork(Script(phase[t])[k], schema')
              /\ \A i \in (at[t] + 1) .. (k - 1) : NoWork(Script(phase[t])[i], schema')
<1> DEFINE script == Script(phase[t])
           ahead == {i \in (at[t] + 1) .. Len(script) : ~NoWork(script[i], schema')}
<1>1. IF ahead = {} THEN EndPart(t, phase[t])
      ELSE at' = [at EXCEPT ![t] = Least(ahead)] /\ UNCHANGED phase
  BY Zenon DEF Advance
<1>2. at[t] \in Nat /\ Len(script) \in Nat
  BY ScriptsHaveStatements
<1>3. CASE ahead = {}
  BY <1>1, <1>3
<1>4. CASE ahead # {}
  <2>1. ahead \in SUBSET Nat
    BY <1>2
  <2>2. Least(ahead) \in ahead /\ \A j \in ahead : Least(ahead) =< j
    BY <1>4, <2>1, LeastIsLeast
  <2>3. PICK k \in (at[t] + 1) .. Len(script) : k = Least(ahead)
    BY <2>2
  <2>4. ~NoWork(script[k], schema')
    BY <2>2, <2>3
  <2>5. \A i \in (at[t] + 1) .. (k - 1) : NoWork(script[i], schema')
    BY <1>2, <2>2, <2>3
  <2> QED
    BY <1>1, <1>4, <2>3, <2>4, <2>5
<1> QED
  BY <1>3, <1>4

-----------------------------------------------------------------------------
(* What the parts that a thread has passed have made of the file.          *)

\* The orders and the trades have the column that is indexed.
Indexed(sch) ==
  \A x \in {"orders", "trades"} : <<x, "id">> \in sch => <<x, "trade_uid">> \in sch

ScriptLeft(p, sch) == \A j \in 1 .. Len(Script(p)) : Left(Script(p)[j], sch)

\* After the first k parts, whatever errors have been passed over.
Known(k, sch, cfg) ==
  /\ k >= 1 => Indexed(sch)
  /\ k >= 7 => cfg["OLD"] = "none"
  /\ k >= 8 => ~Malformed(sch)

\* After the first k parts without an error.
WholeTo(k, sch) ==
  /\ ScriptLeft("create", sch)
  /\ \A i \in 1 .. k : MigrationOrder[i] \in Scripts => ScriptLeft(MigrationOrder[i], sch)

PathKnown(t) ==
  /\ Place(phase[t]) >= 1 => Known(Place(phase[t]) - 1, schema, config)
  /\ phase[t] = "columns" =>
       \A j \in 1 .. (at[t] - 1) : j \in {3, 4} => Left(Script("columns")[j], schema)
  /\ phase[t] = "ensure" => MakesTable(Current(t))

PathWhole(t) ==
  whole[t] /\ phase[t] # "replace" =>
    /\ Place(phase[t]) >= 1 => WholeTo(Place(phase[t]) - 1, schema)
    /\ phase[t] \in Scripts =>
         \A j \in 1 .. (at[t] - 1) : Left(Script(phase[t])[j], schema)

InPlace(t) ==
  /\ phase[t] \in Parts /\ at[t] \in Nat
  /\ phase[t] \in Scripts => at[t] \in 1 .. Len(Script(phase[t]))

\* t has gone somewhere, alone, and the file is as its new place says.
Settles(t) ==
  /\ \E q, n : phase' = [phase EXCEPT ![t] = q] /\ at' = [at EXCEPT ![t] = n]
  /\ InPlace(t)' /\ PathKnown(t)' /\ PathWhole(t)'

\* A part without work has made its mark already.
LEMMA NoWorkKnows ==
  ASSUME NEW p \in MigrationParts, NEW sch, NEW cfg, ~HasWork(p, sch, cfg)
  PROVE  /\ p \in Scripts => ScriptLeft(p, sch)
         /\ p = "drop" => cfg["OLD"] = "none"
         /\ p = "settings" => ~Malformed(sch)
<1>1. CASE p \in Scripts
  <2>1. \A j \in 1 .. Len(Script(p)) : NoWork(Script(p)[j], sch)
    BY <1>1 DEF HasWork, Scripts, Looking
  <2>2. ScriptLeft(p, sch)
    BY <1>1, <2>1, Statements, NoWorkLeft DEF ScriptLeft, Scripts
  <2> QED
    BY <1>1, <2>2 DEF Scripts, Looking
<1>2. CASE p \notin Scripts
  BY <1>2 DEF HasWork, Scripts, Looking
<1> QED
  BY <1>1, <1>2

LEMMA ColumnsIndex ==
  ASSUME NEW sch, Left(Script("columns")[3], sch), Left(Script("columns")[4], sch)
  PROVE  Indexed(sch)
BY ColumnsScript, StatementFields DEF Left, Indexed, Pairs

LEMMA JumpKnows ==
  ASSUME NEW t \in Managers, NEW done \in 0 .. 16, NextPart(t, done),
         phase \in [Threads -> Parts], at \in [Threads -> Nat],
         Known(done, schema', config'), whole'[t] => WholeTo(done, schema')
  PROVE  /\ Settles(t)
         /\ \E q \in (MigrationParts \ {"carry", "replace"}) \cup {"using"} :
              Goes(t, q) /\ Place(q) > done /\ (q = "drop" => done >= 5)
<1>1. PICK q \in MigrationParts \cup {"using"} :
        /\ Goes(t, q)
        /\ Place(q) \in (done + 1) .. 17
        /\ q # "using" => HasWork(q, schema', config')
        /\ \A j \in (done + 1) .. (Place(q) - 1) :
             ~HasWork(MigrationOrder[j], schema', config')
  BY Jumps
<1>2. phase'[t] = q /\ at'[t] = 1
  BY <1>1 DEF Goes, Managers
<1>3. \A j \in 1 .. 16 : MigrationOrder[j] \in MigrationParts
  BY DEF MigrationParts
<1>4. \A j \in (done + 1) .. (Place(q) - 1) :
        /\ MigrationOrder[j] \in Scripts => ScriptLeft(MigrationOrder[j], schema')
        /\ MigrationOrder[j] = "drop" => config'["OLD"] = "none"
        /\ MigrationOrder[j] = "settings" => ~Malformed(schema')
  BY <1>1, <1>3, NoWorkKnows
<1>5. Known(Place(q) - 1, schema', config')
  <2>1. ASSUME 1 \in (done + 1) .. (Place(q) - 1) PROVE Indexed(schema')
    <3>1. ScriptLeft("columns", schema')
      BY <1>4, <2>1, PartsInOrder DEF Scripts
    <3> QED
      BY <3>1, ColumnsScript, ColumnsIndex DEF ScriptLeft
  <2>2. ASSUME 7 \in (done + 1) .. (Place(q) - 1) PROVE config'["OLD"] = "none"
    BY <1>4, <2>2, PartsInOrder
  <2>3. ASSUME 8 \in (done + 1) .. (Place(q) - 1) PROVE ~Malformed(schema')
    BY <1>4, <2>3, PartsInOrder
  <2>4. Place(q) \in 1 .. 17
    BY <1>1
  <2> QED
    BY <2>1, <2>2, <2>3, <2>4 DEF Known
<1>6. whole'[t] => WholeTo(Place(q) - 1, schema')
  BY <1>1, <1>4 DEF WholeTo
<1>7. q \in Scripts => 1 \in 1 .. Len(Script(q))
  BY ScriptsHaveStatements
<1>8. InPlace(t)'
  BY <1>2, <1>7, PartsAre DEF InPlace
<1>9. PathKnown(t)'
  <2>1. q = "ensure" => MakesTable(Current(t))'
    BY <1>2, EnsureScript, TablesMade DEF Current
  <2>2. 1 .. (at'[t] - 1) = {}
    BY <1>2
  <2> QED
    BY <1>2, <1>5, <2>1, <2>2 DEF PathKnown
<1>10. PathWhole(t)'
  <2>1. 1 .. (at'[t] - 1) = {}
    BY <1>2
  <2> QED
    BY <1>2, <1>6, <2>1 DEF PathWhole
<1>11. Settles(t)
  BY <1>1, <1>8, <1>9, <1>10 DEF Settles, Goes
<1>12. q \notin {"carry", "replace"} /\ (q = "drop" => done >= 5)
  <2>1. ~HasWork("carry", schema', config') /\ ~HasWork("replace", schema', config')
    BY DEF HasWork, Scripts, Looking
  <2>2. ASSUME q = "drop", done < 5 PROVE FALSE
    <3>1. Place(q) = 7
      BY <2>2 DEF Place
    <3>2. ~HasWork("bridge", schema', config')
      BY <1>1, <2>2, <3>1, PartsInOrder
    <3>3. HasWork("drop", schema', config')
      BY <1>1, <2>2
    <3> QED
      BY <3>2, <3>3 DEF HasWork, Scripts, Looking
  <2> QED
    BY <1>1, <2>1, <2>2
<1>13. Place(q) > done
  BY <1>1
<1> QED
  BY <1>1, <1>11, <1>12, <1>13

LEMMA IndexWorks ==
  ASSUME NEW t, NEW c, NEW sch
  PROVE  NoWork(Index(t, c), sch) <=> <<t, c>> \in sch
BY DEF NoWork, Fails, Index, Pairs

LEMMA EndsKnow ==
  ASSUME NEW t \in Managers, NEW p \in MigrationParts, EndPart(t, p),
         phase \in [Threads -> Parts], at \in [Threads -> Nat],
         Known(Place(p), schema', config'), whole'[t] => WholeTo(Place(p), schema')
  PROVE  /\ Settles(t)
         /\ \E q \in (MigrationParts \ {"carry", "replace"}) \cup {"using"} :
              Goes(t, q) /\ Place(q) > Place(p) /\ (q = "drop" => Place(p) >= 5)
<1>1. NextPart(t, Place(p)) /\ Place(p) \in 0 .. 16
  BY EndsInPlace, PlacesOfParts
<1> QED
  BY <1>1, JumpKnows

\* Statement j of t's script has done its work, by the order of the statements.
LEMMA LeftSoFar ==
  ASSUME NEW p \in Scripts, NEW n \in 1 .. Len(Script(p)), NEW m \in 0 .. Len(Script(p)),
         NEW j \in 1 .. m, NEW sch, Left(Script(p)[n], sch),
         \A i \in (n + 1) .. m : NoWork(Script(p)[i], sch), j >= n
  PROVE  Left(Script(p)[j], sch)
<1>1. Len(Script(p)) \in Nat
  BY ScriptsHaveStatements
<1>2. CASE j = n
  BY <1>2
<1>3. CASE j > n
  <2>1. j \in (n + 1) .. m /\ j \in 1 .. Len(Script(p))
    BY <1>1, <1>3
  <2>2. NoWork(Script(p)[j], sch)
    BY <2>1
  <2>3. MakesTable(Script(p)[j]) \/ MakesIndex(Script(p)[j]) \/ AddsColumn(Script(p)[j])
    BY <2>1, Statements DEF Scripts
  <2> QED
    BY <2>2, <2>3, NoWorkLeft
<1> QED
  BY <1>1, <1>2, <1>3

\* A statement has been taken, and the thread goes on.
LEMMA AdvancesKnow ==
  ASSUME NEW t \in Managers, phase[t] \in Scripts \ {"create"},
         at[t] \in 1 .. Len(Script(phase[t])), Advance(t),
         phase \in [Threads -> Parts], at \in [Threads -> Nat],
         Left(Current(t), schema'),
         Known(Place(phase[t]) - 1, schema', config'),
         phase[t] = "columns" =>
           \A j \in 1 .. (at[t] - 1) : j \in {3, 4} => Left(Script("columns")[j], schema'),
         whole'[t] =>
           /\ WholeTo(Place(phase[t]) - 1, schema')
           /\ \A j \in 1 .. (at[t] - 1) : Left(Script(phase[t])[j], schema')
  PROVE  /\ Settles(t)
         /\ \E q \in (MigrationParts \ {"carry", "replace", "drop"}) \cup {"using"} : \E n :
              phase' = [phase EXCEPT ![t] = q] /\ at' = [at EXCEPT ![t] = n]
<1> DEFINE p == phase[t]
           here == at[t]
           size == Len(Script(phase[t]))
<1>0. /\ t \in Threads /\ p \in MigrationParts /\ p \in Scripts /\ here \in 1 .. size
      /\ here \in Nat /\ size \in Nat /\ Place(p) \in 1 .. 16 /\ MigrationOrder[Place(p)] = p
  <2>1. phase[t] \in MigrationParts
    BY PartsAre DEF Scripts, Looking
  <2> QED
    BY <2>1, PlacesOfParts, ScriptsHaveStatements DEF Managers
<1>1. ASSUME NEW m \in 0 .. size, \A i \in (here + 1) .. m : NoWork(Script(p)[i], schema')
      PROVE  /\ p = "columns" =>
                  \A j \in 1 .. m : j \in {3, 4} => Left(Script("columns")[j], schema')
             /\ whole'[t] => \A j \in 1 .. m : Left(Script(p)[j], schema')
  <2>1. ASSUME NEW j \in 1 .. m, j >= here PROVE Left(Script(p)[j], schema')
    BY <1>0, <1>1, <2>1, LeftSoFar DEF Current
  <2>2. \A j \in 1 .. m : j >= here \/ j \in 1 .. (here - 1)
    BY <1>0
  <2> QED
    BY <2>1, <2>2
<1>2. CASE /\ EndPart(t, p)
           /\ \A i \in (here + 1) .. size : NoWork(Script(p)[i], schema')
  <2>1. size \in 0 .. size
    BY <1>0
  <2>2. /\ p = "columns" =>
             \A j \in 1 .. size : j \in {3, 4} => Left(Script("columns")[j], schema')
        /\ whole'[t] => \A j \in 1 .. size : Left(Script(p)[j], schema')
    BY <1>1, <1>2, <2>1
  <2>3. Known(Place(p), schema', config')
    <3>1. p = "columns" => Indexed(schema')
      BY <2>2, ColumnsScript, ColumnsIndex
    <3>2. p # "columns" => Place(p) # 1
      BY <1>0, PartsInOrder
    <3>3. Place(p) \notin {7, 8}
      BY <1>0, PartsInOrder DEF Scripts, Looking
    <3>4. Known(Place(p) - 1, schema', config')
      OBVIOUS
    <3> HIDE DEF p
    <3> QED
      BY <1>0, <3>1, <3>2, <3>3, <3>4, PartsInOrder DEF Known
  <2>4. whole'[t] => WholeTo(Place(p), schema')
    <3> SUFFICES ASSUME whole'[t] PROVE WholeTo(Place(p), schema')
      OBVIOUS
    <3>1. WholeTo(Place(p) - 1, schema') /\ ScriptLeft(p, schema')
      BY <2>2 DEF ScriptLeft
    <3> HIDE DEF p
    <3>2. \A i \in 1 .. Place(p) : i \in 1 .. (Place(p) - 1) \/ MigrationOrder[i] = p
      BY <1>0
    <3> QED
      BY <3>1, <3>2 DEF WholeTo
  <2>5. Place("drop") = 7
    BY DEF Place
  <2>9. Place(p) \notin {5, 6}
    BY <1>0, PartsInOrder DEF Scripts, Looking
  <2> HIDE DEF p
  <2>6. /\ Settles(t)
        /\ \E q \in (MigrationParts \ {"carry", "replace"}) \cup {"using"} :
             Goes(t, q) /\ Place(q) > Place(p) /\ (q = "drop" => Place(p) >= 5)
    BY <1>0, <1>2, <2>3, <2>4, EndsKnow
  <2>7. PICK q \in (MigrationParts \ {"carry", "replace"}) \cup {"using"} :
             Goes(t, q) /\ Place(q) > Place(p) /\ (q = "drop" => Place(p) >= 5)
    BY <2>6
  <2>8. q # "drop"
    BY <1>0, <2>5, <2>7, <2>9
  <2> QED
    BY <2>6, <2>7, <2>8 DEF Goes
<1>3. CASE \E k \in (here + 1) .. size :
              /\ phase' = phase /\ at' = [at EXCEPT ![t] = k]
              /\ ~NoWork(Script(p)[k], schema')
              /\ \A i \in (here + 1) .. (k - 1) : NoWork(Script(p)[i], schema')
  <2>1. PICK k \in (here + 1) .. size :
              /\ phase' = phase /\ at' = [at EXCEPT ![t] = k]
              /\ ~NoWork(Script(p)[k], schema')
              /\ \A i \in (here + 1) .. (k - 1) : NoWork(Script(p)[i], schema')
    BY <1>3
  <2>2. k - 1 \in 0 .. size /\ k \in 1 .. size /\ k \in Nat
    BY <1>0
  <2>3. /\ p = "columns" =>
             \A j \in 1 .. (k - 1) : j \in {3, 4} => Left(Script("columns")[j], schema')
        /\ whole'[t] => \A j \in 1 .. (k - 1) : Left(Script(p)[j], schema')
    BY <1>1, <2>1, <2>2
  <2>4. phase'[t] = p /\ at'[t] = k
    BY <1>0, <2>1
  <2>5. p = "ensure" => MakesTable(Script(p)[k])
    <3> SUFFICES ASSUME p = "ensure" PROVE MakesTable(Script("ensure")[k])
      OBVIOUS
    <3>1. Indexed(schema')
      BY PartsInOrder DEF Known, Place
    <3>6. size = 6
      BY EnsureScript
    <3>2. here \in 1 .. 6 /\ k \in 2 .. 6 /\ k > here
      <4> HIDE DEF here, size
      <4> QED
        BY <1>0, <3>6
    <3>3. ASSUME k = 2 PROVE FALSE
      <4>1. here = 1
        BY <3>2, <3>3
      <4>2. Left(Script("ensure")[1], schema')
        BY <4>1 DEF Current
      <4>3. <<"orders", "id">> \in schema'
        BY <4>2, EnsureScript, StatementFields DEF Left
      <4>4. NoWork(Script("ensure")[2], schema')
        BY <3>1, <4>3, EnsureScript, IndexWorks DEF Indexed
      <4> QED
        BY <2>1, <3>3, <4>4
    <3>4. ASSUME k = 6 PROVE FALSE
      <4>1. 5 \in 1 .. 5 /\ 5 >= here /\ k - 1 = 5
        BY <3>2, <3>4
      <4>2. Left(Script("ensure")[5], schema')
        <5>1. CASE here = 5
          BY <5>1 DEF Current
        <5>2. CASE here # 5
          <6>1. NoWork(Script("ensure")[5], schema')
            BY <2>1, <3>2, <4>1, <5>2
          <6>2. MakesTable(Script("ensure")[5])
            BY EnsureScript, TablesMade
          <6> QED
            BY <6>1, <6>2, NoWorkLeft
        <5> QED
          BY <5>1, <5>2
      <4>3. <<"trades", "id">> \in schema'
        BY <4>2, EnsureScript, StatementFields DEF Left
      <4>4. NoWork(Script("ensure")[6], schema')
        BY <3>1, <4>3, EnsureScript, IndexWorks DEF Indexed
      <4> QED
        BY <2>1, <3>4, <4>4
    <3>5. k \in {3, 4, 5}
      BY <3>2, <3>3, <3>4
    <3> QED
      BY <3>5, EnsureScript, TablesMade
  <2>6. InPlace(t)'
    BY <1>0, <2>2, <2>4 DEF InPlace
  <2>7. PathKnown(t)'
    BY <1>0, <2>3, <2>4, <2>5 DEF PathKnown, Current
  <2>8. PathWhole(t)'
    BY <1>0, <2>3, <2>4 DEF PathWhole
  <2>9. phase' = [phase EXCEPT ![t] = p]
    BY <1>0, <2>1
  <2>10. p \notin {"carry", "replace", "drop"}
    BY <1>0 DEF Scripts, Looking
  <2> QED
    BY <1>0, <2>1, <2>6, <2>7, <2>8, <2>9, <2>10 DEF Settles
<1> QED
  BY <1>0, <1>2, <1>3, Advances

-----------------------------------------------------------------------------
(* What the file keeps of the work of every thread.                        *)

\* The file has lost nothing of value.
Grows == \A x \in schema : x # HeartbeatOld => x \in schema'

OldOrGone == config'["OLD"] \in {config["OLD"], "none"}

LEMMA ConstructorGrows ==
  ASSUME UpgradeTypes, NEW t \in Threads, ConstructorStep(t)
  PROVE  Grows \/ (PutSettingsAside(t) /\ Malformed(schema))
<1>1. CASE RenameHeartbeat(t)
  BY <1>1 DEF RenameHeartbeat, Grows
<1>2. CASE PutSettingsAside(t)
  BY <1>2 DEF PutSettingsAside, Grows
<1>3. \A s : schema \subseteq Effect(s) \/ s.kind \notin {"table", "index", "column"}
  BY DEF Effect
<1>4. CASE ReplaceSettings(t)
  <2>1. Table("settings", {"ticker"}).kind = "table"
    BY DEF Table
  <2> QED
    BY <1>3, <1>4, <2>1 DEF ReplaceSettings, Grows
<1>5. CASE phase[t] \in Scripts /\ schema' \in {schema, Effect(Current(t))}
  BY <1>3, <1>5, CurrentMade DEF MakesTable, MakesIndex, AddsColumn, Grows
<1>6. CASE schema' = schema
  BY <1>6 DEF Grows
<1> QED
  <2>1. CASE CreateLateTable(t) \/ CreateStatement(t) \/ AddColumn(t) \/ EnsureStatement(t)
             \/ AddBybitColumn(t)
    BY <1>5, <2>1 DEF CreateLateTable, CreateStatement, AddColumn, EnsureStatement,
                      AddBybitColumn, Scripts
  <2>2. CASE \/ SeedDefaults(t) \/ SeedConfigKeys(t) \/ ReadOldKey(t) \/ CarryOver(t)
             \/ DropDeprecated(t) \/ LookForColumn(t) \/ AddConfigDefaults(t)
    BY <1>6, <2>2 DEF SeedDefaults, SeedConfigKeys, ReadOldKey, CarryOver, DropDeprecated,
                      LookForColumn, AddConfigDefaults
  <2> QED
    BY <1>1, <1>2, <1>4, <2>1, <2>2 DEF ConstructorStep

LEMMA IndexedStays == ASSUME SchemaStep, Indexed(schema) PROVE Indexed(schema')
<1> SUFFICES ASSUME NEW x \in {"orders", "trades"}, <<x, "id">> \in schema'
             PROVE  <<x, "trade_uid">> \in schema'
  BY DEF Indexed
<1>1. CASE <<x, "id">> \in schema
  <2>1. <<x, "trade_uid">> \in schema
    BY <1>1 DEF Indexed
  <2>2. <<x, "trade_uid">> # HeartbeatOld /\ <<x, "trade_uid">>[1] # "settings"
    BY DEF HeartbeatOld
  <2> QED
    BY <2>1, <2>2 DEF SchemaStep
<1>2. CASE <<x, "id">> \notin schema
  <2>1. "trade_uid" \in MadeWith(x)
    BY DEF MadeWith
  <2> QED
    BY <1>2, <2>1 DEF SchemaStep
<1> QED
  BY <1>1, <1>2

LEMMA KnownStays ==
  ASSUME SchemaStep, OldOrGone, NEW k, Known(k, schema, config)
  PROVE  Known(k, schema', config')
BY IndexedStays DEF Known, SchemaStep, OldOrGone

\* The two columns of the indexes, table or no table.
LEMMA IndexColumnsStay ==
  ASSUME SchemaStep, NEW j \in {3, 4}, Left(Script("columns")[j], schema)
  PROVE  Left(Script("columns")[j], schema')
<1>1. PICK x \in {"orders", "trades"} : Script("columns")[j] = Column(x, "trade_uid")
  BY ColumnsScript
<1>2. \A sch : Left(Column(x, "trade_uid"), sch) <=>
                 (<<x, "id">> \in sch => <<x, "trade_uid">> \in sch)
  BY DEF Left, Column, Pairs
<1>3. CASE <<x, "id">> \in schema
  <2>1. <<x, "trade_uid">> \in schema
    BY <1>1, <1>2, <1>3
  <2>2. <<x, "trade_uid">> # HeartbeatOld /\ <<x, "trade_uid">>[1] # "settings"
    BY DEF HeartbeatOld
  <2> QED
    BY <1>1, <1>2, <2>1, <2>2 DEF SchemaStep
<1>4. CASE <<x, "id">> \notin schema
  <2>1. "trade_uid" \in MadeWith(x)
    BY DEF MadeWith
  <2> QED
    BY <1>1, <1>2, <1>4, <2>1 DEF SchemaStep
<1> QED
  BY <1>3, <1>4

FirstTablesThere == \A x \in FirstTables : <<x, "id">> \in schema

LEMMA LeftStays ==
  ASSUME SchemaStep, Grows, NEW s, Left(s, schema),
         MakesTable(s) \/ MakesIndex(s) \/ (AddsColumn(s) /\ FirstTablesThere)
  PROVE  Left(s, schema')
<1>1. CASE MakesTable(s)
  <2>1. <<s.table, "id">> # HeartbeatOld
    BY DEF HeartbeatOld
  <2> QED
    BY <1>1, <2>1 DEF MakesTable, Left, Grows
<1>2. CASE MakesIndex(s)
  <2>1. \A x \in Pairs(s) : x # HeartbeatOld
    BY <1>2 DEF MakesIndex, Pairs, HeartbeatOld
  <2> QED
    BY <1>2, <2>1 DEF MakesIndex, Left, Grows
<1>3. CASE AddsColumn(s) /\ s.table \in FirstTables
  <2>1. \A x \in Pairs(s) : x # HeartbeatOld
    BY <1>3 DEF AddsColumn, Pairs, HeartbeatOld
  <2> QED
    BY <1>3, <2>1 DEF AddsColumn, Left, Grows, FirstTablesThere, MakesTable, MakesIndex
<1>4. CASE s = Column("forecast_run_links", "r_multiple")
  <2>1. \A sch : Left(s, sch) <=> (<<"forecast_run_links", "id">> \in sch =>
                                     <<"forecast_run_links", "r_multiple">> \in sch)
    BY <1>4 DEF Left, Column, Pairs
  <2>2. "r_multiple" \in MadeWith("forecast_run_links")
    BY DEF MadeWith
  <2>3. <<"forecast_run_links", "r_multiple">> # HeartbeatOld
    BY DEF HeartbeatOld
  <2> QED
    BY <2>1, <2>2, <2>3 DEF SchemaStep, Grows
<1> QED
  BY <1>1, <1>2, <1>3, <1>4 DEF AddsColumn

LEMMA FirstTablesMade == ASSUME ScriptLeft("create", schema) PROVE FirstTablesThere
<1> DEFINE s == Script("create")
<1>1. /\ Left(s[1], schema) /\ Left(s[2], schema) /\ Left(s[4], schema)
      /\ Left(s[5], schema) /\ Left(s[7], schema)
  BY CreateScript DEF ScriptLeft
<1>2. \A t, cs : Left(Table(t, cs), schema) => <<t, "id">> \in schema
  BY DEF Left, Table
<1> QED
  BY <1>1, <1>2, CreateScript DEF FirstTablesThere, FirstTables

LEMMA WholeStays ==
  ASSUME SchemaStep, Grows, NEW k, WholeTo(k, schema)
  PROVE  WholeTo(k, schema')
<1>1. FirstTablesThere
  BY FirstTablesMade DEF WholeTo
<1>2. ASSUME NEW p \in Scripts, ScriptLeft(p, schema) PROVE ScriptLeft(p, schema')
  BY <1>1, <1>2, LeftStays, Statements DEF ScriptLeft, Scripts
<1> QED
  BY <1>2 DEF WholeTo, Scripts

-----------------------------------------------------------------------------
(* The invariant of the upgrade.                                           *)

\* Who may be at work, and what the server and the tools find in the file.
Roles ==
  /\ phase["cli"] \in CliParts \cup {"idle"} /\ whole["cli"] = FALSE
  /\ phase["cli"] # "idle" => drill = "migrate"
  /\ phase["tool"] # "idle" => drill = "reset"
  /\ ~up => \A t \in Tasks : phase[t] = "idle"
  /\ up => phase["boot"] = "idle" /\ file
  /\ up \/ drill # "upgrade" => config["OLD"] = "none" /\ ~Malformed(schema)
  /\ ~file => /\ ~up /\ schema = {} /\ edited = {} /\ config["OLD"] = "none"
              /\ \A t \in Threads : phase[t] = "idle"

\* A new file is the first start's, and nothing has been chosen in it yet.
NewFile(t) ==
  /\ note[t] = "new" =>
       /\ t = "boot" /\ ~up /\ phase[t] \in {"create", "seed"} /\ ~whole[t]
       /\ edited = {} /\ config["OLD"] = "none"
       /\ ~Malformed(schema) /\ Indexed(schema)
  /\ phase[t] = "seed" => note[t] = "new"

\* The limit is under the old key alone.
OnlyOld == edited \cap {"OLD", "DAILY"} = {"OLD"}

\* The staleness limit on its way from the old key to the new one.
Bridged(t) ==
  /\ phase[t] = "carry" =>
       /\ note[t] \in {"none", "chosen"}
       /\ note[t] = "chosen" => t = "boot" /\ "DAILY" \notin edited
       /\ note[t] = "none" /\ OnlyOld => config["DAILY"] = "chosen"
  /\ phase[t] = "drop" /\ OnlyOld => config["DAILY"] = "chosen"

NewKeyIsTheOnly == "DAILY" \in edited => config["OLD"] = "none"

UInv ==
  /\ UpgradeTypes /\ Roles /\ NewKeyIsTheOnly /\ ChoicesKept
  /\ \A t \in Threads : NewFile(t) /\ Bridged(t)
  /\ \A t \in Managers : PathKnown(t) /\ PathWhole(t)

LEMMA KeysAre == Keys = {"OLD", "DAILY", "CAP"}
BY DEF Keys

\* What t knows of the file is true after a step, too.
LEMMA PathStays ==
  ASSUME UpgradeTypes, NEW t \in Managers, PathKnown(t), PathWhole(t),
         SchemaStep, Grows, OldOrGone
  PROVE  /\ Place(phase[t]) >= 1 => Known(Place(phase[t]) - 1, schema', config')
         /\ phase[t] = "columns" =>
              \A j \in 1 .. (at[t] - 1) : j \in {3, 4} => Left(Script("columns")[j], schema')
         /\ whole[t] /\ phase[t] # "replace" =>
              /\ Place(phase[t]) >= 1 => WholeTo(Place(phase[t]) - 1, schema')
              /\ phase[t] \in Scripts =>
                   \A j \in 1 .. (at[t] - 1) : Left(Script(phase[t])[j], schema')
<1>1. Place(phase[t]) >= 1 => Known(Place(phase[t]) - 1, schema', config')
  BY KnownStays DEF PathKnown
<1>2. phase[t] = "columns" =>
        \A j \in 1 .. (at[t] - 1) : j \in {3, 4} => Left(Script("columns")[j], schema')
  BY IndexColumnsStay DEF PathKnown
<1>3. ASSUME whole[t], phase[t] # "replace"
      PROVE  /\ Place(phase[t]) >= 1 => WholeTo(Place(phase[t]) - 1, schema')
             /\ phase[t] \in Scripts =>
                  \A j \in 1 .. (at[t] - 1) : Left(Script(phase[t])[j], schema')
  <2>1. Place(phase[t]) >= 1 => WholeTo(Place(phase[t]) - 1, schema')
    BY <1>3, WholeStays DEF PathWhole
  <2>2. ASSUME phase[t] \in Scripts, NEW j \in 1 .. (at[t] - 1)
        PROVE  Left(Script(phase[t])[j], schema')
    <3>1. Left(Script(phase[t])[j], schema) /\ j \in 1 .. Len(Script(phase[t]))
      BY <1>3, <2>2, ScriptsHaveStatements DEF PathWhole, UpgradeTypes, Managers
    <3>2. CASE phase[t] \in {"create", "ensure", "bybit", "meta"}
      <4>1. MakesTable(Script(phase[t])[j]) \/ MakesIndex(Script(phase[t])[j])
        BY <2>2, <3>1, <3>2, Statements
      <4> QED
        BY <3>1, <4>1, LeftStays
    <3>3. CASE phase[t] \in Looking \cup {"columns"}
      <4>1. AddsColumn(Script(phase[t])[j])
        BY <2>2, <3>1, <3>3, Statements
      <4>2. phase[t] \in MigrationParts
        BY <3>3, PartsAre DEF Looking
      <4>3. FirstTablesThere
        BY <1>3, <4>2, PlacesOfParts, FirstTablesMade DEF PathWhole, WholeTo
      <4> QED
        BY <3>1, <4>1, <4>3, LeftStays
    <3> QED
      BY <2>2, <3>2, <3>3 DEF Scripts
  <2> QED
    BY <2>1, <2>2
<1> QED
  BY <1>1, <1>2, <1>3

\* Where a manager's thread is after a step of its own.
Where(t) ==
  /\ phase'[t] # "idle"
  /\ phase'[t] = "carry" => phase[t] = "bridge"
  /\ phase'[t] = "drop" => phase[t] = "carry"
  /\ phase'[t] = "seed" => phase[t] = "create" /\ note[t] = "new"
  /\ note[t] = "new" /\ phase[t] = "create" => phase'[t] \in {"create", "seed"}

\* A part that has ended.
LEMMA EndsWell ==
  ASSUME NEW t \in Managers, phase[t] \in MigrationParts \ {"bridge"}, EndPart(t, phase[t]),
         phase \in [Threads -> Parts], at \in [Threads -> Nat],
         Known(Place(phase[t]), schema', config'),
         whole'[t] => WholeTo(Place(phase[t]), schema')
  PROVE  Settles(t) /\ Where(t)
<1>1. /\ Settles(t)
      /\ \E q \in (MigrationParts \ {"carry", "replace"}) \cup {"using"} :
           Goes(t, q) /\ Place(q) > Place(phase[t]) /\ (q = "drop" => Place(phase[t]) >= 5)
  BY EndsKnow
<1>2. PICK q \in (MigrationParts \ {"carry", "replace"}) \cup {"using"} :
           Goes(t, q) /\ Place(q) > Place(phase[t]) /\ (q = "drop" => Place(phase[t]) >= 5)
  BY <1>1
<1>3. phase'[t] = q
  BY <1>2 DEF Goes, Managers
<1>4. q \notin {"idle", "seed", "carry", "create"} /\ phase[t] # "create"
  BY PartsAre
<1>5. q = "drop" => phase[t] = "carry"
  <2>1. Place(phase[t]) \in 1 .. 16 /\ MigrationOrder[Place(phase[t])] = phase[t]
    BY PlacesOfParts
  <2>4. Place("drop") = 7
    BY DEF Place
  <2>2. MigrationOrder[5] = "bridge" /\ MigrationOrder[6] = "carry"
    BY PartsInOrder
  <2>3. q = "drop" => Place(phase[t]) \in {5, 6}
    BY <1>2, <2>1, <2>4
  <2> QED
    BY <2>1, <2>2, <2>3
<1> QED
  BY <1>1, <1>3, <1>4, <1>5 DEF Where

LEMMA AdvancesWell ==
  ASSUME UInv, NEW t \in Managers, phase[t] \in Scripts \ {"create"}, Advance(t),
         SchemaStep, Grows, OldOrGone, Left(Current(t), schema'), whole'[t] => whole[t]
  PROVE  Settles(t) /\ Where(t)
<1>1. phase[t] \in MigrationParts /\ phase[t] \notin {"create", "carry", "replace", "drop"}
  BY PartsAre DEF Scripts, Looking
<1>2. Place(phase[t]) >= 1 /\ t \in Threads
  BY <1>1, PlacesOfParts DEF Managers
<1>3. /\ phase \in [Threads -> Parts] /\ at \in [Threads -> Nat]
      /\ at[t] \in 1 .. Len(Script(phase[t]))
  BY <1>2 DEF UInv, UpgradeTypes
<1>4. /\ Known(Place(phase[t]) - 1, schema', config')
      /\ phase[t] = "columns" =>
           \A j \in 1 .. (at[t] - 1) : j \in {3, 4} => Left(Script("columns")[j], schema')
      /\ whole[t] =>
           /\ WholeTo(Place(phase[t]) - 1, schema')
           /\ \A j \in 1 .. (at[t] - 1) : Left(Script(phase[t])[j], schema')
  BY <1>1, <1>2, PathStays DEF UInv
<1>5. /\ Settles(t)
      /\ \E q \in (MigrationParts \ {"carry", "replace", "drop"}) \cup {"using"} : \E n :
           phase' = [phase EXCEPT ![t] = q] /\ at' = [at EXCEPT ![t] = n]
  BY <1>3, <1>4, AdvancesKnow
<1>6. phase'[t] \in (MigrationParts \ {"carry", "replace", "drop"}) \cup {"using"}
  BY <1>2, <1>3, <1>5
<1> QED
  BY <1>1, <1>5, <1>6, PartsAre DEF Where

LEMMA EndsCreate ==
  ASSUME UInv, NEW t \in Managers, phase[t] = "create", EndPart(t, "create"),
         whole'[t] => ScriptLeft("create", schema')
  PROVE  Settles(t) /\ Where(t)
<1>0. t \in Threads /\ phase \in [Threads -> Parts] /\ at \in [Threads -> Nat]
  BY DEF UInv, UpgradeTypes, Managers
<1>1. CASE note[t] = "new"
  <2>1. phase' = [phase EXCEPT ![t] = "seed"] /\ at' = [at EXCEPT ![t] = 1]
    BY <1>1 DEF EndPart, GoTo
  <2>2. phase'[t] = "seed" /\ at'[t] = 1
    BY <1>0, <2>1
  <2>3. Place("seed") = 0 /\ "seed" \in Parts /\ "seed" \notin Scripts
    BY PlacesOfParts, PartsAre DEF Scripts, Looking
  <2>4. InPlace(t)' /\ PathKnown(t)' /\ PathWhole(t)'
    BY <2>2, <2>3 DEF InPlace, PathKnown, PathWhole
  <2> QED
    BY <1>1, <2>1, <2>2, <2>4 DEF Settles, Where
<1>2. CASE note[t] # "new"
  <2>1. NextPart(t, 0)
    BY <1>2 DEF EndPart
  <2>2. Known(0, schema', config') /\ (whole'[t] => WholeTo(0, schema'))
    BY DEF Known, WholeTo
  <2>3. /\ Settles(t)
        /\ \E q \in (MigrationParts \ {"carry", "replace"}) \cup {"using"} :
             Goes(t, q) /\ Place(q) > 0 /\ (q = "drop" => 0 >= 5)
    BY <1>0, <2>1, <2>2, JumpKnows
  <2>4. PICK q \in (MigrationParts \ {"carry", "replace"}) \cup {"using"} :
             Goes(t, q) /\ (q = "drop" => 0 >= 5)
    BY <2>3
  <2>5. phase'[t] = q /\ q \notin {"carry", "drop", "seed", "idle"}
    BY <1>0, <2>4, PartsAre DEF Goes
  <2> QED
    BY <1>2, <2>3, <2>5 DEF Where
<1> QED
  BY <1>1, <1>2

LEMMA CreateWell ==
  ASSUME UInv, NEW t \in Managers, CreateStatement(t), SchemaStep, Grows, OldOrGone
  PROVE  Settles(t) /\ Where(t)
<1>0. /\ t \in Threads /\ phase \in [Threads -> Parts] /\ at \in [Threads -> Nat]
      /\ whole \in [Threads -> BOOLEAN] /\ phase[t] = "create" /\ "create" \in Scripts
      /\ at[t] \in 1 .. Len(Script("create")) /\ UpgradeTypes /\ PathKnown(t) /\ PathWhole(t)
  BY DEF UInv, UpgradeTypes, Managers, CreateStatement, Scripts
<1>1. CASE Fails(Current(t), schema)
  <2>1. EndPart(t, "create") /\ ~whole'[t]
    BY <1>0, <1>1 DEF CreateStatement
  <2> QED
    BY <1>0, <2>1, EndsCreate
<1>2. CASE ~Fails(Current(t), schema)
  <2>1. schema' = Effect(Current(t)) /\ Advance(t) /\ whole' = whole
    BY <1>2 DEF CreateStatement
  <2>2. Left(Current(t), schema')
    BY <1>0, <1>2, <2>1, CurrentMade, EffectSteps
  <2>3. whole'[t] => \A j \in 1 .. (at[t] - 1) : Left(Script("create")[j], schema')
    BY <1>0, <2>1, PathStays
  <2>4. ASSUME NEW m \in 0 .. Len(Script("create")),
               \A i \in (at[t] + 1) .. m : NoWork(Script("create")[i], schema')
        PROVE  whole'[t] => \A j \in 1 .. m : Left(Script("create")[j], schema')
    <3>1. ASSUME NEW j \in 1 .. m, j >= at[t] PROVE Left(Script("create")[j], schema')
      BY <1>0, <2>2, <2>4, <3>1, LeftSoFar DEF Current
    <3>2. \A j \in 1 .. m : j >= at[t] \/ j \in 1 .. (at[t] - 1)
      BY <1>0
    <3> QED
      BY <2>3, <3>1, <3>2
  <2>5. Len(Script("create")) \in Nat
    BY ScriptsHaveStatements DEF Scripts
  <2>6. CASE /\ EndPart(t, phase[t])
             /\ \A i \in (at[t] + 1) .. Len(Script("create")) :
                  NoWork(Script("create")[i], schema')
    <3>1. whole'[t] => ScriptLeft("create", schema')
      BY <2>4, <2>5, <2>6 DEF ScriptLeft
    <3> QED
      BY <1>0, <2>6, <3>1, EndsCreate
  <2>7. CASE \E k \in (at[t] + 1) .. Len(Script("create")) :
               /\ phase' = phase /\ at' = [at EXCEPT ![t] = k]
               /\ ~NoWork(Script("create")[k], schema')
               /\ \A i \in (at[t] + 1) .. (k - 1) : NoWork(Script("create")[i], schema')
    <3>1. PICK k \in (at[t] + 1) .. Len(Script("create")) :
               /\ phase' = phase /\ at' = [at EXCEPT ![t] = k]
               /\ \A i \in (at[t] + 1) .. (k - 1) : NoWork(Script("create")[i], schema')
      BY <2>7
    <3>2. k \in Nat /\ k - 1 \in 0 .. Len(Script("create")) /\ k \in 1 .. Len(Script("create"))
      BY <1>0, <2>5
    <3>3. whole'[t] => \A j \in 1 .. (k - 1) : Left(Script("create")[j], schema')
      BY <2>4, <3>1, <3>2
    <3>4. phase'[t] = "create" /\ at'[t] = k /\ phase' = [phase EXCEPT ![t] = "create"]
      BY <1>0, <3>1
    <3>5. InPlace(t)' /\ PathKnown(t)' /\ PathWhole(t)'
      BY <1>0, <3>2, <3>3, <3>4, PlacesOfParts DEF InPlace, PathKnown, PathWhole
    <3> QED
      BY <3>1, <3>4, <3>5 DEF Settles, Where
  <2> QED
    BY <1>0, <2>1, <2>6, <2>7, Advances
<1> QED
  BY <1>1, <1>2

\* A column that cannot be added is there, or has no table.
LEMMA FailedColumn ==
  ASSUME NEW s, NEW sch, AddsColumn(s), Fails(s, sch)
  PROVE  Left(s, sch)
BY DEF AddsColumn, Fails, Left

\* A part that is no script has no statements to account for.
LEMMA EndsBesideScripts ==
  ASSUME UInv, NEW t \in Managers, phase[t] \in MigrationParts \ Scripts,
         phase[t] \notin {"bridge", "drop", "settings"}, EndPart(t, phase[t]),
         SchemaStep, Grows, OldOrGone, whole'[t] => whole[t] /\ phase[t] # "replace"
  PROVE  Settles(t) /\ Where(t)
<1> DEFINE k == Place(phase[t])
<1>1. k \in 1 .. 16 /\ MigrationOrder[k] = phase[t]
  BY PlacesOfParts
<1>2. k \notin {1, 7, 8}
  BY <1>1, PartsInOrder DEF Scripts
<1>3. /\ Known(k - 1, schema', config')
      /\ whole'[t] => WholeTo(k - 1, schema')
  BY <1>1, PathStays DEF UInv
<1> HIDE DEF k
<1>4. Known(k, schema', config')
  BY <1>1, <1>2, <1>3 DEF Known
<1>5. whole'[t] => WholeTo(k, schema')
  <2>1. \A i \in 1 .. k : i \in 1 .. (k - 1) \/ i = k
    BY <1>1
  <2> QED
    BY <1>1, <1>3, <2>1 DEF WholeTo
<1> QED
  BY <1>4, <1>5, EndsWell DEF UInv, UpgradeTypes, k

LEMMA ConstructorOld ==
  ASSUME UpgradeTypes, NEW t \in Threads, ConstructorStep(t)
  PROVE  OldOrGone
<1>1. "OLD" \in DOMAIN config
  BY KeysAre DEF UpgradeTypes
<1>2. WithDefaults["OLD"] = config["OLD"]
  BY <1>1 DEF WithDefaults
<1> QED
  BY <1>1, <1>2
     DEF ConstructorStep, CreateStatement, SeedDefaults, AddColumn, RenameHeartbeat,
         EnsureStatement, SeedConfigKeys, ReadOldKey, CarryOver, DropDeprecated,
         PutSettingsAside, ReplaceSettings, LookForColumn, AddBybitColumn, CreateLateTable,
         AddConfigDefaults, OldOrGone

\* A step of a constructor leaves its thread where the file is as its place says.
LEMMA ManagerSteps ==
  ASSUME UInv, NEW t \in Managers, ConstructorStep(t)
  PROVE  Settles(t) /\ Where(t)
<1>0. /\ t \in Threads /\ phase \in [Threads -> Parts] /\ at \in [Threads -> Nat]
      /\ whole \in [Threads -> BOOLEAN] /\ note \in [Threads -> {"none", "new", "missing", "chosen"}]
      /\ UpgradeTypes /\ PathKnown(t) /\ PathWhole(t) /\ NewFile(t)
      /\ phase[t] \in Scripts => at[t] \in 1 .. Len(Script(phase[t]))
  BY DEF UInv, UpgradeTypes, Managers
<1>00. SchemaStep /\ OldOrGone /\ (Grows \/ (PutSettingsAside(t) /\ Malformed(schema)))
  BY <1>0, ConstructorSchema, ConstructorOld, ConstructorGrows
<1>1. CASE CreateStatement(t)
  BY <1>0, <1>00, <1>1, CreateWell DEF CreateStatement, PutSettingsAside
<1>2. CASE SeedDefaults(t)
  <2>1. phase[t] = "seed" /\ note[t] = "new" /\ whole' = whole /\ schema' = schema
    BY <1>0, <1>2 DEF SeedDefaults, NewFile
  <2>2. phase' = [phase EXCEPT ![t] = "using"] /\ at' = [at EXCEPT ![t] = 1]
    BY <1>2 DEF SeedDefaults, GoTo
  <2>3. phase'[t] = "using" /\ at'[t] = 1
    BY <1>0, <2>2
  <2>4. Known(16, schema', config') /\ ~whole'[t]
    BY <1>0, <1>00, <2>1 DEF Known, NewFile, OldOrGone
  <2>5. "using" \in Parts /\ "using" \notin Scripts /\ Place("using") = 17
    BY PlacesOfParts, PartsAre DEF Scripts, Looking
  <2>6. InPlace(t)' /\ PathKnown(t)' /\ PathWhole(t)'
    BY <2>3, <2>4, <2>5 DEF InPlace, PathKnown, PathWhole
  <2> QED
    BY <2>1, <2>2, <2>3, <2>6 DEF Settles, Where
<1>3. CASE AddColumn(t)
  <2>1. phase[t] = "columns" /\ phase[t] \in Scripts \ {"create"} /\ Advance(t) /\ Grows
        /\ whole' = whole
    BY <1>00, <1>3 DEF AddColumn, Scripts, PutSettingsAside
  <2>2. AddsColumn(Current(t))
    BY <1>0, <2>1, CurrentMade
  <2>3. Left(Current(t), schema')
    BY <1>3, <2>2, FailedColumn, EffectSteps DEF AddColumn
  <2> QED
    BY <1>00, <2>1, <2>3, AdvancesWell
<1>4. CASE RenameHeartbeat(t)
  <2>1. phase[t] = "rename" /\ EndPart(t, phase[t]) /\ whole' = whole /\ Grows
    BY <1>00, <1>4 DEF RenameHeartbeat, PutSettingsAside
  <2>2. phase[t] \in MigrationParts \ Scripts
    BY <2>1, PartsAre DEF Scripts, Looking
  <2> QED
    BY <1>00, <2>1, <2>2, EndsBesideScripts
<1>5. CASE EnsureStatement(t)
  <2>1. phase[t] = "ensure" /\ phase[t] \in Scripts \ {"create"} /\ Grows /\ whole' = whole
    BY <1>00, <1>5 DEF EnsureStatement, Scripts, PutSettingsAside
  <2>2. MakesTable(Current(t)) /\ ~Fails(Current(t), schema)
    BY <1>0, <2>1 DEF PathKnown, MakesTable, Fails
  <2>3. schema' = Effect(Current(t)) /\ Advance(t)
    BY <1>5, <2>2 DEF EnsureStatement
  <2> QED
    BY <1>00, <2>1, <2>2, <2>3, EffectSteps, AdvancesWell
<1>6. CASE SeedConfigKeys(t)
  <2>1. phase[t] = "keys" /\ EndPart(t, phase[t]) /\ whole' = whole /\ Grows
    BY <1>00, <1>6 DEF SeedConfigKeys, PutSettingsAside
  <2>2. phase[t] \in MigrationParts \ Scripts
    BY <2>1, PartsAre DEF Scripts, Looking
  <2> QED
    BY <1>00, <2>1, <2>2, EndsBesideScripts
<1>7. CASE ReadOldKey(t)
  <2>1. phase[t] = "bridge" /\ whole' = whole /\ Grows
    BY <1>00, <1>7 DEF ReadOldKey, PutSettingsAside
  <2>2. phase' = [phase EXCEPT ![t] = "carry"] /\ at' = [at EXCEPT ![t] = 1]
    BY <1>7 DEF ReadOldKey, GoTo
  <2>3. phase'[t] = "carry" /\ at'[t] = 1
    BY <1>0, <2>2
  <2>4. Place("bridge") = 5 /\ Place("carry") = 6
    BY DEF Place
  <2>5. Known(4, schema', config') /\ (whole[t] => WholeTo(4, schema'))
    BY <1>0, <1>00, <2>1, <2>4, PathStays
  <2>6. Known(5, schema', config')
    BY <2>5 DEF Known
  <2>7. whole[t] => WholeTo(5, schema')
    <3>1. MigrationOrder[5] \notin Scripts
      BY PartsInOrder DEF Scripts, Looking
    <3>2. \A i \in 1 .. 5 : i \in 1 .. 4 \/ i = 5
      OBVIOUS
    <3> QED
      BY <2>5, <3>1, <3>2 DEF WholeTo
  <2>8. "carry" \in Parts /\ "carry" \notin Scripts
    BY PartsAre DEF Scripts, Looking
  <2>9. InPlace(t)' /\ PathKnown(t)' /\ PathWhole(t)'
    BY <2>1, <2>3, <2>4, <2>6, <2>7, <2>8 DEF InPlace, PathKnown, PathWhole
  <2> QED
    BY <2>1, <2>2, <2>3, <2>9 DEF Settles, Where
<1>8. CASE CarryOver(t)
  <2>1. phase[t] = "carry" /\ EndPart(t, phase[t]) /\ whole' = whole /\ Grows
    BY <1>00, <1>8 DEF CarryOver, PutSettingsAside
  <2>2. phase[t] \in MigrationParts \ Scripts
    BY <2>1, PartsAre DEF Scripts, Looking
  <2> QED
    BY <1>00, <2>1, <2>2, EndsBesideScripts
<1>9. CASE DropDeprecated(t)
  <2>1. phase[t] = "drop" /\ EndPart(t, phase[t]) /\ whole' = whole /\ Grows
    BY <1>00, <1>9 DEF DropDeprecated, PutSettingsAside
  <2>2. phase[t] \in MigrationParts \ {"bridge"} /\ Place("drop") = 7
        /\ MigrationOrder[7] \notin Scripts
    BY <2>1, PartsAre, PartsInOrder DEF Scripts, Looking, Place
  <2>3. Known(6, schema', config') /\ (whole[t] => WholeTo(6, schema'))
    BY <1>0, <1>00, <2>1, <2>2, PathStays
  <2>4. config'["OLD"] = "none"
    BY <1>0, <1>9, KeysAre DEF DropDeprecated, UpgradeTypes
  <2>5. Known(7, schema', config')
    BY <2>3, <2>4 DEF Known
  <2>6. whole'[t] => WholeTo(7, schema')
    <3>1. \A i \in 1 .. 7 : i \in 1 .. 6 \/ i = 7
      OBVIOUS
    <3> QED
      BY <2>1, <2>2, <2>3, <3>1 DEF WholeTo
  <2> QED
    BY <1>0, <2>1, <2>2, <2>5, <2>6, EndsWell
<1>10. CASE PutSettingsAside(t) /\ Malformed(schema)
  <2>1. phase[t] = "settings" /\ schema' = {x \in schema : x[1] # "settings"}
    BY <1>10 DEF PutSettingsAside
  <2>2. phase' = [phase EXCEPT ![t] = "replace"] /\ at' = [at EXCEPT ![t] = 1]
    BY <1>10 DEF PutSettingsAside, GoTo
  <2>3. phase'[t] = "replace" /\ at'[t] = 1
    BY <1>0, <2>2
  <2>4. Place("settings") = 8 /\ Place("replace") = 9
    BY DEF Place
  <2>5. Known(7, schema', config')
    BY <1>0, <1>00, <2>1, <2>4, KnownStays DEF PathKnown
  <2>6. ~Malformed(schema')
    BY <2>1 DEF Malformed
  <2>7. Known(8, schema', config')
    BY <2>5, <2>6 DEF Known
  <2>8. "replace" \in Parts /\ "replace" \notin Scripts
    BY PartsAre DEF Scripts, Looking
  <2>9. InPlace(t)' /\ PathKnown(t)' /\ PathWhole(t)'
    BY <2>3, <2>4, <2>7, <2>8 DEF InPlace, PathKnown, PathWhole
  <2> QED
    BY <2>1, <2>2, <2>3, <2>9 DEF Settles, Where
<1>11. CASE PutSettingsAside(t) /\ ~Malformed(schema)
  <2>1. phase[t] = "settings" /\ EndPart(t, phase[t]) /\ whole' = whole /\ schema' = schema
    BY <1>11 DEF PutSettingsAside
  <2>2. phase[t] \in MigrationParts \ {"bridge"} /\ Place("settings") = 8
        /\ MigrationOrder[8] \notin Scripts
    BY <2>1, PartsAre, PartsInOrder DEF Scripts, Looking, Place
  <2>3. Known(7, schema', config') /\ (whole[t] => WholeTo(7, schema'))
    BY <1>0, <1>00, <1>11, <2>1, <2>2, PathStays
  <2>4. Known(8, schema', config')
    BY <1>11, <2>1, <2>3 DEF Known
  <2>5. whole'[t] => WholeTo(8, schema')
    <3>1. \A i \in 1 .. 8 : i \in 1 .. 7 \/ i = 8
      OBVIOUS
    <3> QED
      BY <2>1, <2>2, <2>3, <3>1 DEF WholeTo
  <2> QED
    BY <1>0, <2>1, <2>2, <2>4, <2>5, EndsWell
<1>12. CASE ReplaceSettings(t)
  <2>1. phase[t] = "replace" /\ EndPart(t, phase[t]) /\ ~whole'[t] /\ Grows
    BY <1>0, <1>00, <1>12 DEF ReplaceSettings, PutSettingsAside
  <2>2. phase[t] \in MigrationParts \ Scripts
    BY <2>1, PartsAre DEF Scripts, Looking
  <2> QED
    BY <1>00, <2>1, <2>2, EndsBesideScripts
<1>13. CASE LookForColumn(t)
  <2>1. phase[t] \in Looking /\ phase[t] \in Scripts \ {"create"} /\ Grows /\ whole' = whole
        /\ schema' = schema /\ config' = config
    BY <1>00, <1>13 DEF LookForColumn, Scripts, PutSettingsAside, Looking
  <2>2. AddsColumn(Current(t))
    BY <1>0, <2>1, CurrentMade
  <2>3. CASE Fails(Current(t), schema)
    <3>1. Advance(t) /\ Left(Current(t), schema')
      BY <1>13, <2>1, <2>2, <2>3, FailedColumn DEF LookForColumn
    <3> QED
      BY <1>00, <2>1, <3>1, AdvancesWell
  <2>4. CASE ~Fails(Current(t), schema)
    <3>1. phase' = phase /\ at' = at
      BY <1>13, <2>4 DEF LookForColumn
    <3>2. phase' = [phase EXCEPT ![t] = phase[t]] /\ at' = [at EXCEPT ![t] = at[t]]
      BY <1>0, <3>1
    <3>3. phase'[t] = phase[t] /\ at'[t] = at[t] /\ phase[t] \in Parts /\ at[t] \in Nat
      BY <1>0, <3>1
    <3>4. phase[t] \notin {"carry", "drop", "seed", "idle", "create", "columns", "ensure"}
      BY <2>1 DEF Looking
    <3>5. InPlace(t)'
      BY <1>0, <3>3 DEF InPlace
    <3>6. PathKnown(t)' /\ PathWhole(t)'
      BY <1>0, <2>1, <3>3, <3>4 DEF PathKnown, PathWhole
    <3> QED
      BY <3>2, <3>3, <3>4, <3>5, <3>6 DEF Settles, Where
  <2> QED
    BY <2>3, <2>4
<1>14. CASE AddBybitColumn(t)
  <2>1. phase[t] \in Looking /\ phase[t] \in Scripts \ {"create"} /\ Grows
    BY <1>00, <1>14 DEF AddBybitColumn, Scripts, PutSettingsAside, Looking
  <2>2. AddsColumn(Current(t))
    BY <1>0, <2>1, CurrentMade
  <2>3. CASE Fails(Current(t), schema)
    <3>1. EndPart(t, phase[t]) /\ ~whole'[t]
      BY <1>0, <1>14, <2>3 DEF AddBybitColumn
    <3>2. phase[t] \in MigrationParts \ {"bridge"}
      BY <2>1, PartsAre DEF Looking
    <3>3. Place(phase[t]) \in 1 .. 16 /\ MigrationOrder[Place(phase[t])] = phase[t]
      BY <3>2, PlacesOfParts
    <3>4. Place(phase[t]) \notin {1, 7, 8}
      BY <2>1, <3>3, PartsInOrder DEF Looking
    <3>5. Known(Place(phase[t]) - 1, schema', config')
      BY <1>0, <1>00, <2>1, <3>3, PathStays
    <3>6. Known(Place(phase[t]), schema', config')
      BY <3>3, <3>4, <3>5 DEF Known
    <3> QED
      BY <1>0, <3>1, <3>2, <3>6, EndsWell
  <2>4. CASE ~Fails(Current(t), schema)
    <3>1. schema' = Effect(Current(t)) /\ Advance(t) /\ whole' = whole
      BY <1>14, <2>4 DEF AddBybitColumn
    <3>2. Left(Current(t), schema')
      BY <2>2, <2>4, <3>1, EffectSteps
    <3> QED
      BY <1>00, <2>1, <3>1, <3>2, AdvancesWell
  <2> QED
    BY <2>3, <2>4
<1>15. CASE CreateLateTable(t)
  <2>1. phase[t] \in {"bybit", "meta"} /\ phase[t] \in Scripts \ {"create"} /\ Grows
        /\ whole' = whole /\ schema' = Effect(Current(t)) /\ Advance(t)
    BY <1>00, <1>15 DEF CreateLateTable, Scripts, PutSettingsAside
  <2>2. MakesTable(Current(t)) /\ ~Fails(Current(t), schema)
    BY <1>0, <2>1, CurrentMade DEF MakesTable, Fails
  <2> QED
    BY <1>00, <2>1, <2>2, EffectSteps, AdvancesWell
<1>16. CASE AddConfigDefaults(t)
  <2>1. phase[t] = "defaults" /\ EndPart(t, phase[t]) /\ whole' = whole /\ Grows
    BY <1>00, <1>16 DEF AddConfigDefaults, PutSettingsAside
  <2>2. phase[t] \in MigrationParts \ Scripts
    BY <2>1, PartsAre DEF Scripts, Looking
  <2> QED
    BY <1>00, <2>1, <2>2, EndsBesideScripts
<1> QED
  BY <1>1, <1>2, <1>3, <1>4, <1>5, <1>6, <1>7, <1>8, <1>9, <1>10, <1>11, <1>12, <1>13,
     <1>14, <1>15, <1>16 DEF ConstructorStep

\* The operator's run stays within its parts.
LEMMA CliSteps ==
  ASSUME UInv, ConstructorStep("cli")
  PROVE  /\ \E q, n : phase' = [phase EXCEPT !["cli"] = q] /\ at' = [at EXCEPT !["cli"] = n]
         /\ InPlace("cli")' /\ phase'["cli"] \in CliParts \cup {"idle"}
<1>0. /\ "cli" \in Threads /\ phase \in [Threads -> Parts] /\ at \in [Threads -> Nat]
      /\ phase["cli"] \in CliParts \cup {"idle"}
      /\ phase["cli"] \in Scripts => at["cli"] \in 1 .. Len(Script(phase["cli"]))
  BY ThreadsAssumption DEF UInv, UpgradeTypes, Roles
<1>1. \/ LookForColumn("cli") \/ AddBybitColumn("cli") \/ CreateLateTable("cli")
      \/ AddConfigDefaults("cli")
  BY <1>0 DEF ConstructorStep, CreateStatement, SeedDefaults, AddColumn, RenameHeartbeat,
              EnsureStatement, SeedConfigKeys, ReadOldKey, CarryOver, DropDeprecated,
              PutSettingsAside, ReplaceSettings, CliParts
<1>2. phase["cli"] \in CliParts
  BY <1>0, <1>1 DEF LookForColumn, AddBybitColumn, CreateLateTable, AddConfigDefaults, Looking
<1>3. CliParts \cup {"idle"} \subseteq Parts
  BY PartsAre DEF CliParts
<1>4. CASE EndPart("cli", phase["cli"])
  <2>1. PICK q \in CliParts \cup {"idle"} : Goes("cli", q)
    BY <1>2, <1>4, CliEnds
  <2>2. phase'["cli"] = q /\ at'["cli"] = 1
    BY <1>0, <2>1 DEF Goes
  <2>3. q \in Scripts => 1 \in 1 .. Len(Script(q))
    BY ScriptsHaveStatements
  <2>4. InPlace("cli")'
    BY <1>3, <2>2, <2>3 DEF InPlace
  <2> QED
    BY <2>1, <2>2, <2>4 DEF Goes
<1>5. ASSUME NEW k \in Nat, phase' = phase, at' = [at EXCEPT !["cli"] = k],
             phase["cli"] \in Scripts => k \in 1 .. Len(Script(phase["cli"]))
      PROVE  /\ \E q, n : phase' = [phase EXCEPT !["cli"] = q] /\ at' = [at EXCEPT !["cli"] = n]
             /\ InPlace("cli")' /\ phase'["cli"] \in CliParts \cup {"idle"}
  <2>1. phase'["cli"] = phase["cli"] /\ at'["cli"] = k
        /\ phase' = [phase EXCEPT !["cli"] = phase["cli"]]
    BY <1>0, <1>5
  <2>2. InPlace("cli")'
    BY <1>0, <1>5, <2>1 DEF InPlace
  <2> QED
    BY <1>2, <1>5, <2>1, <2>2
<1>6. CASE Advance("cli") /\ phase["cli"] \in Scripts
  <2>1. CASE \E k \in (at["cli"] + 1) .. Len(Script(phase["cli"])) :
               phase' = phase /\ at' = [at EXCEPT !["cli"] = k]
    <3>1. PICK k \in (at["cli"] + 1) .. Len(Script(phase["cli"])) :
               phase' = phase /\ at' = [at EXCEPT !["cli"] = k]
      BY <2>1
    <3>2. k \in Nat /\ k \in 1 .. Len(Script(phase["cli"]))
      BY <1>0, <1>6, ScriptsHaveStatements
    <3> QED
      BY <1>5, <3>1, <3>2
  <2> QED
    BY <1>0, <1>4, <1>6, <2>1, Advances
<1>7. CASE phase' = phase /\ at' = at
  <2>1. at' = [at EXCEPT !["cli"] = at["cli"]] /\ at["cli"] \in Nat
    BY <1>0, <1>7
  <2> QED
    BY <1>0, <1>5, <1>7, <2>1
<1>8. phase["cli"] \in Looking \cup {"bybit"} => phase["cli"] \in Scripts
  BY DEF Scripts
<1>9. CASE LookForColumn("cli")
  BY <1>6, <1>7, <1>8, <1>9 DEF LookForColumn
<1>10. CASE AddBybitColumn("cli")
  BY <1>4, <1>6, <1>8, <1>10 DEF AddBybitColumn
<1>11. CASE CreateLateTable("cli")
  BY <1>2, <1>6, <1>8, <1>11 DEF CreateLateTable, CliParts
<1>12. CASE AddConfigDefaults("cli")
  BY <1>4, <1>12 DEF AddConfigDefaults
<1> QED
  BY <1>1, <1>9, <1>10, <1>11, <1>12

\* A step of a constructor leaves the other threads where they are.
Alone(t) ==
  \A u \in Threads \ {t} :
    /\ phase'[u] = phase[u] /\ at'[u] = at[u]
    /\ note'[u] = note[u] /\ whole'[u] = whole[u]

LEMMA ConstructorNotes ==
  ASSUME UpgradeTypes, NEW t \in Threads, ConstructorStep(t)
  PROVE  /\ note' \in [Threads -> {"none", "new", "missing", "chosen"}]
         /\ whole' \in [Threads -> BOOLEAN]
         /\ \A u \in Threads \ {t} : note'[u] = note[u] /\ whole'[u] = whole[u]
         /\ whole'[t] => whole[t]
         /\ file' = file
         /\ note'[t] = "new" => note[t] = "new" /\ phase[t] # "seed"
         /\ phase[t] = "create" => note' = note
<1>0. /\ note \in [Threads -> {"none", "new", "missing", "chosen"}]
      /\ whole \in [Threads -> BOOLEAN] /\ config["OLD"] \in {"none", "chosen"}
  BY DEF UpgradeTypes
<1>1. /\ file' = file
      /\ \/ note' = note /\ phase[t] # "seed"
         \/ \E x \in {"none", "missing", "chosen"} :
              note' = [note EXCEPT ![t] = x] /\ phase[t] # "create"
  BY <1>0 DEF ConstructorStep, CreateStatement, SeedDefaults, AddColumn, RenameHeartbeat,
              EnsureStatement, SeedConfigKeys, ReadOldKey, CarryOver, DropDeprecated,
              PutSettingsAside, ReplaceSettings, LookForColumn, AddBybitColumn,
              CreateLateTable, AddConfigDefaults, Looking
<1>2. whole' = whole \/ whole' = [whole EXCEPT ![t] = FALSE]
  BY DEF ConstructorStep, CreateStatement, SeedDefaults, AddColumn, RenameHeartbeat,
         EnsureStatement, SeedConfigKeys, ReadOldKey, CarryOver, DropDeprecated,
         PutSettingsAside, ReplaceSettings, LookForColumn, AddBybitColumn,
         CreateLateTable, AddConfigDefaults
<1>3. /\ note' \in [Threads -> {"none", "new", "missing", "chosen"}]
      /\ \A u \in Threads \ {t} : note'[u] = note[u]
      /\ note'[t] = "new" => note[t] = "new" /\ phase[t] # "seed"
      /\ phase[t] = "create" => note' = note
  BY <1>0, <1>1
<1>4. /\ whole' \in [Threads -> BOOLEAN]
      /\ \A u \in Threads \ {t} : whole'[u] = whole[u]
  BY <1>0, <1>2
<1>5. whole'[t] => whole[t]
  BY <1>0, <1>2
<1> QED
  BY <1>1, <1>3, <1>4, <1>5

LEMMA ConstructorAlone ==
  ASSUME UInv, NEW t \in Threads, ConstructorStep(t)
  PROVE  /\ Alone(t) /\ InPlace(t)'
         /\ phase' \in [Threads -> Parts] /\ at' \in [Threads -> Nat]
<1>0. phase \in [Threads -> Parts] /\ at \in [Threads -> Nat] /\ UpgradeTypes
  BY DEF UInv, UpgradeTypes
<1>1. (\E q, n : phase' = [phase EXCEPT ![t] = q] /\ at' = [at EXCEPT ![t] = n]) /\ InPlace(t)'
  BY ManagerSteps, CliSteps DEF Managers, Settles
<1>2. PICK q, n : phase' = [phase EXCEPT ![t] = q] /\ at' = [at EXCEPT ![t] = n]
  BY <1>1
<1>3. phase'[t] = q /\ at'[t] = n /\ q \in Parts /\ n \in Nat
  BY <1>0, <1>1, <1>2 DEF InPlace
<1>4. /\ phase' \in [Threads -> Parts] /\ at' \in [Threads -> Nat]
      /\ \A u \in Threads \ {t} : phase'[u] = phase[u] /\ at'[u] = at[u]
  BY <1>0, <1>2, <1>3
<1> QED
  BY <1>0, <1>1, <1>4, ConstructorNotes DEF Alone

\* The settings after a step of a constructor.
LEMMA ConstructorConfig ==
  ASSUME UInv, NEW t \in Threads, ConstructorStep(t)
  PROVE  /\ config' \in [Keys -> {"none", "default", "percent", "chosen", "edited"}]
         /\ \/ config'["DAILY"] = config["DAILY"] \/ config["DAILY"] = "none"
            \/ phase[t] = "carry" /\ note[t] = "chosen" /\ config'["DAILY"] = "chosen"
         /\ config["CAP"] # "none" => config'["CAP"] = config["CAP"]
         /\ config'["OLD"] # config["OLD"] => phase[t] = "drop"
         /\ seeded' \in {"none", "default", "edited"}
         /\ seeded' # seeded => phase[t] = "seed"
         /\ phase[t] = "carry" => config'["DAILY"] = IF note[t] # "none" THEN note[t]
                                                     ELSE config["DAILY"]
<1>0. /\ config \in [{"OLD", "DAILY", "CAP"} ->
                       {"none", "default", "percent", "chosen", "edited"}]
      /\ phase[t] = "carry" => note[t] \in {"none", "chosen"}
      /\ seeded \in {"none", "default", "edited"}
  BY KeysAre DEF UInv, UpgradeTypes, Bridged
<1>1. CASE config' = config /\ phase[t] # "carry" /\ seeded' = seeded
  BY <1>0, <1>1, KeysAre
<1>2. CASE config' = WithDefaults /\ phase[t] \notin {"carry", "drop"}
           /\ (seeded' = seeded \/ (seeded' = "default" /\ phase[t] = "seed"))
  <2>1. /\ WithDefaults["OLD"] = config["OLD"]
        /\ WithDefaults["DAILY"] = IF config["DAILY"] = "none" THEN "default" ELSE config["DAILY"]
        /\ WithDefaults["CAP"] = IF config["CAP"] = "none" THEN "default" ELSE config["CAP"]
    BY <1>0 DEF WithDefaults
  <2>2. WithDefaults \in [{"OLD", "DAILY", "CAP"} ->
                            {"none", "default", "percent", "chosen", "edited"}]
    BY <1>0 DEF WithDefaults
  <2>3. config' \in [Keys -> {"none", "default", "percent", "chosen", "edited"}]
    BY <1>2, <2>2, KeysAre
  <2>4. /\ config'["DAILY"] = config["DAILY"] \/ config["DAILY"] = "none"
        /\ config["CAP"] # "none" => config'["CAP"] = config["CAP"]
        /\ config'["OLD"] = config["OLD"]
    BY <1>2, <2>1
  <2>5. /\ phase[t] # "carry" /\ (seeded' = seeded \/ phase[t] = "seed")
        /\ seeded' \in {"none", "default", "edited"}
    BY <1>0, <1>2
  <2> QED
    BY <2>3, <2>4, <2>5
<1>3. CASE CarryOver(t)
  <2>1. /\ phase[t] = "carry" /\ seeded' = seeded
        /\ config' = IF note[t] # "none" THEN [config EXCEPT !["DAILY"] = note[t]] ELSE config
    BY <1>3 DEF CarryOver
  <2> QED
    BY <1>0, <2>1, KeysAre
<1>4. CASE DropDeprecated(t)
  <2>1. phase[t] = "drop" /\ seeded' = seeded /\ config' = [config EXCEPT !["OLD"] = "none"]
    BY <1>4 DEF DropDeprecated
  <2> QED
    BY <1>0, <2>1, KeysAre
<1>5. CASE AddConfigDefaults(t)
  <2>1. /\ phase[t] = "defaults" /\ seeded' = seeded
        /\ config' = [config EXCEPT !["CAP"] = IF config["CAP"] = "none" THEN "percent"
                                               ELSE config["CAP"]]
    BY <1>5 DEF AddConfigDefaults
  <2> QED
    BY <1>0, <2>1, KeysAre
<1>6. CASE SeedDefaults(t) \/ SeedConfigKeys(t)
  BY <1>2, <1>6 DEF SeedDefaults, SeedConfigKeys
<1>7. CASE \/ CreateStatement(t) \/ AddColumn(t) \/ RenameHeartbeat(t) \/ EnsureStatement(t)
           \/ ReadOldKey(t) \/ PutSettingsAside(t) \/ ReplaceSettings(t)
           \/ LookForColumn(t) \/ AddBybitColumn(t) \/ CreateLateTable(t)
  BY <1>1, <1>7
     DEF CreateStatement, AddColumn, RenameHeartbeat, EnsureStatement, ReadOldKey,
         PutSettingsAside, ReplaceSettings, LookForColumn, AddBybitColumn, CreateLateTable,
         Looking
<1> QED
  BY <1>3, <1>4, <1>5, <1>6, <1>7 DEF ConstructorStep

\* A thread at work is the one its time allows.
LEMMA WhoIsAtWork ==
  ASSUME UInv, NEW t \in Threads, phase[t] # "idle"
  PROVE  /\ t = "boot" => ~up
         /\ t \in Tasks => up
         /\ t = "tool" => drill = "reset"
         /\ t = "cli" => drill = "migrate"
         /\ t \in Tasks \/ t \in {"boot", "tool", "cli"}
BY ThreadsAssumption DEF UInv, Roles

LEMMA OthersKnow ==
  ASSUME UInv, NEW t \in Threads, ConstructorStep(t), NEW u \in Managers \ {t}
  PROVE  PathKnown(u)' /\ PathWhole(u)'
<1>0. /\ UpgradeTypes /\ PathKnown(u) /\ PathWhole(u) /\ u \in Threads
      /\ SchemaStep /\ OldOrGone /\ (Grows \/ (PutSettingsAside(t) /\ Malformed(schema)))
      /\ phase'[u] = phase[u] /\ at'[u] = at[u] /\ whole'[u] = whole[u]
  BY ConstructorSchema, ConstructorOld, ConstructorGrows, ConstructorAlone
     DEF UInv, Managers, Alone
<1>1. CASE Grows
  <2>1. phase[u] = "ensure" => MakesTable(Current(u))'
    BY <1>0 DEF PathKnown, Current
  <2> QED
    BY <1>0, <1>1, <2>1, PathStays DEF PathKnown, PathWhole
<1>2. CASE PutSettingsAside(t) /\ Malformed(schema)
  <2>1. ~up /\ drill = "upgrade"
    BY <1>2 DEF UInv, Roles, UpgradeTypes
  <2>2. phase[t] # "idle"
    BY <1>2 DEF PutSettingsAside
  <2>3. t = "boot"
    BY <2>1, <2>2, WhoIsAtWork
  <2>4. phase[u] = "idle"
    BY <1>0, <2>1, <2>3, WhoIsAtWork DEF Managers
  <2>5. Place("idle") = 0 /\ "idle" \notin Scripts
    BY PlacesOfParts DEF Scripts, Looking
  <2> QED
    BY <1>0, <2>4, <2>5 DEF PathKnown, PathWhole
<1> QED
  BY <1>0, <1>1, <1>2

LEMMA NewFileStays ==
  ASSUME UInv, NEW t \in Threads, ConstructorStep(t), UNCHANGED <<up, edited>>,
         NEW u \in Threads
  PROVE  NewFile(u)'
<1>0. /\ UpgradeTypes /\ NewFile(u) /\ NewFile(t) /\ SchemaStep /\ OldOrGone
  BY ConstructorSchema, ConstructorOld DEF UInv
<1>1. NewFile(u) /\ note[u] = "new" =>
        config'["OLD"] = "none" /\ ~Malformed(schema') /\ Indexed(schema')
  BY <1>0, IndexedStays DEF NewFile, OldOrGone, SchemaStep
<1>2. CASE u # t
  <2>1. phase'[u] = phase[u] /\ note'[u] = note[u] /\ whole'[u] = whole[u]
    BY <1>2, ConstructorAlone DEF Alone
  <2> QED
    BY <1>0, <1>1, <2>1 DEF NewFile
<1>3. CASE u = t /\ t \in Managers
  <2>1. Where(t)
    BY <1>3, ManagerSteps
  <2>2. /\ whole'[t] => whole[t]
        /\ note'[t] = "new" => note[t] = "new" /\ phase[t] # "seed"
        /\ phase[t] = "create" => note'[t] = note[t]
    BY <1>0, ConstructorNotes
  <2>3. note'[t] = "new" => note[t] = "new" /\ phase[t] = "create"
    BY <1>0, <2>2 DEF NewFile
  <2> QED
    BY <1>0, <1>1, <1>3, <2>1, <2>2, <2>3 DEF NewFile, Where
<1>4. CASE u = "cli" /\ t = "cli"
  <2>1. phase["cli"] \in CliParts \cup {"idle"} /\ phase'["cli"] \in CliParts \cup {"idle"}
    BY <1>4, CliSteps DEF UInv, Roles
  <2>2. note'[t] = "new" => note[t] = "new"
    BY <1>0, ConstructorNotes
  <2> QED
    BY <1>0, <1>4, <2>1, <2>2 DEF NewFile, CliParts
<1> QED
  BY <1>2, <1>3, <1>4 DEF Managers

LEMMA BridgedStays ==
  ASSUME UInv, NEW t \in Threads, ConstructorStep(t), UNCHANGED <<up, drill, edited>>,
         NEW u \in Threads
  PROVE  Bridged(u)'
<1>0. /\ UpgradeTypes /\ Bridged(u) /\ Bridged(t)
      /\ config["DAILY"] = "chosen" => config'["DAILY"] = "chosen"
  <2>1. \/ config'["DAILY"] = config["DAILY"] \/ config["DAILY"] = "none"
        \/ config'["DAILY"] = "chosen"
    BY ConstructorConfig
  <2> QED
    BY <2>1 DEF UInv
<1>1. CASE u # t
  <2>1. phase'[u] = phase[u] /\ note'[u] = note[u]
    BY <1>1, ConstructorAlone DEF Alone
  <2> QED
    BY <1>0, <2>1 DEF Bridged, OnlyOld
<1>2. CASE u = t /\ t \in Managers
  <2>1. Where(t)
    BY <1>2, ManagerSteps
  <2>2. CASE phase'[t] = "carry"
    <3>1. phase[t] = "bridge"
      BY <2>1, <2>2 DEF Where
    <3>2. ReadOldKey(t)
      BY <3>1 DEF ConstructorStep, CreateStatement, SeedDefaults, AddColumn, RenameHeartbeat,
              EnsureStatement, SeedConfigKeys, CarryOver, DropDeprecated, PutSettingsAside,
              ReplaceSettings, LookForColumn, AddBybitColumn, CreateLateTable,
              AddConfigDefaults, Looking
    <3>3. note'[t] = config["OLD"] /\ config' = config
      BY <3>2 DEF ReadOldKey, UInv, UpgradeTypes
    <3>4. config["OLD"] \in {"none", "chosen"}
      BY DEF UInv, UpgradeTypes
    <3>5. config["OLD"] = "chosen" => "DAILY" \notin edited /\ ~up /\ drill = "upgrade"
      BY DEF UInv, NewKeyIsTheOnly, Roles
    <3>6. config["OLD"] = "chosen" => t = "boot"
      BY <3>1, <3>5, WhoIsAtWork
    <3>7. config["OLD"] = "none" /\ OnlyOld => config["DAILY"] = "chosen"
      BY DEF UInv, ChoicesKept, OnlyOld
    <3> QED
      BY <1>2, <2>2, <3>3, <3>4, <3>5, <3>6, <3>7 DEF Bridged, OnlyOld
  <2>3. CASE phase'[t] = "drop"
    <3>1. phase[t] = "carry"
      BY <2>1, <2>3 DEF Where
    <3>2. config'["DAILY"] = IF note[t] # "none" THEN note[t] ELSE config["DAILY"]
      BY <3>1, ConstructorConfig
    <3> QED
      BY <1>0, <1>2, <2>3, <3>1, <3>2 DEF Bridged, OnlyOld
  <2>4. CASE phase'[t] \notin {"carry", "drop"}
    BY <1>2, <2>4 DEF Bridged
  <2> QED
    BY <2>2, <2>3, <2>4
<1>3. CASE u = "cli" /\ t = "cli"
  <2>1. phase'["cli"] \in CliParts \cup {"idle"}
    BY <1>3, CliSteps
  <2> QED
    BY <1>3, <2>1 DEF Bridged, CliParts
<1> QED
  BY <1>1, <1>2, <1>3 DEF Managers

LEMMA ConstructorAtWork ==
  ASSUME NEW t \in Threads, ConstructorStep(t)
  PROVE  phase[t] \notin {"idle", "using"}
BY DEF ConstructorStep, CreateStatement, SeedDefaults, AddColumn, RenameHeartbeat,
       EnsureStatement, SeedConfigKeys, ReadOldKey, CarryOver, DropDeprecated,
       PutSettingsAside, ReplaceSettings, LookForColumn, AddBybitColumn, CreateLateTable,
       AddConfigDefaults, Looking

\* The types after a step of a constructor.
LEMMA ConstructorTypes ==
  ASSUME UInv, NEW t \in Threads, Constructing(t)
  PROVE  UpgradeTypes'
<1>0. ConstructorStep(t) /\ up' = up /\ drill' = drill /\ edited' = edited
  BY DEF Constructing
<1>1. phase' \in [Threads -> Parts] /\ at' \in [Threads -> Nat] /\ file' = file
  BY <1>0, ConstructorAlone, ConstructorNotes DEF UInv
<1>2. /\ note' \in [Threads -> {"none", "new", "missing", "chosen"}]
      /\ whole' \in [Threads -> BOOLEAN]
  BY <1>0, ConstructorNotes DEF UInv
<1>3. /\ config' \in [Keys -> {"none", "default", "percent", "chosen", "edited"}]
      /\ seeded' \in {"none", "default", "edited"}
  BY <1>0, ConstructorConfig
<1>4. config'["OLD"] \in {"none", "chosen"}
  BY <1>0, ConstructorOld DEF UInv, UpgradeTypes, OldOrGone
<1>5. ASSUME NEW u \in Threads, phase'[u] \in Scripts
      PROVE  at'[u] \in 1 .. Len(Script(phase'[u]))
  <2>1. CASE u = t
    BY <1>0, <1>5, <2>1, ConstructorAlone DEF InPlace
  <2>2. CASE u # t
    <3>1. phase'[u] = phase[u] /\ at'[u] = at[u]
      BY <1>0, <2>2, ConstructorAlone DEF Alone
    <3> QED
      BY <1>5, <3>1 DEF UInv, UpgradeTypes
  <2> QED
    BY <2>1, <2>2
<1>6. /\ up' \in BOOLEAN /\ file' \in BOOLEAN /\ drill' \in {"upgrade", "migrate", "reset"}
      /\ edited' \subseteq {"prompts"} \cup Keys
  BY <1>0, <1>1 DEF UInv, UpgradeTypes
<1> QED
  BY <1>1, <1>2, <1>3, <1>4, <1>5, <1>6 DEF UpgradeTypes

\* Who may be at work when, after a step of a constructor.
LEMMA ConstructorRoles ==
  ASSUME UInv, NEW t \in Threads, Constructing(t)
  PROVE  Roles'
<1>0. /\ ConstructorStep(t) /\ up' = up /\ drill' = drill /\ edited' = edited
      /\ phase[t] # "idle" /\ Alone(t) /\ file' = file
      /\ (whole'[t] => whole[t]) /\ SchemaStep /\ OldOrGone
  <2>1. ConstructorStep(t) /\ up' = up /\ drill' = drill /\ edited' = edited
    BY DEF Constructing
  <2> QED
    BY <2>1, ConstructorAtWork, ConstructorAlone, ConstructorNotes, ConstructorSchema,
       ConstructorOld DEF UInv
<1>1. /\ t = "boot" => ~up
      /\ t \in Tasks => up
      /\ t = "tool" => drill = "reset"
      /\ t = "cli" => drill = "migrate"
  BY <1>0, WhoIsAtWork
<1>2. phase'["cli"] \in CliParts \cup {"idle"} /\ whole'["cli"] = FALSE
  <2>1. CASE t = "cli"
    <3>1. phase'["cli"] \in CliParts \cup {"idle"}
      BY <1>0, <2>1, CliSteps
    <3>2. whole' \in [Threads -> BOOLEAN] /\ "cli" \in Threads
      BY <1>0, ConstructorNotes, ThreadsAssumption DEF UInv
    <3> QED
      BY <1>0, <2>1, <3>1, <3>2 DEF UInv, Roles
  <2>2. CASE t # "cli"
    BY <1>0, <2>2, ThreadsAssumption DEF UInv, Roles, Alone
  <2> QED
    BY <2>1, <2>2
<1>3. /\ phase'["cli"] # "idle" => drill = "migrate"
      /\ phase'["tool"] # "idle" => drill = "reset"
  BY <1>0, <1>1, ThreadsAssumption DEF UInv, Roles, Alone
<1>4. ~up => \A u \in Tasks : phase'[u] = "idle"
  BY <1>0, <1>1, ThreadsAssumption DEF UInv, Roles, Alone
<1>5. up => phase'["boot"] = "idle" /\ file
  BY <1>0, <1>1, ThreadsAssumption DEF UInv, Roles, Alone
<1>6. up \/ drill # "upgrade" => config'["OLD"] = "none" /\ ~Malformed(schema')
  BY <1>0 DEF UInv, Roles, OldOrGone, SchemaStep
<1>7. file
  BY <1>0 DEF UInv, Roles
<1> QED
  BY <1>0, <1>2, <1>3, <1>4, <1>5, <1>6, <1>7 DEF Roles

\* What was chosen, after a step of a constructor.
LEMMA ConstructorChoices ==
  ASSUME UInv, NEW t \in Threads, Constructing(t)
  PROVE  ChoicesKept' /\ NewKeyIsTheOnly'
<1>0. ConstructorStep(t) /\ up' = up /\ drill' = drill /\ edited' = edited
  BY DEF Constructing
<1>1. NewKeyIsTheOnly'
  BY <1>0, ConstructorOld DEF UInv, NewKeyIsTheOnly, OldOrGone
<1>2. "prompts" \in edited => seeded' = "edited"
  <2>1. phase[t] = "seed" => edited = {}
    BY DEF UInv, NewFile
  <2> QED
    BY <1>0, <2>1, ConstructorConfig DEF UInv, ChoicesKept
<1>3. "DAILY" \in edited => config'["DAILY"] = "edited"
  <2>1. phase[t] = "carry" /\ note[t] = "chosen" => "DAILY" \notin edited
    BY DEF UInv, Bridged
  <2> QED
    BY <1>0, <2>1, ConstructorConfig DEF UInv, ChoicesKept
<1>4. "CAP" \in edited => config'["CAP"] = "edited"
  BY <1>0, ConstructorConfig DEF UInv, ChoicesKept
<1>5. OnlyOld => "chosen" \in {config'["OLD"], config'["DAILY"]}
  <2>1. config["DAILY"] = "chosen" => config'["DAILY"] = "chosen"
    BY <1>0, ConstructorConfig
  <2>2. config'["OLD"] # config["OLD"] => phase[t] = "drop"
    BY <1>0, ConstructorConfig
  <2>3. phase[t] = "drop" /\ OnlyOld => config["DAILY"] = "chosen"
    BY DEF UInv, Bridged
  <2>4. OnlyOld => "chosen" \in {config["OLD"], config["DAILY"]}
    BY DEF UInv, ChoicesKept, OnlyOld
  <2> QED
    BY <2>1, <2>2, <2>3, <2>4
<1> QED
  BY <1>0, <1>1, <1>2, <1>3, <1>4, <1>5 DEF ChoicesKept, OnlyOld

LEMMA ConstructorKeeps ==
  ASSUME UInv, NEW t \in Threads, Constructing(t)
  PROVE  UInv'
<1>0. ConstructorStep(t) /\ UNCHANGED <<up, drill, edited>>
  BY DEF Constructing
<1>1. UpgradeTypes' /\ Roles' /\ ChoicesKept' /\ NewKeyIsTheOnly'
  BY ConstructorTypes, ConstructorRoles, ConstructorChoices
<1>2. \A u \in Threads : NewFile(u)' /\ Bridged(u)'
  BY <1>0, NewFileStays, BridgedStays
<1>3. \A u \in Managers : PathKnown(u)' /\ PathWhole(u)'
  <2> SUFFICES ASSUME NEW u \in Managers PROVE PathKnown(u)' /\ PathWhole(u)'
    OBVIOUS
  <2>1. CASE u = t
    BY <1>0, <2>1, ManagerSteps DEF Settles
  <2>2. CASE u # t
    BY <1>0, <2>2, OthersKnow
  <2> QED
    BY <2>1, <2>2
<1> QED
  BY <1>1, <1>2, <1>3 DEF UInv

\* Threads that stop, or stay where they are, know what they knew.
LEMMA ThreadsRest ==
  ASSUME UInv, UNCHANGED <<schema, config, edited>>,
         \A u \in Threads :
           \/ phase'[u] = "idle" /\ whole'[u] = FALSE /\ note'[u] # "new"
           \/ /\ phase'[u] = phase[u] /\ at'[u] = at[u]
              /\ note'[u] = note[u] /\ whole'[u] = whole[u]
              /\ note[u] = "new" => up' = up
  PROVE  /\ \A u \in Threads : NewFile(u)' /\ Bridged(u)'
         /\ \A u \in Managers : PathKnown(u)' /\ PathWhole(u)'
<1>0. Place("idle") = 0 /\ "idle" \notin Scripts
  BY PlacesOfParts DEF Scripts, Looking
<1>1. ASSUME NEW u \in Threads PROVE NewFile(u)' /\ Bridged(u)'
  <2>1. CASE phase'[u] = "idle" /\ whole'[u] = FALSE /\ note'[u] # "new"
    BY <2>1 DEF NewFile, Bridged
  <2>2. CASE /\ phase'[u] = phase[u] /\ at'[u] = at[u]
             /\ note'[u] = note[u] /\ whole'[u] = whole[u]
             /\ note[u] = "new" => up' = up
    BY <2>2 DEF NewFile, Bridged, UInv, OnlyOld
  <2> QED
    BY <2>1, <2>2
<1>2. ASSUME NEW u \in Managers PROVE PathKnown(u)' /\ PathWhole(u)'
  <2>0. u \in Threads /\ PathKnown(u) /\ PathWhole(u)
    BY DEF Managers, UInv
  <2>1. CASE phase'[u] = "idle" /\ whole'[u] = FALSE /\ note'[u] # "new"
    BY <1>0, <2>1 DEF PathKnown, PathWhole
  <2>2. CASE /\ phase'[u] = phase[u] /\ at'[u] = at[u]
             /\ note'[u] = note[u] /\ whole'[u] = whole[u]
    <3>1. Current(u)' = Current(u)
      BY <2>2 DEF Current
    <3> QED
      BY <2>0, <2>2, <3>1 DEF PathKnown, PathWhole
  <2> QED
    BY <2>0, <2>1, <2>2
<1> QED
  BY <1>1, <1>2

\* A manager that begins knows nothing yet, and only the first start finds no file.
LEMMA ConstructKeeps ==
  ASSUME UInv, NEW t \in Managers, Construct(t), UNCHANGED <<up, drill, edited>>,
         t = "boot" => ~up, t \in Tasks => up, t = "tool" => drill = "reset",
         ~file => t = "boot"
  PROVE  UInv'
<1>0. /\ t \in Threads /\ t # "cli" /\ t \in Tasks \cup {"boot", "tool"}
      /\ note' = [note EXCEPT ![t] = IF file THEN "none" ELSE "new"]
      /\ whole' = [whole EXCEPT ![t] = file]
      /\ file' = TRUE /\ schema' = schema /\ config' = config /\ seeded' = seeded
      /\ phase' = [phase EXCEPT ![t] = "create"] /\ at' = [at EXCEPT ![t] = 1]
      /\ up' = up /\ drill' = drill /\ edited' = edited
  BY ThreadsAssumption DEF Construct, GoTo, Managers
<1>1. /\ UpgradeTypes /\ Roles /\ NewKeyIsTheOnly /\ ChoicesKept
  BY DEF UInv
<1>2. UpgradeTypes'
  <2>1. "create" \in Parts
    BY PartsAre
  <2>2. 1 \in 1 .. Len(Script("create"))
    BY ScriptsHaveStatements DEF Scripts
  <2>3. phase' \in [Threads -> Parts] /\ at' \in [Threads -> Nat]
    BY <1>0, <1>1, <2>1 DEF UpgradeTypes
  <2>4. /\ note' \in [Threads -> {"none", "new", "missing", "chosen"}]
        /\ whole' \in [Threads -> BOOLEAN]
    BY <1>0, <1>1 DEF UpgradeTypes
  <2>5. \A u \in Threads : phase'[u] \in Scripts => at'[u] \in 1 .. Len(Script(phase'[u]))
    <3> SUFFICES ASSUME NEW u \in Threads, phase'[u] \in Scripts
                 PROVE  at'[u] \in 1 .. Len(Script(phase'[u]))
      OBVIOUS
    <3>1. CASE u = t
      <4>1. phase'[u] = "create" /\ at'[u] = 1
        BY <1>0, <1>1, <3>1 DEF UpgradeTypes
      <4> QED
        BY <2>2, <4>1
    <3>2. CASE u # t
      <4>1. phase'[u] = phase[u] /\ at'[u] = at[u]
        BY <1>0, <1>1, <3>2 DEF UpgradeTypes
      <4> QED
        BY <1>1, <4>1 DEF UpgradeTypes
    <3> QED
      BY <3>1, <3>2
  <2> QED
    BY <1>0, <1>1, <2>3, <2>4, <2>5 DEF UpgradeTypes
<1>3. Roles'
  BY <1>0, <1>1, ThreadsAssumption DEF Roles, UpgradeTypes
<1>4. NewKeyIsTheOnly' /\ ChoicesKept'
  BY <1>0, <1>1 DEF NewKeyIsTheOnly, ChoicesKept
<1>5. ASSUME NEW u \in Threads PROVE NewFile(u)' /\ Bridged(u)'
  <2>1. CASE u = t
    <3>1. /\ phase'[u] = "create" /\ note'[u] = (IF file THEN "none" ELSE "new")
          /\ whole'[u] = file
      BY <1>0, <1>1, <2>1 DEF UpgradeTypes
    <3>2. ~file => /\ edited = {} /\ config["OLD"] = "none" /\ ~up /\ t = "boot"
                   /\ ~Malformed(schema) /\ Indexed(schema)
      BY <1>1 DEF Roles, Malformed, Indexed
    <3> QED
      BY <1>0, <2>1, <3>1, <3>2 DEF NewFile, Bridged
  <2>2. CASE u # t
    <3>1. phase'[u] = phase[u] /\ note'[u] = note[u] /\ whole'[u] = whole[u]
      BY <1>0, <1>1, <2>2 DEF UpgradeTypes
    <3> QED
      BY <1>0, <3>1 DEF NewFile, Bridged, UInv, OnlyOld
  <2> QED
    BY <2>1, <2>2
<1>6. ASSUME NEW u \in Managers PROVE PathKnown(u)' /\ PathWhole(u)'
  <2>0. u \in Threads /\ PathKnown(u) /\ PathWhole(u)
    BY DEF Managers, UInv
  <2>1. CASE u = t
    <3>1. phase'[u] = "create" /\ at'[u] = 1
      BY <1>0, <1>1, <2>1 DEF UpgradeTypes
    <3>2. Place("create") = 0
      BY PlacesOfParts
    <3> QED
      BY <3>1, <3>2 DEF PathKnown, PathWhole
  <2>2. CASE u # t
    <3>1. phase'[u] = phase[u] /\ at'[u] = at[u] /\ whole'[u] = whole[u]
      BY <1>0, <1>1, <2>0, <2>2 DEF UpgradeTypes
    <3>2. Current(u)' = Current(u)
      BY <3>1 DEF Current
    <3> QED
      BY <1>0, <2>0, <3>1, <3>2 DEF PathKnown, PathWhole
  <2> QED
    BY <2>1, <2>2
<1> QED
  BY <1>2, <1>3, <1>4, <1>5, <1>6 DEF UInv

\* One thread stops: what it leaves unchanged of its kind.
LEMMA LeavesKeeps ==
  ASSUME UInv, NEW t \in Managers, phase' = [phase EXCEPT ![t] = "idle"],
         whole' = [whole EXCEPT ![t] = FALSE],
         at' \in [Threads -> Nat], \A u \in Threads \ {t} : at'[u] = at[u],
         note' \in [Threads -> {"none", "new", "missing", "chosen"}],
         \A u \in Threads \ {t} : note'[u] = note[u], note'[t] # "new",
         UNCHANGED <<file, schema, config, seeded, drill, edited>>, up' \in BOOLEAN,
         up' # up => up' /\ t = "boot" /\ file /\ config["OLD"] = "none" /\ ~Malformed(schema)
                         /\ note["boot"] # "new"
  PROVE  UInv'
<1>1. /\ UpgradeTypes /\ Roles /\ NewKeyIsTheOnly /\ ChoicesKept /\ t \in Threads /\ t # "cli"
  BY DEF UInv, Managers
<1>2. /\ phase'[t] = "idle" /\ whole'[t] = FALSE
      /\ \A u \in Threads \ {t} : phase'[u] = phase[u] /\ whole'[u] = whole[u]
  BY <1>1 DEF UpgradeTypes
<1>3. UpgradeTypes'
  <2>1. "idle" \in Parts /\ "idle" \notin Scripts
    BY PartsAre DEF Scripts, Looking
  <2>2. phase' \in [Threads -> Parts] /\ whole' \in [Threads -> BOOLEAN]
    BY <1>1, <2>1 DEF UpgradeTypes
  <2>3. \A u \in Threads : phase'[u] \in Scripts => at'[u] \in 1 .. Len(Script(phase'[u]))
    BY <1>1, <1>2, <2>1 DEF UpgradeTypes
  <2> QED
    BY <1>1, <2>2, <2>3 DEF UpgradeTypes
<1>4. Roles'
  BY <1>1, <1>2, ThreadsAssumption DEF Roles, UpgradeTypes
<1>5. NewKeyIsTheOnly' /\ ChoicesKept'
  BY <1>1 DEF NewKeyIsTheOnly, ChoicesKept
<1>6. \A u \in Threads : note[u] = "new" /\ u # t => up' = up
  BY DEF UInv, NewFile
<1>7. /\ \A u \in Threads : NewFile(u)' /\ Bridged(u)'
      /\ \A u \in Managers : PathKnown(u)' /\ PathWhole(u)'
  BY <1>2, <1>6, ThreadsRest
<1> QED
  BY <1>3, <1>4, <1>5, <1>7 DEF UInv

LEMMA ServerUpKeeps == ASSUME UInv, ServerUp PROVE UInv'
<1>1. "boot" \in Managers /\ "boot" \in Threads
  BY ThreadsAssumption DEF Managers
<1>2. phase["boot"] = "using" /\ ~up /\ up' = TRUE
  BY DEF ServerUp
<1>3. file
  BY <1>1, <1>2 DEF UInv, Roles
<1>4. note["boot"] # "new"
  BY <1>1, <1>2 DEF UInv, NewFile
<1>5. Known(16, schema, config)
  <2>1. Place("using") = 17
    BY PlacesOfParts
  <2>2. Place(phase["boot"]) >= 1 => Known(Place(phase["boot"]) - 1, schema, config)
    BY <1>1 DEF UInv, PathKnown
  <2> QED
    BY <1>2, <2>1, <2>2
<1>6. config["OLD"] = "none" /\ ~Malformed(schema)
  BY <1>5 DEF Known
<1>7. at \in [Threads -> Nat] /\ note \in [Threads -> {"none", "new", "missing", "chosen"}]
  BY DEF UInv, UpgradeTypes
<1> QED
  BY <1>1, <1>2, <1>3, <1>4, <1>6, <1>7, LeavesKeeps DEF ServerUp, Leaves

LEMMA ServerDiesKeeps == ASSUME UInv, ServerDies PROVE UInv'
<1>1. /\ UpgradeTypes /\ Roles /\ NewKeyIsTheOnly /\ ChoicesKept
  BY DEF UInv
<1>2. /\ \A u \in Threads : /\ phase'[u] = "idle" /\ whole'[u] = FALSE
                            /\ note'[u] = "none" /\ at'[u] = 1
      /\ up' = FALSE /\ UNCHANGED <<file, schema, config, seeded, drill, edited>>
  BY DEF ServerDies
<1>3. UpgradeTypes'
  <2>1. "idle" \in Parts /\ "idle" \notin Scripts
    BY PartsAre DEF Scripts, Looking
  <2>2. /\ phase' \in [Threads -> Parts] /\ whole' \in [Threads -> BOOLEAN]
        /\ at' \in [Threads -> Nat]
        /\ note' \in [Threads -> {"none", "new", "missing", "chosen"}]
    BY <2>1 DEF ServerDies
  <2> QED
    BY <1>1, <1>2, <2>1, <2>2 DEF UpgradeTypes
<1>4. Roles'
  BY <1>1, <1>2, ThreadsAssumption DEF Roles, UpgradeTypes
<1>5. NewKeyIsTheOnly' /\ ChoicesKept'
  BY <1>1, <1>2 DEF NewKeyIsTheOnly, ChoicesKept
<1>6. /\ \A u \in Threads : NewFile(u)' /\ Bridged(u)'
      /\ \A u \in Managers : PathKnown(u)' /\ PathWhole(u)'
  BY <1>2, ThreadsRest
<1> QED
  BY <1>3, <1>4, <1>5, <1>6 DEF UInv

LEMMA StutterKeeps ==
  ASSUME UInv, UNCHANGED <<phase, whole, file, schema, config, seeded, at, note, up, drill, edited>>
  PROVE  UInv'
<1>1. UpgradeTypes' /\ Roles' /\ NewKeyIsTheOnly' /\ ChoicesKept'
  BY DEF UInv, UpgradeTypes, Roles, NewKeyIsTheOnly, ChoicesKept
<1>2. /\ \A u \in Threads : NewFile(u)' /\ Bridged(u)'
      /\ \A u \in Managers : PathKnown(u)' /\ PathWhole(u)'
  BY ThreadsRest
<1> QED
  BY <1>1, <1>2 DEF UInv

LEMMA EditPromptKeeps == ASSUME UInv, EditPrompt PROVE UInv'
<1>1. /\ UpgradeTypes /\ Roles /\ NewKeyIsTheOnly /\ ChoicesKept
  BY DEF UInv
<1>2. /\ up /\ seeded' = "edited" /\ edited' = edited \cup {"prompts"}
      /\ UNCHANGED <<file, schema, config, phase, at, note, whole, up, drill>>
  BY DEF EditPrompt
<1>3. UpgradeTypes' /\ Roles'
  BY <1>1, <1>2 DEF UpgradeTypes, Roles
<1>4. NewKeyIsTheOnly' /\ ChoicesKept'
  <2>1. /\ \A k \in {"OLD", "DAILY", "CAP"} : k \in edited' => k \in edited
        /\ edited' \cap {"OLD", "DAILY"} = edited \cap {"OLD", "DAILY"}
    BY <1>2
  <2> QED
    BY <1>1, <1>2, <2>1 DEF NewKeyIsTheOnly, ChoicesKept
<1>5. ASSUME NEW u \in Threads PROVE NewFile(u)' /\ Bridged(u)'
  <2>1. OnlyOld' => OnlyOld
    BY <1>2 DEF OnlyOld
  <2>2. "DAILY" \in edited' => "DAILY" \in edited
    BY <1>2
  <2>3. note[u] # "new"
    BY <1>2 DEF UInv, NewFile
  <2> QED
    BY <1>2, <2>1, <2>2, <2>3 DEF UInv, NewFile, Bridged
<1>6. ASSUME NEW u \in Managers PROVE PathKnown(u)' /\ PathWhole(u)'
  BY <1>2 DEF UInv, PathKnown, PathWhole, Current
<1> QED
  BY <1>3, <1>4, <1>5, <1>6 DEF UInv

\* While the server is up no limit is on its way from the old key.
LEMMA EditConfigKeeps == ASSUME UInv, EditConfig PROVE UInv'
<1>1. /\ UpgradeTypes /\ Roles /\ NewKeyIsTheOnly /\ ChoicesKept
  BY DEF UInv
<1> DEFINE key == IF drill = "migrate" THEN "CAP" ELSE "DAILY"
<1>2. /\ up /\ drill # "reset" /\ key \in {"CAP", "DAILY"}
      /\ config' = [config EXCEPT ![key] = "edited"] /\ edited' = edited \cup {key}
      /\ UNCHANGED <<file, schema, seeded, phase, at, note, whole, up, drill>>
  BY DEF EditConfig
<1> HIDE DEF key
<1>3. /\ config["OLD"] = "none" /\ file /\ key \in Keys /\ key # "OLD"
      /\ config \in [Keys -> {"none", "default", "percent", "chosen", "edited"}]
      /\ "OLD" \in Keys /\ "DAILY" \in Keys /\ "CAP" \in Keys
  BY <1>1, <1>2, KeysAre DEF Roles, UpgradeTypes
<1>4. /\ config' \in [Keys -> {"none", "default", "percent", "chosen", "edited"}]
      /\ config'["OLD"] = "none" /\ config'[key] = "edited"
      /\ \A k \in Keys \ {key} : config'[k] = config[k]
  BY <1>2, <1>3
<1>5. UpgradeTypes'
  BY <1>1, <1>2, <1>3, <1>4 DEF UpgradeTypes
<1>6. Roles'
  BY <1>1, <1>2, <1>3, <1>4 DEF Roles
<1>7. NewKeyIsTheOnly'
  BY <1>4 DEF NewKeyIsTheOnly
<1>8. ChoicesKept'
  <2>1. "prompts" \in edited' => seeded' = "edited"
    BY <1>1, <1>2 DEF ChoicesKept
  <2>2. \A k \in {"DAILY", "CAP"} : k \in edited' => config'[k] = "edited"
    BY <1>1, <1>2, <1>3, <1>4 DEF ChoicesKept
  <2>3. edited' \cap {"OLD", "DAILY"} = {"OLD"} => "chosen" \in {config'["OLD"], config'["DAILY"]}
    <3>1. CASE key = "DAILY"
      BY <1>2, <3>1
    <3>2. CASE key = "CAP"
      BY <1>1, <1>2, <1>3, <1>4, <3>2 DEF ChoicesKept
    <3> QED
      BY <1>2, <3>1, <3>2
  <2> QED
    BY <2>1, <2>2, <2>3 DEF ChoicesKept
<1>9. ASSUME NEW u \in Threads PROVE NewFile(u)' /\ Bridged(u)'
  <2>1. note[u] # "new" /\ phase[u] # "seed"
    BY <1>2 DEF UInv, NewFile
  <2>2. phase[u] = "carry" => note[u] = "none"
    <3>1. u = "boot" => phase[u] = "idle"
      BY <1>1, <1>2 DEF Roles
    <3> QED
      BY <3>1 DEF UInv, Bridged
  <2>3. OnlyOld' => OnlyOld /\ config'["DAILY"] = config["DAILY"]
    BY <1>2, <1>3, <1>4 DEF OnlyOld
  <2> QED
    BY <1>2, <2>1, <2>2, <2>3 DEF UInv, NewFile, Bridged
<1>10. ASSUME NEW u \in Managers PROVE PathKnown(u)' /\ PathWhole(u)'
  <2>1. /\ PathKnown(u) /\ PathWhole(u)
        /\ \A k : Known(k, schema', config') <=> Known(k, schema, config)
    BY <1>2, <1>3, <1>4 DEF UInv, Known
  <2> QED
    BY <1>2, <2>1 DEF PathKnown, PathWhole, Current
<1> QED
  BY <1>5, <1>6, <1>7, <1>8, <1>9, <1>10 DEF UInv

LEMMA StartMigrationKeeps == ASSUME UInv, StartMigration PROVE UInv'
<1>1. /\ UpgradeTypes /\ Roles /\ NewKeyIsTheOnly /\ ChoicesKept
  BY DEF UInv
<1>2. /\ drill = "migrate" /\ phase["cli"] = "idle" /\ NextPart("cli", 0)
      /\ UNCHANGED <<file, schema, config, seeded, note, whole, up, drill, edited>> /\ file
  BY DEF StartMigration, RunMigration
<1>3. "cli" \in Threads /\ "cli" \notin Managers /\ "cli" \notin Tasks
  BY ThreadsAssumption DEF Managers
<1>4. PICK q \in CliParts \cup {"idle"} : Goes("cli", q)
  BY <1>2, CliJumps
<1>5. /\ phase'["cli"] = q /\ at'["cli"] = 1
      /\ \A u \in Threads \ {"cli"} : phase'[u] = phase[u] /\ at'[u] = at[u]
  BY <1>1, <1>3, <1>4 DEF Goes, UpgradeTypes
<1>6. UpgradeTypes'
  <2>1. q \in Parts
    BY PartsAre DEF CliParts
  <2>2. phase' \in [Threads -> Parts] /\ at' \in [Threads -> Nat]
    BY <1>1, <1>4, <2>1 DEF UpgradeTypes, Goes
  <2>3. \A u \in Threads : phase'[u] \in Scripts => at'[u] \in 1 .. Len(Script(phase'[u]))
    <3> SUFFICES ASSUME NEW u \in Threads, phase'[u] \in Scripts
                 PROVE  at'[u] \in 1 .. Len(Script(phase'[u]))
      OBVIOUS
    <3>1. CASE u = "cli"
      BY <1>5, <3>1, ScriptsHaveStatements
    <3>2. CASE u # "cli"
      BY <1>1, <1>5, <3>2 DEF UpgradeTypes
    <3> QED
      BY <3>1, <3>2
  <2> QED
    BY <1>1, <1>2, <2>2, <2>3 DEF UpgradeTypes
<1>7. Roles'
  BY <1>1, <1>2, <1>3, <1>5, ThreadsAssumption DEF Roles
<1>8. NewKeyIsTheOnly' /\ ChoicesKept'
  BY <1>1, <1>2 DEF NewKeyIsTheOnly, ChoicesKept
<1>9. ASSUME NEW u \in Threads PROVE NewFile(u)' /\ Bridged(u)'
  <2>1. CASE u = "cli"
    <3>1. phase'[u] \notin {"carry", "drop", "seed"}
      BY <1>5, <2>1 DEF CliParts
    <3>2. note[u] # "new"
      BY <1>2, <2>1, <1>3 DEF UInv, NewFile
    <3> QED
      BY <1>2, <3>1, <3>2 DEF NewFile, Bridged
  <2>2. CASE u # "cli"
    BY <1>2, <1>5, <2>2 DEF UInv, NewFile, Bridged, OnlyOld
  <2> QED
    BY <2>1, <2>2
<1>10. ASSUME NEW u \in Managers PROVE PathKnown(u)' /\ PathWhole(u)'
  <2>1. phase'[u] = phase[u] /\ at'[u] = at[u] /\ whole'[u] = whole[u]
    BY <1>2, <1>5 DEF Managers
  <2>2. Current(u)' = Current(u)
    BY <2>1 DEF Current
  <2> QED
    BY <1>2, <2>1, <2>2 DEF UInv, PathKnown, PathWhole
<1> QED
  BY <1>6, <1>7, <1>8, <1>9, <1>10 DEF UInv

LEMMA ResetKeeps == ASSUME UInv, Reset \/ ResetDies PROVE UInv'
<1>1. "tool" \in Managers /\ UpgradeTypes
  BY ThreadsAssumption DEF Managers, UInv
<1>2. note["tool"] # "new"
  BY <1>1 DEF UInv, NewFile, Managers
<1>3. CASE Reset
  <2>1. CASE tool' = "off"
    <3>1. Leaves("tool") /\ UNCHANGED <<file, schema, config, seeded, at, note, up, drill, edited>>
      BY <1>3, <2>1 DEF Reset
    <3> QED
      BY <1>1, <1>2, <3>1, LeavesKeeps DEF Leaves, UpgradeTypes
  <2>2. CASE tool' # "off"
    <3>1. UNCHANGED <<phase, whole, file, schema, config, seeded, at, note, up, drill, edited>>
      BY <1>3, <2>2 DEF Reset
    <3> QED
      BY <3>1, StutterKeeps
  <2> QED
    BY <2>1, <2>2
<1>4. CASE ResetDies
  <2>1. /\ Leaves("tool") /\ UNCHANGED <<file, schema, config, seeded, up, drill, edited>>
        /\ at' = [at EXCEPT !["tool"] = 1] /\ note' = [note EXCEPT !["tool"] = "none"]
    BY <1>4 DEF ResetDies
  <2>2. /\ at' \in [Threads -> Nat] /\ note' \in [Threads -> {"none", "new", "missing", "chosen"}]
        /\ \A u \in Threads \ {"tool"} : at'[u] = at[u] /\ note'[u] = note[u]
        /\ note'["tool"] # "new"
    BY <1>1, <2>1 DEF UpgradeTypes, Managers
  <2>3. up' \in BOOLEAN /\ up' = up
    BY <1>1, <2>1 DEF UpgradeTypes
  <2> QED
    BY <1>1, <2>1, <2>2, <2>3, LeavesKeeps DEF Leaves
<1> QED
  BY <1>3, <1>4

LEMMA UInvKept == ASSUME UInv, [Next]_vars PROVE UInv'
<1>0. /\ "boot" \in Managers /\ "tool" \in Managers
      /\ \A t \in Tasks : t \in Managers /\ t \notin {"boot", "tool"}
  BY ThreadsAssumption DEF Managers
<1>1. CASE StartServer
  BY <1>0, <1>1, ConstructKeeps, ThreadsAssumption DEF StartServer
<1>2. CASE \E t \in Tasks : StartTask(t)
  <2>1. PICK t \in Tasks : StartTask(t)
    BY <1>2
  <2>2. up /\ file
    BY <2>1 DEF StartTask, UInv, Roles
  <2> QED
    BY <1>0, <2>1, <2>2, ConstructKeeps DEF StartTask
<1>3. CASE StartReset
  BY <1>0, <1>3, ConstructKeeps, ThreadsAssumption DEF StartReset
<1>4. CASE UNCHANGED vars
  BY <1>4, StutterKeeps DEF vars, schemaVars
<1> QED
  BY <1>1, <1>2, <1>3, <1>4, ServerUpKeeps, ServerDiesKeeps, ConstructorKeeps,
     EditPromptKeeps, EditConfigKeeps, StartMigrationKeeps, ResetKeeps DEF Next

\* The last version's schema has a settings table with its ticker, and so have the
\* earlier ones the program need not replace it in.
LEMMA VersionsAre ==
  /\ DOMAIN Versions = {"none", "plain", "traded", "malformed", "current"}
  /\ Versions["none"] = {}
  /\ \A v \in {"plain", "traded", "current"} : ~Malformed(Versions[v])
<1>1. /\ DOMAIN Versions = {"none", "plain", "traded", "malformed", "current"}
      /\ Versions["none"] = {} /\ Versions["current"] = CompleteSchema
  BY DEF Versions
<1>2. <<"settings", "ticker">> \in CompleteSchema
  <2>1. "create" \in Scripts /\ 1 \in 1 .. Len(Script("create"))
    BY CreateScript DEF Scripts
  <2>2. Script("create")[1].table = "settings" /\ Script("create")[1].columns = {"ticker"}
    BY CreateScript DEF Table
  <2>3. <<"settings", "ticker">> \in Pairs(Script("create")[1])
    BY <2>2 DEF Pairs
  <2> HIDE DEF Pairs
  <2> QED
    BY <2>1, <2>3 DEF CompleteSchema
<1>3. <<"settings", "ticker">> \in Versions["plain"]
  BY DEF Versions
<1>4. <<"settings", "ticker">> \in Versions["traded"]
  BY DEF Versions
<1> QED
  BY <1>1, <1>2, <1>3, <1>4 DEF Malformed

LEMMA UInvStarts == ASSUME Init PROVE UInv
<1>1. PICK v \in DOMAIN Versions :
        /\ schema = Versions[v]
        /\ file = (v # "none")
        /\ seeded = IF v = "none" THEN "none" ELSE "default"
        /\ drill \in CASE v = "current" -> {"upgrade", "reset"}
                       [] v \in {"plain", "traded"} -> {"upgrade", "migrate"}
                       [] OTHER -> {"upgrade"}
        /\ \/ config = [k \in Keys |-> "none"] /\ edited = {}
           \/ /\ v \notin {"none", "current"} /\ drill = "upgrade"
              /\ config = [k \in Keys |-> IF k = "OLD" THEN "chosen" ELSE "none"]
              /\ edited = {"OLD"}
  BY DEF Init
<1>2. v \in {"none", "plain", "traded", "malformed", "current"}
  BY VersionsAre
<1>3. /\ phase = [t \in Threads |-> "idle"] /\ at = [t \in Threads |-> 1]
      /\ note = [t \in Threads |-> "none"] /\ whole = [t \in Threads |-> FALSE] /\ up = FALSE
  BY DEF Init
<1>4. drill \in {"upgrade", "migrate", "reset"}
      /\ (drill # "upgrade" => v \in {"plain", "traded", "current"})
  BY <1>1, <1>2
<1>5. /\ config \in [Keys -> {"none", "default", "percent", "chosen", "edited"}]
      /\ config["OLD"] \in {"none", "chosen"}
      /\ config["OLD"] = "chosen" => drill = "upgrade" /\ v # "none"
      /\ edited \subseteq {"OLD"}
      /\ "OLD" \in edited => config["OLD"] = "chosen"
      /\ v = "none" => edited = {}
  BY <1>1, KeysAre
<1>6. "idle" \in Parts /\ "idle" \notin Scripts /\ Place("idle") = 0
  BY PartsAre, PlacesOfParts DEF Scripts, Looking
<1>7. UpgradeTypes
  <2>1. /\ phase \in [Threads -> Parts] /\ at \in [Threads -> Nat]
        /\ note \in [Threads -> {"none", "new", "missing", "chosen"}]
        /\ whole \in [Threads -> BOOLEAN]
    BY <1>3, <1>6
  <2>2. seeded \in {"none", "default", "edited"} /\ file \in BOOLEAN /\ up \in BOOLEAN
    BY <1>1, <1>3
  <2>3. edited \subseteq {"prompts"} \cup Keys
    BY <1>5, KeysAre
  <2>4. \A t \in Threads : phase[t] \in Scripts => at[t] \in 1 .. Len(Script(phase[t]))
    BY <1>3, <1>6
  <2> QED
    BY <1>4, <1>5, <2>1, <2>2, <2>3, <2>4 DEF UpgradeTypes
<1>8. Roles
  <2>1. drill # "upgrade" => config["OLD"] = "none" /\ ~Malformed(schema)
    BY <1>1, <1>4, <1>5, VersionsAre
  <2>2. ~file => schema = {} /\ edited = {} /\ config["OLD"] = "none"
    BY <1>1, <1>5, VersionsAre
  <2> QED
    BY <1>3, <2>1, <2>2, ThreadsAssumption DEF Roles
<1>9. NewKeyIsTheOnly /\ ChoicesKept
  BY <1>5 DEF NewKeyIsTheOnly, ChoicesKept
<1>10. \A t \in Threads : NewFile(t) /\ Bridged(t)
  BY <1>3 DEF NewFile, Bridged
<1>11. \A t \in Managers : PathKnown(t) /\ PathWhole(t)
  BY <1>3, <1>6 DEF PathKnown, PathWhole, Managers
<1> QED
  BY <1>7, <1>8, <1>9, <1>10, <1>11 DEF UInv

-----------------------------------------------------------------------------
(* What the invariant of the upgrade gives.                                *)

\* A file in which every statement has left what it is for is complete.
LEMMA LeftIsComplete ==
  ASSUME \A p \in Scripts : ScriptLeft(p, schema), ~Malformed(schema)
  PROVE  Complete
<1> DEFINE tables == FirstTables \cup {"forecast_run_links", "bybit_order_transactions",
                                       "perp_market_snapshots"}
<1>0. /\ "create" \in Scripts /\ "ensure" \in Scripts /\ "columns" \in Scripts
      /\ "bybit" \in Scripts /\ "meta" \in Scripts /\ "heartbeat" \in Scripts
  BY DEF Scripts, Looking
<1>1. FirstTablesThere
  BY <1>0, FirstTablesMade
<1>2. \A t, cs : Left(Table(t, cs), schema) => <<t, "id">> \in schema
  BY DEF Left, Table
<1>3. \A t, c : Left(Column(t, c), schema) /\ <<t, "id">> \in schema => <<t, c>> \in schema
  BY DEF Left, Column, Pairs
<1>4. <<"forecast_run_links", "id">> \in schema
  <2>1. Left(Script("ensure")[4], schema)
    BY <1>0, EnsureScript DEF ScriptLeft
  <2> QED
    BY <1>2, <2>1, EnsureScript
<1>5. <<"bybit_order_transactions", "id">> \in schema
  <2>1. Left(Script("bybit")[1], schema)
    BY <1>0, ScriptsHaveStatements DEF ScriptLeft
  <2> QED
    BY <1>2, <2>1, ShortScripts
<1>6. <<"perp_market_snapshots", "id">> \in schema
  <2>1. Left(Script("meta")[1], schema)
    BY <1>0, ScriptsHaveStatements DEF ScriptLeft
  <2> QED
    BY <1>2, <2>1, ShortScripts
<1>7. /\ <<"orders", "trade_uid">> \in schema /\ <<"trades", "trade_uid">> \in schema
      /\ <<"portfolio_history", "row_type">> \in schema
      /\ <<"forecast_run_links", "r_multiple">> \in schema
  <2>1. /\ Left(Script("columns")[2], schema) /\ Left(Script("columns")[3], schema)
        /\ Left(Script("columns")[4], schema) /\ Left(Script("columns")[5], schema)
    BY <1>0, ColumnsScript DEF ScriptLeft
  <2>2. /\ <<"orders", "id">> \in schema /\ <<"trades", "id">> \in schema
        /\ <<"portfolio_history", "id">> \in schema
    BY <1>1 DEF FirstTablesThere, FirstTables
  <2> QED
    BY <1>3, <1>4, <2>1, <2>2, ColumnsScript
<1>8. <<"heartbeat_log", "bybit_ok">> \in schema
  <2>1. Left(Script("heartbeat")[1], schema)
    BY <1>0, ScriptsHaveStatements DEF ScriptLeft
  <2>2. <<"heartbeat_log", "id">> \in schema
    BY <1>1 DEF FirstTablesThere, FirstTables
  <2> QED
    BY <1>3, <2>1, <2>2, ShortScripts
<1>9. <<"settings", "ticker">> \in schema
  BY <1>1 DEF FirstTablesThere, FirstTables, Malformed
<1>10. \A t \in FirstTables \cup {"forecast_run_links"} :
         <<t, "id">> \in schema /\ \A c \in MadeWith(t) : <<t, c>> \in schema
  BY <1>1, <1>4, <1>7, <1>8, <1>9, MadeWithIs DEF FirstTablesThere, FirstTables
<1>11. ASSUME NEW p \in Scripts, NEW i \in 1 .. Len(Script(p))
       PROVE  Pairs(Script(p)[i]) \cup {<<Script(p)[i].table, "id">>} \subseteq schema
  <2> DEFINE s == Script(p)[i]
  <2>1. Left(s, schema)
    BY <1>11 DEF ScriptLeft
  <2>2. CASE MakesTable(s)
    <3>1. s.table \in FirstTables \cup {"forecast_run_links"} \/ MadeWith(s.table) = {}
      BY DEF MadeWith, FirstTables
    <3>2. <<s.table, "id">> \in schema
      BY <2>1, <2>2 DEF Left, MakesTable
    <3>3. \A c \in MadeWith(s.table) : <<s.table, c>> \in schema
      BY <1>10, <3>1
    <3> QED
      BY <2>2, <3>2, <3>3 DEF MakesTable, Pairs
  <2>3. CASE MakesIndex(s)
    <3>1. s.table \in FirstTables /\ s.columns = MadeWith(s.table)
      BY <2>3 DEF MakesIndex, FirstTables
    <3> QED
      BY <1>10, <3>1 DEF Pairs
  <2>4. CASE AddsColumn(s)
    <3>1. s.table \in FirstTables \cup {"forecast_run_links"} /\ s.kind = "column"
      BY <2>4 DEF AddsColumn, Column
    <3>2. <<s.table, "id">> \in schema
      BY <1>10, <3>1
    <3> QED
      BY <2>1, <3>1, <3>2 DEF Left
  <2>5. MakesTable(s) \/ MakesIndex(s) \/ AddsColumn(s)
    BY Statements DEF Scripts
  <2> QED
    BY <2>2, <2>3, <2>4, <2>5
<1> QED
  BY <1>11 DEF Complete, CompleteSchema

LEMMA WholeIsComplete == ASSUME UInv PROVE ManagerHasSchema
<1> SUFFICES ASSUME NEW t \in Threads, phase[t] = "using", whole[t] PROVE Complete
  BY DEF ManagerHasSchema
<1>1. t \in Managers
  BY ThreadsAssumption DEF UInv, Roles, Managers
<1>2. Place("using") = 17
  BY PlacesOfParts
<1>3. Place(phase[t]) >= 1 => Known(Place(phase[t]) - 1, schema, config)
  BY <1>1 DEF UInv, PathKnown
<1>4. ~Malformed(schema)
  BY <1>2, <1>3 DEF Known
<1>5. WholeTo(16, schema)
  <2>1. Place(phase[t]) >= 1 => WholeTo(Place(phase[t]) - 1, schema)
    BY <1>1 DEF UInv, PathWhole
  <2> QED
    BY <1>2, <2>1
<1>6. ASSUME NEW p \in Scripts PROVE ScriptLeft(p, schema)
  <2>1. CASE p = "create"
    BY <1>5, <2>1 DEF WholeTo
  <2>2. CASE p # "create"
    <3>1. p \in MigrationParts
      BY <2>2, PartsAre DEF Scripts, Looking
    <3>2. Place(p) \in 1 .. 16 /\ MigrationOrder[Place(p)] = p
      BY <3>1, PlacesOfParts
    <3> QED
      BY <1>5, <3>2 DEF WholeTo
  <2> QED
    BY <2>1, <2>2
<1> QED
  BY <1>4, <1>6, LeftIsComplete

LEMMA EnsureNeverFails == ASSUME UInv PROVE NoStartRaises
<1> SUFFICES ASSUME NEW t \in Threads, phase[t] = "ensure" PROVE ~Fails(Current(t), schema)
  BY DEF NoStartRaises
<1>1. t \in Managers
  BY DEF UInv, Roles, Managers, CliParts
<1>2. MakesTable(Current(t))
  BY <1>1 DEF UInv, PathKnown
<1> QED
  BY <1>2 DEF MakesTable, Fails

LEMMA UInvHolds == Spec => []UInv
<1>1. Init => UInv
  BY UInvStarts
<1>2. UInv /\ [Next]_vars => UInv'
  BY UInvKept
<1> QED
  BY <1>1, <1>2, PTL DEF Spec

\* On whatever file of an earlier version, with any number of tasks that build
\* their managers side by side, and wherever the server is killed: nothing the
\* operator chose is lost, a manager that met no error has the whole schema, and
\* the script nobody guards never fails.
THEOREM UpgradesAreSound == Spec => []UpgradeIsSound
<1>1. ResetInv /\ UInv => UpgradeIsSound
  <2> SUFFICES ASSUME ResetInv, UInv PROVE UpgradeIsSound
    OBVIOUS
  <2>1. TypeOK
    BY DEF TypeOK, ResetInv, UInv, UpgradeTypes
  <2> QED
    BY <2>1, WholeIsComplete, EnsureNeverFails DEF UpgradeIsSound, UInv
<1> QED
  BY <1>1, ResetInvHolds, UInvHolds, PTL
=============================================================================
