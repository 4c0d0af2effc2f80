---------------------------- MODULE PriceHistory ----------------------------
(***************************************************************************)
(* The daily bars of one ticker and the forecasts made from them: the      *)
(* table price_data, the three tasks of the server that read it, fetch     *)
(* bars when the last one is old and store what they got                   *)
(* (core/bybit_data_loader.py, core/scheduler.py, core/pipeline/stages.py) *)
(* and the staleness test of the forecast (core/sqlite_manager.py).  The   *)
(* tasks run in threads of their own: a read, its store and the test are   *)
(* separate steps.                                                         *)
(*                                                                         *)
(* Time is counted in days.  Of a bar only the day it was fetched on is    *)
(* kept: fetched on its own day it shows the early hours of that day.  The *)
(* clock of the server and the days of the exchange agree; day 0 is the    *)
(* listing of the ticker.                                                  *)
(***************************************************************************)
EXTENDS MarketReadings, FiniteSetsExt

CONSTANTS
    Start, MaxNow,  \* bounds: the first and the last day
    MaxFailures,    \* bound: requests to the exchange and stores that fail
    Long,           \* days a forecast asks for (250)
    Short,          \* days the update task asks for (30)
    Least, Margin,  \* the backfill asks for Margin days more than are missing (5), at least Least (10)
    Casts,          \* the tasks of a behaviour, one set per behaviour
    Robots,         \* threads of the robot, which may update prices as well
    StaleDays,      \* PRICE_STALENESS_DAILY_DAYS
    Markets         \* price paths: day -> [whole, early], its bar and that of its early hours

ASSUME HistoryAssumption ==
    /\ {Long, Short, Least, Margin, StaleDays} \subseteq Nat \ {0}
    /\ {Start, MaxNow, MaxFailures} \subseteq Nat
    /\ Short =< Long
    /\ Start =< MaxNow

\* A price is positive; volumes may be zero.
Bar == [open : Nat \ {0}, high : Nat \ {0}, low : Nat \ {0}, close : Nat \ {0}, volume : Nat]

ASSUME MarketsAssumption ==
    \A m \in Markets : \A d \in 0..MaxNow : m[d].whole \in Bar /\ m[d].early \in Bar

VARIABLES
    cast,      \* the tasks of this behaviour
    now,       \* the running day
    up,        \* the server runs
    due,       \* the backfill of this start has still to run
    active,    \* the ticker is active in the settings
    table,     \* day -> [seen, late] of its stored bar: fetched at seen, late when the
               \* task that stored it had read before another one stored
    held,      \* task -> the bars it has read, a function day -> seen
    stage,     \* task -> "idle", "read" or "stored"
    behind,    \* the tasks whose bars were read before another task stored
    view,      \* what a forecast made in the last step was made from: [bars, at, behind]
    failures   \* failures so far

historyVars == <<cast, now, up, due, active, table, held, stage, behind, view, failures>>

Tasks == {"update", "backfill", "forecast"} \cup Robots
NoView == [bars |-> <<>>, at |-> 0, behind |-> FALSE]
Stored == DOMAIN table
Newest(days, n) == {d \in days : Cardinality({e \in days : e > d}) < n}
Seen(bars, days) == [d \in days |-> bars[d].seen]

HistoryInit ==
    /\ cast \in Casts
    /\ now = Start
    /\ up = FALSE
    /\ due = FALSE
    /\ active = TRUE
    /\ table = <<>>
    /\ held = [w \in Tasks |-> <<>>]
    /\ stage = [w \in Tasks |-> "idle"]
    /\ behind = {}
    /\ view = NoView
    /\ failures = 0

-----------------------------------------------------------------------------

\* _is_cache_fresh with max_age_days = 1.
\* Mutant: any cached bar will do.
CachedAtAll(days) == days # {}

CacheFresh(days) == days # {} /\ now - Max(days) <= 1

\* get_klines from now - days to now.
Fetched(days) == [d \in {e \in 0..now : e > now - days} |-> now]

\* fetch_price_data_bybit: a cache that cannot be read counts as an empty one,
\* and what was fetched is not put into the cache here, the methods
\* _save_to_cache asks for do not exist.
Read(w, days) ==
    LET cached == Newest(Stored, days)
    IN  \/ /\ CacheFresh(cached)
           /\ held' = [held EXCEPT ![w] = Seen(table, cached)]
           /\ stage' = [stage EXCEPT ![w] = "read"]
           /\ UNCHANGED failures
        \/ /\ ~CacheFresh(cached)
           /\ held' = [held EXCEPT ![w] = Fetched(days)]
           /\ stage' = [stage EXCEPT ![w] = "read"]
           /\ UNCHANGED failures
        \/ /\ CacheFresh(cached)          \* it cannot be read
           /\ failures < MaxFailures
           /\ held' = [held EXCEPT ![w] = Fetched(days)]
           /\ stage' = [stage EXCEPT ![w] = "read"]
           /\ failures' = failures + 1
        \/ /\ ~CacheFresh(cached)         \* no bars: the task leaves the ticker, the forecast fails
           /\ failures < MaxFailures
           /\ failures' = failures + 1
           /\ UNCHANGED <<held, stage>>

UpdateReads ==
    /\ "update" \in cast /\ up /\ active /\ stage["update"] = "idle"
    /\ Read("update", Short)
    /\ view' = NoView
    /\ UNCHANGED <<cast, now, up, due, active, table, behind>>

\* A forecast of one ticker can be asked for whether it is active or not.
ForecastReads ==
    /\ "forecast" \in cast /\ up /\ stage["forecast"] = "idle"
    /\ Read("forecast", Long)
    /\ view' = NoView
    /\ UNCHANGED <<cast, now, up, due, active, table, behind>>

\* The days the backfill asks for; none when the bar of today is stored.
\* Mutant: no more than the least number is asked for.
DaysToFetchLeast ==
    IF Stored = {} THEN Long
    ELSE IF now = Max(Stored) THEN 0 ELSE Least

DaysToFetch ==
    LET missing == now - Max(Stored)
    IN  IF Stored = {} THEN Long
        ELSE IF missing = 0 THEN 0 ELSE Max({missing + Margin, Least})

BackfillReads ==
    /\ "backfill" \in cast /\ up /\ due /\ stage["backfill"] = "idle"
    /\ due' = FALSE
    /\ IF active /\ DaysToFetch > 0
       THEN Read("backfill", DaysToFetch)
       ELSE UNCHANGED <<held, stage, failures>>
    /\ view' = NoView
    /\ UNCHANGED <<cast, now, up, active, table, behind>>

\* save_price_data: INSERT OR REPLACE of every bar held.
Replaced(w) ==
    [d \in Stored \cup DOMAIN held[w] |->
        IF d \in DOMAIN held[w] /\ ~(d \in Stored /\ table[d].seen = held[w][d])
        THEN [seen |-> held[w][d], late |-> w \in behind]
        ELSE table[d]]

\* The forecast keeps its bars for the next stages.
Store(w) ==
    /\ stage[w] = "read"
    /\ \/ /\ table' = Replaced(w)
          /\ behind' = (behind \cup {v \in Tasks \ {w} : stage[v] # "idle"})
                       \ (IF w = "forecast" THEN {} ELSE {w})
          /\ UNCHANGED failures
       \/ /\ failures < MaxFailures       \* False is returned and not looked at
          /\ failures' = failures + 1
          /\ behind' = IF w = "forecast" THEN behind ELSE behind \ {w}
          /\ UNCHANGED table
    /\ stage' = [stage EXCEPT ![w] = IF w = "forecast" THEN "stored" ELSE "idle"]
    /\ held' = [held EXCEPT ![w] = IF w = "forecast" THEN @ ELSE <<>>]
    /\ view' = NoView
    /\ UNCHANGED <<cast, now, up, due, active>>

\* check_price_data_staleness looks at the table.
\* Mutant: the bar of the last permitted day and the one before pass.
StaleOneLater == Stored = {} \/ now - Max(Stored) > StaleDays + 1

Stale == Stored = {} \/ now - Max(Stored) > StaleDays

Forecast ==
    /\ stage["forecast"] = "stored"
    /\ view' = IF Stale THEN NoView
               ELSE [bars |-> held["forecast"], at |-> now, behind |-> "forecast" \in behind]
    /\ stage' = [stage EXCEPT !["forecast"] = "idle"]
    /\ held' = [held EXCEPT !["forecast"] = <<>>]
    /\ behind' = behind \ {"forecast"}
    /\ UNCHANGED <<cast, now, up, due, active, table, failures>>

-----------------------------------------------------------------------------

StartServer ==
    /\ ~up
    /\ up' = TRUE
    /\ due' = TRUE
    /\ view' = NoView
    /\ UNCHANGED <<cast, now, active, table, held, stage, behind, failures>>

\* The threads end with the process.
StopServer ==
    /\ up
    /\ up' = FALSE
    /\ due' = FALSE
    /\ held' = [w \in Tasks |-> <<>>]
    /\ stage' = [w \in Tasks |-> "idle"]
    /\ behind' = {}
    /\ view' = NoView
    /\ UNCHANGED <<cast, now, active, table, failures>>

SwitchTicker ==
    /\ active' = ~active
    /\ view' = NoView
    /\ UNCHANGED <<cast, now, up, due, table, held, stage, behind, failures>>

Tick ==
    /\ now < MaxNow
    /\ now' = now + 1
    /\ view' = NoView
    /\ UNCHANGED <<cast, up, due, active, table, held, stage, behind, failures>>

TaskStep ==
    \/ UpdateReads
    \/ ForecastReads
    \/ BackfillReads
    \/ \E w \in Tasks \ Robots : Store(w)
    \/ Forecast
    \/ SwitchTicker
    \/ Tick

HistoryNext == TaskStep \/ StartServer \/ StopServer

\* The scheduler starts the update again and again, and threads go on.
HistoryFairness ==
    /\ WF_historyVars(UpdateReads)
    /\ WF_historyVars(Store("update"))

HistorySpec == HistoryInit /\ [][HistoryNext]_historyVars /\ HistoryFairness

-----------------------------------------------------------------------------

\* The bars as the market m showed them when they were fetched.
BarOf(m, d, seen) == IF seen > d THEN m[d].whole ELSE m[d].early

Bars(m, bars) ==
    LET nth(i) == CHOOSE d \in DOMAIN bars : Cardinality({e \in DOMAIN bars : e < d}) = i - 1
    IN  [i \in 1..Cardinality(DOMAIN bars) |-> BarOf(m, nth(i), bars[nth(i)])]

Complete(d) == table[d].seen > d

HistoryTypeOK ==
    /\ now \in Start..MaxNow
    /\ up \in BOOLEAN /\ due \in BOOLEAN /\ active \in BOOLEAN
    /\ Stored \subseteq 0..now
    /\ \A d \in Stored : table[d].seen \in 0..now /\ table[d].seen >= d /\ table[d].late \in BOOLEAN
    /\ \A w \in Tasks : (stage[w] = "idle") = (held[w] = <<>>)
    /\ behind \subseteq {w \in Tasks : stage[w] # "idle"}
    /\ failures \in 0..MaxFailures

\* A forecast is made from bars of which the last is of the day before at the
\* earliest, unless another task stored newer ones after they were read: the
\* test looks at the table and not at the bars in hand
\* (pipeline/stages.py:16-30).
ViewIsRecent ==
    view # NoView => view.at - Max(DOMAIN view.bars) <= StaleDays \/ view.behind

\* A day before the last stored one has no bar, or the bar of an unfinished
\* day, only when the later ones were fetched Short days after it - nobody
\* updated the ticker for so long and no later run looks back - or when a task
\* that had read before another one stored put its older bar back.
GapOnlyAfterPause ==
    Stored # {} =>
        \A d \in Min(Stored)..Max(Stored) - 1 :
            \/ d \in Stored /\ (Complete(d) \/ table[d].late)
            \/ \A e \in Stored : e > d => table[e].seen >= d + Short

\* The table of prices and the forecasts made from it: well typed, as recent
\* and as complete as three tasks that do not wait for each other can leave it.
HistoryIsSound == HistoryTypeOK /\ ViewIsRecent /\ GapOnlyAfterPause

\* The market upside down.
Mirrored(bars) ==
    [i \in DOMAIN bars |->
        [open |-> -bars[i].open, high |-> -bars[i].low, low |-> -bars[i].high,
         close |-> -bars[i].close, volume |-> bars[i].volume]]

Opposite(claim) ==
    CASE claim = "up" -> "down"           [] claim = "down" -> "up"
      [] claim = "above" -> "below"       [] claim = "below" -> "above"
      [] claim = "bullish" -> "bearish"   [] claim = "bearish" -> "bullish"
      [] claim = "overbought" -> "oversold" [] claim = "oversold" -> "overbought"
      [] claim = "STRONG_UPTREND" -> "STRONG_DOWNTREND"
      [] claim = "STRONG_DOWNTREND" -> "STRONG_UPTREND"
      [] claim = "bullish below the average" -> "bearish above the average"
      [] claim = "bearish above the average" -> "bullish below the average"
      [] OTHER -> claim

\* No volume is told as distribution, no movement as overbought.
Tied(bars, claim) ==
    \/ claim = "volume" /\ Volume(bars) = 0
    \/ claim = "rsi" /\ Rsi(bars) = <<1, 1>> /\ Rsi(Mirrored(bars)) = <<1, 1>>

\* With bars enough for the slowest average every method asked about a market
\* is asked about the market upside down too and its prompt makes the opposite
\* of each statement, but for the ties; volume_breakout alone is asked about a
\* strong uptrend and not about a strong downtrend (market_regime.py:11-18).
\* With fewer bars the statements lean: the slowest average is zero, so the
\* averages are never said to fall and a downtrend is never called strong
\* (indicators.py:10-14, market_regime.py:132-139).  The fixed rules of the
\* templates, some of which favour LONG (sqlite_manager.py:581, :654), are text
\* and no statement about the market.
ClaimsHaveNoBias ==
    view # NoView =>
        \A m \in Markets :
            LET bars == Bars(m, view.bars)
                here == Claims(bars)
                there == Claims(Mirrored(bars))
                called == Methods(here.regime)
                other == Methods(there.regime)
            IN  IF Len(bars) >= Slow
                THEN /\ \A method \in called \cap other : \A c \in Shown(method) :
                            Tied(bars, c) \/ Prompt(there, method)[c] = Opposite(Prompt(here, method)[c])
                     /\ called \ other = (IF here.regime = "STRONG_UPTREND" THEN {"volume_breakout"} ELSE {})
                     /\ other \ called = (IF here.regime = "STRONG_DOWNTREND" THEN {"volume_breakout"} ELSE {})
                ELSE here.structure # "bearish" /\ here.regime # "STRONG_DOWNTREND"

\* While the server runs and the ticker is active, the table gets the bar of
\* the day or of the day before, however often the two change, as long as
\* requests and stores do not fail for ever (scheduler.py:431-481).
TableCatchesUp ==
    ("update" \in cast /\ up /\ active) ~> (up /\ active => Stored # {} /\ now - Max(Stored) <= 1)
=============================================================================
