----------------------------- MODULE Evaluation -----------------------------
(***************************************************************************)
(* What became of the signals: the price tables and the tasks that fill    *)
(* them (core/bybit_data_loader.py, core/scheduler.py), the consensus rows *)
(* that wait for their evaluation date and the evaluators that judge them  *)
(* (core/consensus_evaluator.py), started by the scheduler, the robot and  *)
(* an endpoint without excluding each other, and the forecasts of the logs *)
(* (core/forecast_runner.py, core/actuals_evaluator.py).                   *)
(*                                                                         *)
(* Time is counted in periods, PerDay of them to a day: a period is one    *)
(* bar of the hourly table, the bar of a day joins those of its periods.   *)
(* The bar of the running period shows its opening price only.  The clock  *)
(* of the server and the days of the exchange agree.                       *)
(***************************************************************************)
EXTENDS EvaluationRules, FiniteSetsExt

CONSTANTS
    PerDay,       \* periods in a day
    MaxNow,       \* bound: the last period
    Markets,      \* the price paths: sets of functions 0..MaxNow -> bar
    Rows,         \* consensus rows
    RowOf(_),     \* [side, entry, target, stop, made, horizon] of a row
    Watched,      \* the sets of rows and logs whose ticker is active, one per behaviour
    Logs,         \* forecasts in the logs
    LogOf(_),     \* [side, entry, target, stop, made, horizon] of a log
    Evaluators,   \* threads that run evaluate_consensus_records
    Edge          \* round-trip costs plus minimum edge, hundredths of a percent

ASSUME PerDayAssumption == PerDay \in Nat \ {0} /\ MaxNow \in Nat
ASSUME EdgeAssumption == Edge \in Nat \ {0}

\* Prices are positive, and a bar spans its opening and its close.
ASSUME MarketsAssumption ==
    \A m \in Markets : \A p \in 0..MaxNow :
        /\ {m[p].open, m[p].high, m[p].low, m[p].close} \subseteq Nat \ {0}
        /\ m[p].low <= m[p].open /\ m[p].open <= m[p].high
        /\ m[p].low <= m[p].close /\ m[p].close <= m[p].high

\* A level that is missing is 0.
ASSUME SignalsAssumption ==
    \A s \in {RowOf(r) : r \in Rows} \cup {LogOf(l) : l \in Logs} :
        {s.entry, s.target, s.stop, s.made} \subseteq Nat /\ s.horizon \in Nat \ {0}

VARIABLES
    market,       \* the path of this behaviour
    active,       \* the rows and logs whose ticker is active in the settings
    now,          \* the running period
    daily,        \* table price_data: when the bar of a day was fetched
    hourly,       \* table price_data_intraday: when it was fetched, all bars at once
    rows,         \* [status, entry, used, seen] per consensus row: used are the
                  \* periods of the bars it was judged on, as fetched at time seen
    logs,         \* [status, day, seen] per log: the bar it was judged on
    todo,         \* rows an evaluator has still to judge
    judged        \* what an evaluator is about to save: a record or NoVerdict

vars == <<market, active, now, daily, hourly, rows, logs, todo, judged>>

Never == -1
NoVerdict == [row |-> "none"]
Day(t) == t \div PerDay
Days == 0..Day(MaxNow)
Periods(d) == {p \in 0..MaxNow : Day(p) = d}

\* The bar of period p as the exchange shows it at time t.
PeriodBar(p, t) ==
    LET b == market[p]
    IN  IF p < t THEN b
        ELSE [open |-> b.open, high |-> b.open, low |-> b.open, close |-> b.open]

\* Bars of a set of periods joined into one.
Joined(periods, t) ==
    [open  |-> PeriodBar(Min(periods), t).open,
     high  |-> Max({PeriodBar(p, t).high : p \in periods}),
     low   |-> Min({PeriodBar(p, t).low : p \in periods}),
     close |-> PeriodBar(Max(periods), t).close]

DayBar(d, t) == Joined({p \in Periods(d) : p <= t}, t)

\* save_consensus: the evaluation date is on the next day at the earliest.
Target(r) ==
    LET s == RowOf(r)
    IN  IF Day(s.made + s.horizon) > Day(s.made) THEN s.made + s.horizon ELSE s.made + PerDay

Init ==
    /\ market \in Markets
    /\ active \in Watched
    /\ now = 0
    /\ daily = [d \in Days |-> Never]
    /\ hourly = Never
    /\ rows = [r \in Rows |-> [status |-> "PENDING", entry |-> 0, used |-> {}, seen |-> Never]]
    /\ logs = [l \in Logs |-> [status |-> "NEW", day |-> Never, seen |-> Never]]
    /\ todo = [e \in Evaluators |-> {}]
    /\ judged = [e \in Evaluators |-> NoVerdict]

Tick ==
    /\ now < MaxNow
    /\ now' = now + 1
    /\ UNCHANGED <<market, active, daily, hourly, rows, logs, todo, judged>>

-----------------------------------------------------------------------------
(* Market data *)

Stored == {d \in Days : daily[d] # Never}

\* _is_cache_fresh: the last stored day is today or yesterday.
CacheFresh == \E d \in Stored : Day(now) - d <= 1

\* Mutant: a bar that is stored is not written again.
PriceDataUpdateOnce ==
    /\ ~CacheFresh
    /\ daily' = [d \in Days |-> IF d <= Day(now) /\ daily[d] = Never THEN now ELSE daily[d]]
    /\ UNCHANGED <<market, active, now, hourly, rows, logs, todo, judged>>

\* The price data task, the backfill at startup and the first stage of the
\* pipeline: while the cache is fresh its bars are saved once more, which
\* changes nothing; otherwise the bars of every day are fetched and replaced.
PriceDataUpdate ==
    /\ ~CacheFresh
    /\ daily' = [d \in Days |-> IF d <= Day(now) THEN now ELSE daily[d]]
    /\ UNCHANGED <<market, active, now, hourly, rows, logs, todo, judged>>

\* The intraday task always fetches, and the bars of all the last days, for
\* the active tickers (the table is that of the rows; logs do not read it).
IntradayUpdate ==
    /\ Rows \cap active # {}
    /\ hourly' = now
    /\ UNCHANGED <<market, active, now, daily, rows, logs, todo, judged>>

-----------------------------------------------------------------------------
(* Consensus rows *)

Due == {r \in Rows \cap active : rows[r].status \in {"PENDING", "NO_DATA"} /\ Target(r) <= now}

\* fetch_pending_for_evaluation.
Begin(e) ==
    /\ todo[e] = {} /\ Due # {}
    /\ todo' = [todo EXCEPT ![e] = Due]
    /\ UNCHANGED <<market, active, now, daily, hourly, rows, logs, judged>>

\* What _save_eval is given: the status and, for a verdict, the entry and the
\* bars; hit, gain, label and excursions follow from them (OutcomeOf).
Without(r, status) == [row |-> r, status |-> status, entry |-> 0, used |-> {}, seen |-> Never]
Verdict(r, entry, used, seen) ==
    [row |-> r, status |-> "EVALUATED", entry |-> entry, used |-> used, seen |-> seen]

\* The hourly bars that begin after the consensus and not after its target.
HourlyWindow(r) ==
    {p \in 0..hourly : p > RowOf(r).made /\ p <= Target(r)}

\* _evaluate_one_intraday.
JudgeIntraday(r) ==
    LET s == RowOf(r)
        window == HourlyWindow(r)
    IN  IF window = {} THEN Without(r, "NO_DATA")
        ELSE Verdict(r, IF Level(s.entry) THEN s.entry ELSE PeriodBar(Min(window), hourly).close,
                     window, hourly)

\* The daily bars an evaluator may see, each view a function day -> time of the
\* fetch: those of the table from the day of the consensus on or, where there
\* is none, the cache if it is fresh, and else what the exchange answers.
Views(r) ==
    LET table == {d \in Stored : d >= Day(RowOf(r).made)}
        cache == [d \in Stored |-> daily[d]]
        answer == [d \in 0..Day(now) |-> now]
    IN  IF table # {} THEN {[d \in table |-> daily[d]]}
        ELSE IF CacheFresh THEN {cache} ELSE {answer, <<>>}

\* The day whose bar is used: the target's, the nearest after it, or else the
\* last before it; Never without bars.
BarDay(r, view) ==
    LET later   == {d \in DOMAIN view : d >= Day(Target(r))}
        earlier == {d \in DOMAIN view : d < Day(Target(r))}
    IN  IF later # {} THEN Min(later) ELSE IF earlier # {} THEN Max(earlier) ELSE Never

\* The entry: the limit price, the close of the consensus day, the last close
\* before the target, or the close that is judged.
EntryPrice(r, view, bar) ==
    LET s == RowOf(r)
        before == {d \in DOMAIN view : d < Day(Target(r))}
        Close(d) == DayBar(d, view[d]).close
    IN  IF Level(s.entry) THEN s.entry
        ELSE IF Day(s.made) \in DOMAIN view THEN Close(Day(s.made))
        ELSE IF before # {} THEN Close(Max(before)) ELSE bar.close

DailyVerdict(r, view, d) ==
    Verdict(r, EntryPrice(r, view, DayBar(d, view[d])), {p \in Periods(d) : p <= view[d]}, view[d])

\* Mutant: the bar may be that of the consensus day.
JudgeDailySameDay(r, view, d) ==
    IF d = Never THEN Without(r, "NO_DATA") ELSE DailyVerdict(r, view, d)

\* _evaluate_one for a horizon of a day or more, d being the day of the bar.
JudgeDaily(r, view, d) ==
    IF d = Never THEN Without(r, "NO_DATA")
    ELSE IF d <= Day(RowOf(r).made) THEN Without(r, "PENDING")
    ELSE DailyVerdict(r, view, d)

\* The next row of the list, oldest target first, is read and judged.
Judge(e) ==
    /\ todo[e] # {} /\ judged[e] = NoVerdict
    /\ \E r \in todo[e] :
          /\ \A q \in todo[e] : Target(r) <= Target(q)
          /\ \/ /\ RowOf(r).horizon < PerDay
                /\ judged' = [judged EXCEPT ![e] = JudgeIntraday(r)]
             \/ /\ RowOf(r).horizon >= PerDay
                /\ \E view \in Views(r) : \E d \in {BarDay(r, view)} :
                      judged' = [judged EXCEPT ![e] = JudgeDaily(r, view, d)]
    /\ UNCHANGED <<market, active, now, daily, hourly, rows, logs, todo>>

\* Mutant: what the evaluator found is saved only where it found something.
SaveEvaluated(e) ==
    /\ judged[e] # NoVerdict /\ judged[e].status = "EVALUATED"
    /\ rows' = [rows EXCEPT ![judged[e].row] =
                   [status |-> "EVALUATED", entry |-> judged[e].entry,
                    used |-> judged[e].used, seen |-> judged[e].seen]]
    /\ todo' = [todo EXCEPT ![e] = @ \ {judged[e].row}]
    /\ judged' = [judged EXCEPT ![e] = NoVerdict]
    /\ UNCHANGED <<market, active, now, daily, hourly, logs>>

\* Mutant: a row that was saved stays on the list while it is judged again.
SaveTwice(e) ==
    /\ judged[e] # NoVerdict
    /\ rows' = [rows EXCEPT ![judged[e].row].status = judged[e].status]
    /\ todo' = [todo EXCEPT ![e] = @ \ {judged[e].row}]
    /\ UNCHANGED <<market, active, now, daily, hourly, logs, judged>>

\* _save_eval: by id, whatever another evaluator has written meanwhile; a
\* status without an outcome leaves the other columns as they are.
Save(e) ==
    /\ judged[e] # NoVerdict
    /\ LET v == judged[e]
       IN  /\ rows' = [rows EXCEPT ![v.row] =
                          IF v.status = "EVALUATED"
                          THEN [status |-> v.status, entry |-> v.entry,
                                used |-> v.used, seen |-> v.seen]
                          ELSE [@ EXCEPT !.status = v.status]]
           /\ todo' = [todo EXCEPT ![e] = @ \ {v.row}]
    /\ judged' = [judged EXCEPT ![e] = NoVerdict]
    /\ UNCHANGED <<market, active, now, daily, hourly, logs>>

\* The columns that follow from the bars a row was judged on.
OutcomeOf(r) ==
    LET s     == RowOf(r)
        bars  == [p \in rows[r].used |-> PeriodBar(p, rows[r].seen)]
        whole == Joined(rows[r].used, rows[r].seen)
    IN  Outcome(s, IF s.horizon < PerDay THEN HourlyHit(s, bars) ELSE DailyHit(s, whole),
                rows[r].entry, whole, Edge)

\* Begin, judge and save follow one another; one of them is possible at most.
Evaluate(e) == Begin(e) \/ Judge(e) \/ Save(e)

-----------------------------------------------------------------------------
(* Forecasts of the logs *)

ForecastDay(l) == Day(LogOf(l).made + LogOf(l).horizon)

\* Mutant: forecasts for a later day are taken as well.
LogDueEarly(l) == l \in active /\ logs[l].status = "NEW" /\ LogOf(l).made <= now

\* get_forecasts_to_evaluate.
LogDue(l) ==
    /\ l \in active /\ logs[l].status = "NEW"
    /\ LogOf(l).made <= now
    /\ ForecastDay(l) <= Day(now)

\* fetch_actual_data: the stored day nearest to the forecast date, the earlier
\* of two.
Nearest(d, wanted) ==
    \A x \in Stored : \/ Gap(d, wanted) < Gap(x, wanted)
                      \/ Gap(d, wanted) = Gap(x, wanted) /\ d <= x

\* evaluate_logs_records, one log.  Bars that come from the exchange carry a
\* time of day, which the search for the date does not parse: the log stays
\* NEW until the bars come from the cache.
EvaluateLog(l) ==
    /\ LogDue(l) /\ CacheFresh
    /\ \E d \in Stored :
          /\ Nearest(d, ForecastDay(l))
          /\ logs' = [logs EXCEPT ![l] = [status |-> "EVALUATED", day |-> d, seen |-> daily[d]]]
    /\ UNCHANGED <<market, active, now, daily, hourly, rows, todo, judged>>

-----------------------------------------------------------------------------
Next ==
    \/ Tick
    \/ PriceDataUpdate
    \/ IntradayUpdate
    \/ \E e \in Evaluators : Evaluate(e)
    \/ \E l \in Logs : EvaluateLog(l)

\* Time goes on, the scheduler repeats its tasks, and the exchange answers.
Fairness ==
    /\ WF_vars(Tick)
    /\ WF_vars(PriceDataUpdate)
    /\ WF_vars(IntradayUpdate)
    /\ \A e \in Evaluators : WF_vars(Evaluate(e))
    /\ \A l \in Logs : WF_vars(EvaluateLog(l))

Spec == Init /\ [][Next]_vars /\ Fairness

-----------------------------------------------------------------------------
(* Properties *)

\* Every variable has its type.
TypeOK ==
    /\ now \in 0..MaxNow
    /\ \A d \in Days : daily[d] \in {Never} \cup 0..now
    /\ hourly \in {Never} \cup 0..now
    /\ \A r \in Rows : rows[r].status \in {"PENDING", "NO_DATA", "EVALUATED"}
    /\ \A l \in Logs : logs[l].status \in {"NEW", "EVALUATED"}
    /\ \A e \in Evaluators : todo[e] \subseteq Rows
                           /\ (judged[e] # NoVerdict => judged[e].row \in todo[e])

\* Although a bar is stored while its day runs, and the cache is trusted for a
\* day after, every stored bar but the latest one is complete.
OnlyLatestIncomplete ==
    \A d \in Stored : d # Max(Stored) => daily[d] >= PerDay * (d + 1)

Judged == {r \in Rows : rows[r].status = "EVALUATED"}

\* A row is judged on bars that begin after it was made, by the daily rule on a
\* later day, although the search falls back to bars before the target.
NoHindsight ==
    \A r \in Judged : \A p \in rows[r].used :
        /\ p > RowOf(r).made
        /\ RowOf(r).horizon >= PerDay => Day(p) > Day(RowOf(r).made)

\* The daily and the hourly rule agree on the same bars where they reached one
\* level or none.  Where they reached both, a level is named all the same,
\* unless the day opened on one: by the daily rule the one nearer to the open,
\* by the hourly rule the target, and not the stop, of which the documentation
\* says that it wins (docs/PROJECT_DOCUMENTATION.md:420).
RulesAgree ==
    \A r \in Judged :
        LET s     == RowOf(r)
            bars  == [p \in rows[r].used |-> PeriodBar(p, rows[r].seen)]
            whole == Joined(rows[r].used, rows[r].seen)
            hit   == OutcomeOf(r).hit
        IN  IF TargetHit(s, whole) /\ StopHit(s, whole)
            THEN hit # "none" \/ whole.open \in {s.target, s.stop}
            ELSE hit = HourlyHit(s, bars) /\ hit = DailyHit(s, whole)

\* The levels of a signal are on their sides of its entry, so far as it has
\* any: what SignalPath says of a consensus no free text had a part in.
Ordered(s) ==
    /\ Level(s.entry)
    /\ Level(s.stop) => \/ s.side = "LONG" /\ s.stop < s.entry
                        \/ s.side # "LONG" /\ s.stop > s.entry
    /\ Level(s.target) => \/ s.side = "LONG" /\ s.target > s.entry
                          \/ s.side # "LONG" /\ s.target < s.entry

\* A stopped signal has lost and is never labelled as worth trading, one that
\* reached its target has gained, if its levels are ordered (the close that
\* stands in for a missing entry may be beyond either); no label without a
\* gain; and the excursions cover what was gained or lost, but for a loss at
\* the target or a gain at the stop.
OutcomeFits ==
    \A r \in Judged :
        LET s == RowOf(r)
            o == OutcomeOf(r)
        IN  /\ Ordered(s) /\ o.hit = "stop" => o.gain < 0 /\ ~o.label
            /\ Ordered(s) /\ o.hit = "target" => o.gain > 0
            /\ o.label => o.gain > 0
            /\ s.side # "NEUTRAL" /\ o.hit # "stop" => o.gain <= o.favorable
            /\ s.side # "NEUTRAL" /\ o.hit # "target" => -o.gain <= o.adverse

\* A log is judged on a bar at most one day from its forecast date.
LogJudgedNearby ==
    \A l \in Logs : logs[l].status = "EVALUATED" => Gap(logs[l].day, ForecastDay(l)) <= 1

\* The two evaluations differ where a bar reaches both levels, one way only:
\* what the logs, where the stop does win, call a success reached its target
\* for the consensus too.
LogIsStricter ==
    \A l \in Logs : logs[l].status = "EVALUATED" =>
        LET bar == DayBar(logs[l].day, logs[l].seen)
        IN  LogExit(LogOf(l), bar) = "success" => DailyHit(LogOf(l), bar) = "target"

\* What a row is judged on: every variable has its type, a bar that is stored
\* and not the latest is complete, and no row sees the time before it.
BarsAreSound == TypeOK /\ OnlyLatestIncomplete /\ NoHindsight

\* What the evaluators find: gain, label and excursions fit the level that was
\* hit, the rules for a row agree with one another and with that of the logs as
\* far as they can, and a log is judged near its date.
VerdictsAreSound == OutcomeFits /\ RulesAgree /\ LogJudgedNearby /\ LogIsStricter

\* A row of an active ticker that is due is judged for good within two days,
\* and so is a log, although evaluators overwrite one another and may write
\* NO_DATA over a verdict.
EverySignalIsJudged ==
    /\ \A r \in Rows :
          r \in active /\ Day(Target(r)) + 2 <= Day(MaxNow) => <>[](rows[r].status = "EVALUATED")
    /\ \A l \in Logs :
          l \in active /\ ForecastDay(l) + 2 <= Day(MaxNow) => <>(logs[l].status = "EVALUATED")

=============================================================================
