--------------------------- MODULE EvaluationRules ---------------------------
(***************************************************************************)
(* How a price bar decides what became of a signal: the daily and the      *)
(* hourly rule of core/consensus_evaluator.py, the rule for a single       *)
(* forecast of core/actuals_evaluator.py, the excursions of core/mae_mfe.py*)
(* and the label of core/meta_label/net_pnl.py.                            *)
(*                                                                         *)
(* A bar is [open, high, low, close]; a signal has side, entry, target and *)
(* stop; prices are integers, 0 is a missing level.                        *)
(***************************************************************************)
EXTENDS Integers, Sequences

Level(x) == x # 0
Gap(a, b) == IF a >= b THEN a - b ELSE b - a

\* The bar reaches a level above (for a LONG target, a SHORT stop) or below.
ReachesUp(level, bar)   == Level(level) /\ bar.high >= level
ReachesDown(level, bar) == Level(level) /\ bar.low <= level

TargetHit(s, bar) ==
    \/ s.side = "LONG"  /\ ReachesUp(s.target, bar)
    \/ s.side = "SHORT" /\ ReachesDown(s.target, bar)

StopHit(s, bar) ==
    \/ s.side = "LONG"  /\ ReachesDown(s.stop, bar)
    \/ s.side = "SHORT" /\ ReachesUp(s.stop, bar)

\* Mutant: a bar that reaches both levels decides nothing.
DailyHitEither(s, bar) ==
    CASE TargetHit(s, bar) /\ ~StopHit(s, bar) -> "target"
      [] StopHit(s, bar) /\ ~TargetHit(s, bar) -> "stop"
      [] OTHER -> "none"

\* _evaluate_one: both touched, the level nearer to the open came first, the
\* stop if they are equally near; a distance of 0 counts as missing, so that
\* an open on one of the levels leaves the question open.
DailyHit(s, bar) ==
    LET toTarget == Gap(s.target, bar.open)
        toStop   == Gap(s.stop, bar.open)
    IN  CASE TargetHit(s, bar) /\ ~StopHit(s, bar) -> "target"
          [] StopHit(s, bar) /\ ~TargetHit(s, bar) -> "stop"
          [] TargetHit(s, bar) /\ StopHit(s, bar) /\ toTarget > 0 /\ toStop > 0 ->
                IF toTarget < toStop THEN "target" ELSE "stop"
          [] OTHER -> "none"

\* _find_first_hit_intraday: the first bar that reaches a level decides, the
\* target before the stop where one bar reaches both.
HourlyHit(s, bars) ==
    LET deciding == {i \in DOMAIN bars : TargetHit(s, bars[i]) \/ StopHit(s, bars[i])}
        first == CHOOSE i \in deciding : \A j \in deciding : i <= j
    IN  IF deciding = {} THEN "none"
        ELSE IF TargetHit(s, bars[first]) THEN "target" ELSE "stop"

ExitPrice(s, hit, close) ==
    CASE hit = "target" -> s.target [] hit = "stop" -> s.stop [] OTHER -> close

\* The move from entry to exit in the direction of the signal.
Gain(side, entry, exit) ==
    CASE side = "LONG" -> exit - entry [] side = "SHORT" -> entry - exit [] OTHER -> 0

DirectionCorrect(side, entry, close) ==
    \/ side = "LONG" /\ close > entry
    \/ side = "SHORT" /\ close < entry

\* The close stands in for an entry a log has not.
LogEntry(s, close) == IF Level(s.entry) THEN s.entry ELSE close

\* evaluate_direction: a NEUTRAL log is right about a move of less than 1 %.
LogRight(s, close) ==
    LET entry == LogEntry(s, close)
    IN  \/ DirectionCorrect(s.side, entry, close)
        \/ s.side = "NEUTRAL" /\ 100 * Gap(close, entry) < entry

\* Mutant: the label is taken before costs.
GrossLabel(gain, entry, edge) == gain >= 0

\* compute_label_meta(compute_net_pnl_pct): the gain clears costs and edge,
\* both in hundredths of a percent of the entry.
LabelMeta(gain, entry, edge) == 10000 * gain >= edge * entry

\* compute_mae_mfe_pct, in price units.
Adverse(side, entry, bar) ==
    LET move == IF side = "LONG" THEN entry - bar.low ELSE bar.high - entry
    IN  IF move > 0 THEN move ELSE 0

Favorable(side, entry, bar) ==
    LET move == IF side = "LONG" THEN bar.high - entry ELSE entry - bar.low
    IN  IF move > 0 THEN move ELSE 0

Outcome(s, hit, entry, bar, edge) ==
    LET gain == Gain(s.side, entry, ExitPrice(s, hit, bar.close))
    IN  [hit |-> hit, entry |-> entry, gain |-> gain,
         right |-> DirectionCorrect(s.side, entry, bar.close),
         label |-> LabelMeta(gain, entry, edge),
         adverse |-> Adverse(s.side, entry, bar),
         favorable |-> Favorable(s.side, entry, bar)]

\* Mutant: the target first.
LogExitTargetFirst(s, bar) ==
    IF TargetHit(s, bar) THEN "success" ELSE IF StopHit(s, bar) THEN "failure" ELSE "open"

\* evaluate_forecast with check_targets: nothing for a NEUTRAL log and where the
\* entry was never reached; a touched stop is a failure whatever else happened.
LogExit(s, bar) ==
    LET triggered == \/ s.side # "NEUTRAL" /\ ~Level(s.entry)
                     \/ s.side = "LONG"  /\ bar.low <= s.entry
                     \/ s.side = "SHORT" /\ bar.high >= s.entry
    IN  IF triggered /\ StopHit(s, bar) THEN "failure"
        ELSE IF triggered /\ TargetHit(s, bar) THEN "success" ELSE "open"

=============================================================================
