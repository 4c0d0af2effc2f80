--------------------------- MODULE MarketReadings ---------------------------
(***************************************************************************)
(* What a forecast reads off a price history: the indicators               *)
(* (core/indicators.py), the regime they give (core/market_regime.py) and  *)
(* the statements about them that the prompt makes                         *)
(* (core/forecast_engine.py).  A history is a sequence of daily bars,      *)
(* oldest first; averages are kept as integers, Scale times their value.   *)
(***************************************************************************)
EXTENDS Integers, Sequences, Functions

CONSTANTS
    Fast, Middle, Slow,   \* bars of the three moving averages (20, 50, 200)
    Period,               \* bars of RSI and ADX (14)
    Scale                 \* a common multiple of the three

ASSUME PeriodsAssumption ==
    /\ {Fast, Middle, Slow, Period, Scale} \subseteq Nat \ {0}
    /\ Fast < Middle /\ Middle < Slow /\ Period < Slow
    /\ \A p \in {Fast, Middle, Slow} : Scale % p = 0

Latest(seq, n) == SubSeq(seq, Len(seq) - n + 1, Len(seq))
Total(seq) == SumFunction(seq)
Closes(bars) == [i \in DOMAIN bars |-> bars[i].close]
Above(x, y) == IF x > y THEN x - y ELSE 0

\* calculate_ma: nothing is told apart from an average of zero.
Average(bars, n) == IF Len(bars) < n THEN 0 ELSE Total(Latest(Closes(bars), n)) * (Scale \div n)

Gains(c) == [i \in 1..Len(c) - 1 |-> Above(c[i + 1], c[i])]
Losses(c) == [i \in 1..Len(c) - 1 |-> Above(c[i], c[i + 1])]

\* calculate_rsi, as the share of the gains: <<part, whole>>.
\* Mutant: losses of the whole history are averaged.
RsiOfAllLosses(bars) ==
    LET c == Closes(bars)
        up == Total(Latest(Gains(c), Period))
        down == Total(Losses(c))
    IN  IF Len(bars) < Period + 1 THEN <<0, 1>> ELSE IF down = 0 THEN <<1, 1>> ELSE <<up, up + down>>

Rsi(bars) ==
    LET c == Closes(bars)
        up == Total(Latest(Gains(c), Period))
        down == Total(Latest(Losses(c), Period))
    IN  IF Len(bars) < Period + 1 THEN <<0, 1>> ELSE IF down = 0 THEN <<1, 1>> ELSE <<up, up + down>>

\* calculate_adx: the movements of the highs and of the lows, each counted only
\* on the bars where it is the larger one.
Rises(bars, i) == bars[i + 1].high - bars[i].high
Falls(bars, i) == bars[i].low - bars[i + 1].low

DirectionalMoves(bars) ==
    LET moves == 1..Len(bars) - 1
        up == [i \in moves |-> IF Rises(bars, i) > Falls(bars, i) THEN Above(Rises(bars, i), 0) ELSE 0]
        down == [i \in moves |-> IF Falls(bars, i) > Rises(bars, i) THEN Above(Falls(bars, i), 0) ELSE 0]
    IN  IF Len(bars) < Period + 1 THEN <<0, 0>>
        ELSE <<Total(Latest(up, Period)), Total(Latest(down, Period))>>

\* The strength of the trend in percent is compared with 25, 20 and 40.
AdxAbove25(m) == 4 * (Above(m[1], m[2]) + Above(m[2], m[1])) > m[1] + m[2]
AdxBelow20(m) == m[1] + m[2] = 0 \/ 5 * (Above(m[1], m[2]) + Above(m[2], m[1])) < m[1] + m[2]
AdxAbove40(m) == 5 * (Above(m[1], m[2]) + Above(m[2], m[1])) > 2 * (m[1] + m[2])

\* calculate_obv
Volume(bars) ==
    LET signed == [i \in 1..Len(bars) - 1 |->
            CASE bars[i + 1].close > bars[i].close -> bars[i + 1].volume
              [] bars[i + 1].close < bars[i].close -> -bars[i + 1].volume
              [] OTHER -> 0]
    IN  Total(signed)

\* calculate_indicators, as far as the regime and the prompt read it.
Readings(bars) ==
    [price  |-> bars[Len(bars)].close * Scale,
     fast   |-> Average(bars, Fast),
     middle |-> Average(bars, Middle),
     slow   |-> Average(bars, Slow),
     rsi    |-> Rsi(bars),
     moves  |-> DirectionalMoves(bars),
     obv    |-> Volume(bars)]

Structure(r) ==
    CASE r.fast > r.middle /\ r.middle > r.slow -> "bullish"
      [] r.fast < r.middle /\ r.middle < r.slow -> "bearish"
      [] OTHER -> "mixed"

\* Mutant: a downtrend is not asked for the position of the price.
RegimeBlindToPrice(r) ==
    CASE AdxAbove25(r.moves) /\ Structure(r) = "bullish" /\ r.price > r.fast -> "STRONG_UPTREND"
      [] AdxAbove25(r.moves) /\ Structure(r) = "bearish" -> "STRONG_DOWNTREND"
      [] AdxBelow20(r.moves) -> "RANGING"
      [] OTHER -> "WEAK_TREND"

Regime(r) ==
    CASE AdxAbove25(r.moves) /\ Structure(r) = "bullish" /\ r.price > r.fast -> "STRONG_UPTREND"
      [] AdxAbove25(r.moves) /\ Structure(r) = "bearish" /\ r.price < r.fast -> "STRONG_DOWNTREND"
      [] AdxBelow20(r.moves) -> "RANGING"
      [] OTHER -> "WEAK_TREND"

\* The method whose forecasts a regime asks for on top of the trend's or the range's.
Methods(regime) ==
    LET trend == {"momentum_trend", "relative_strength"}
        range == {"mean_reversion", "price_action", "volatility"}
    IN  CASE regime = "STRONG_UPTREND" -> trend \cup {"volume_breakout"}
          [] regime = "STRONG_DOWNTREND" -> trend
          [] regime = "RANGING" -> range
          [] OTHER -> trend \cup range \cup {"volume_breakout"}

\* classify_adx_strength
Strength(m) ==
    CASE AdxBelow20(m) -> "sideways"
      [] AdxAbove25(m) /\ ~AdxAbove40(m) -> "strong"
      [] AdxAbove40(m) -> "very strong"
      [] OTHER -> "moderate"

\* The position of the price; on the average is a side of its own.
PriceSide(r) ==
    CASE r.price > r.fast -> "above"
      [] r.price < r.fast -> "below"
      [] OTHER -> "on"

\* get_regime_rationale
Rationale(r) ==
    CASE Regime(r) # "WEAK_TREND" -> Regime(r)
      [] Regime(r) = "WEAK_TREND" /\ ~AdxAbove25(r.moves) -> "in transition"
      [] Regime(r) = "WEAK_TREND" /\ AdxAbove25(r.moves) ->
            (CASE Structure(r) = "bullish" /\ r.price <= r.fast -> "bullish below the average"
               [] Structure(r) = "bearish" /\ r.price >= r.fast -> "bearish above the average"
               [] OTHER -> "not stacked")

\* The statements that build_prompt has ready for a template, and the number
\* of the oscillator as the templates that grade both its ends grade it.
Claims(bars) ==
    LET r == Readings(bars)
    IN  [regime    |-> Regime(r),
         rationale |-> Rationale(r),
         strength  |-> Strength(r.moves),
         structure |-> Structure(r),
         price     |-> PriceSide(r),
         volume    |-> IF r.obv > 0 THEN "up" ELSE "down",
         rsi       |-> CASE 10 * r.rsi[1] > 7 * r.rsi[2] -> "overbought"
                         [] 10 * r.rsi[1] < 3 * r.rsi[2] -> "oversold"
                         [] OTHER -> "neutral"]

\* What of that the template of a method, as the database is seeded with it,
\* puts in the prompt.
Shown(method) ==
    {"regime", "rationale", "strength", "structure", "price"}
        \cup (IF method \in {"momentum_trend", "relative_strength", "volume_breakout"}
              THEN {"volume"} ELSE {})
        \cup (IF method \in {"momentum_trend", "price_action"} THEN {"rsi"} ELSE {})

Prompt(claims, method) == Restrict(claims, Shown(method))
=============================================================================
