---------------------------- MODULE SignalLevels ----------------------------
(***************************************************************************)
(* What happens to the price levels of one model answer before it counts  *)
(* in the vote: parsing (core/forecast_engine.py), anchoring at the        *)
(* market price (normalize_prices_via_atr in                               *)
(* core/multi_model_forecaster.py) and the risk/reward test                *)
(* (validate_signal_rr).                                                   *)
(*                                                                         *)
(* Prices are integers; a missing level is 0, which the code treats like   *)
(* None at every place modelled here.  `text` is the sequence of the       *)
(* numbers written in the free-text field exit_target, <<Absent>> if it    *)
(* has words only.  The code rounds to 0.01 whatever the coin costs:       *)
(* `cent` is 0.01 in price units, 1 where a price is a whole number of     *)
(* cents.                                                                  *)
(***************************************************************************)
EXTENDS Integers, Sequences

Sides == {"LONG", "SHORT", "NEUTRAL"}
Absent == 0

Distance(a, b) == IF a >= b THEN a - b ELSE b - a

\* round(a / b) as Python rounds: to the nearest, ties to the even neighbour.
RoundRatio(a, b) ==
    LET q == a \div b
        r == 2 * (a % b)
    IN  IF r > b \/ (r = b /\ q % 2 = 1) THEN q + 1 ELSE q

\* x to the nearest multiple of step.
RoundTo(x, step) == RoundRatio(x, step) * step

\* x is more than pct percent away from the market price.
FarFrom(price, x, pct) == 100 * Distance(x, price) > pct * price

\* parse_json_response: a missing target is the last number of the text.
ParseTarget(a) ==
    IF a.target # Absent \/ a.text = <<>> THEN a.target ELSE a.text[Len(a.text)]

\* The entry of a limit order: near the market, and on the waiting side of it.
AnchoredEntry(a, price) ==
    LET wanted == IF a.entry = Absent THEN price ELSE a.entry
        far    == FarFrom(price, wanted, 5)
        crosses == IF a.side = "SHORT" THEN wanted < price ELSE wanted > price
    IN  IF far \/ crosses THEN price ELSE wanted

\* Levels of the code's own are rounded to cents, those of the answer are not.
AnchoredStop(a, price, atr, entry, cent) ==
    IF a.stop # Absent /\ ~FarFrom(price, a.stop, 10) THEN a.stop
    ELSE RoundTo(IF a.side = "LONG" THEN entry - 2 * atr ELSE entry + 2 * atr, cent)

AnchoredTarget(a, price, entry, stop, cent) ==
    LET risk == Distance(entry, stop)
    IN  IF a.target # Absent /\ ~FarFrom(price, a.target, 15) THEN a.target
        ELSE RoundTo(IF a.side = "LONG" THEN entry + 2 * risk ELSE entry - 2 * risk, cent)

\* normalize_prices_via_atr; an unknown ATR counts as two percent of the price.
NormalizePrices(a, price, atr, cent) ==
    IF price <= 0 \/ a.side = "NEUTRAL" THEN a
    ELSE LET width == IF atr > 0 THEN atr ELSE (2 * price) \div 100
             entry == AnchoredEntry(a, price)
             stop  == AnchoredStop(a, price, width, entry, cent)
         IN  [a EXCEPT !.entry = entry, !.stop = stop,
                       !.target = AnchoredTarget(a, price, entry, stop, cent)]

\* Mutant: only the ratio is tested, not the side of the stop.
ValidSignalByRatio(a, price) ==
    \/ a.side = "NEUTRAL"
    \/ a.side = "LONG" /\ 2 * (a.target - a.entry) >= 3 * (a.entry - a.stop)
    \/ a.side = "SHORT" /\ 2 * (a.entry - a.target) >= 3 * (a.stop - a.entry)

\* Mutant: the reward is taken without its sign.
ValidSignalUnsigned(a, price) ==
    \/ a.side = "NEUTRAL"
    \/ a.side = "LONG" /\ a.stop < a.entry
       /\ 2 * Distance(a.target, a.entry) >= 3 * (a.entry - a.stop)
    \/ a.side = "SHORT" /\ a.stop > a.entry
       /\ 2 * Distance(a.target, a.entry) >= 3 * (a.stop - a.entry)

\* Mutant: reward equal to the risk is enough.
ValidSignalEven(a, price) ==
    \/ a.side = "NEUTRAL"
    \/ a.side = "LONG" /\ a.stop < a.entry /\ a.target - a.entry >= a.entry - a.stop
    \/ a.side = "SHORT" /\ a.stop > a.entry /\ a.entry - a.target >= a.stop - a.entry

\* validate_signal_rr: the stop on the losing side of the entry, the entry on
\* the waiting side of the market, and reward at least 1.5 times the risk.
ValidSignal(a, price) ==
    LET target == IF a.target > 0 THEN a.target
                  ELSE IF a.text = <<>> THEN Absent ELSE a.text[Len(a.text)]
        entry  == IF a.entry > 0 THEN a.entry ELSE price
    IN  \/ a.side = "NEUTRAL"
        \/ /\ a.stop > 0 /\ target > 0 /\ price > 0
           /\ \/ /\ a.side = "LONG"
                 /\ a.stop < entry /\ entry <= price
                 /\ 2 * (target - entry) >= 3 * (entry - a.stop)
              \/ /\ a.side = "SHORT"
                 /\ a.stop > entry /\ entry >= price
                 /\ 2 * (entry - target) >= 3 * (a.stop - entry)

=============================================================================
