---------------------------- MODULE ManualOrder ----------------------------
(***************************************************************************)
(* POST /orders/submit: the operator has an order made of the ticker's     *)
(* latest consensus, with levels of his own in place of any of its levels  *)
(* (services/orders_service.py).  Before submit_signal sizes the order, a  *)
(* sizer of its own (position_sizer.py) computes a quantity from a capital *)
(* of its own (bybit_capital_provider.py); only whether that quantity is   *)
(* positive matters: neither it nor the quantity the operator asked for is *)
(* handed on.                                                              *)
(***************************************************************************)
EXTENDS SignalPath

CONSTANTS
    Requests,  \* what is requested and what the server finds then: [entry, stop, target], the
               \*   operator's levels, Absent to keep the consensus's, and [mode, override,
               \*   first, second, cached, exposure, close, rejected]; `first` and `second` are
               \*   the answers of the two wallet requests, `cached` the last capital known
    Sizer,     \* the risk settings: [riskPct, maxPct, softPct, hardPct, cut]
    Coin       \* the units of quantity in a whole coin

ASSUME SizerAssumption == Coin \in Nat \ {0} /\ Sizer.cut \in Nat \ {0}
ASSUME RequestsAssumption ==
    \A r \in Requests : r.entry \in Int /\ r.stop \in Int /\ r.target \in Int

NoCapital == -1
NoWallet == [equity |-> NoCapital, available |-> NoCapital]

\* _manual_override: only a positive number counts.
Overridden(desk) == desk.override > 0

\* get_available_capital; a failed request falls back on the last value cached.
AvailableCapital(desk) ==
    IF Overridden(desk) THEN desk.override
    ELSE IF desk.first # NoWallet THEN desk.first.available ELSE desk.cached

\* One cache serves both figures: this one and the one above.
Cached(desk) ==
    IF ~Overridden(desk) /\ desk.first # NoWallet THEN desk.first.available ELSE desk.cached

\* get_portfolio_net_liquidation.
PortfolioCapital(desk) ==
    IF Overridden(desk) THEN desk.override
    ELSE IF desk.second.equity > 0 THEN desk.second.equity ELSE Cached(desk)

\* Whole coins at that risk, no more than the largest position.
Whole(risked, capital, entry, stop) ==
    LET byRisk     == risked[1] \div (risked[2] * Distance(entry, stop) * Coin)
        byPosition == (capital * Sizer.maxPct) \div (100 * entry * Coin)
    IN  IF byRisk <= byPosition THEN byRisk ELSE byPosition

Overweight(desk, capital, pct) == 100 * desk.exposure > pct * capital

\* calculate_position of the sector modes; 0 stands for every refusal.
SectorSized(desk, capital, entry, stop) ==
    LET qty == Whole(<<capital * Sizer.riskPct, 100>>, capital, entry, stop)
    IN  IF Overweight(desk, capital, Sizer.hardPct) THEN 0
        ELSE IF Overweight(desk, capital, Sizer.softPct) THEN qty \div Sizer.cut ELSE qty

\* _calculate_kelly_fractional_mode: nobody passes a win rate or a reward, so
\* the scale is a quarter of the Kelly fraction of 0.5 and 1.5, 1/24.
KellySized(capital, entry, stop) ==
    Whole(<<capital * Sizer.riskPct, 24 * 100>>, capital, entry, stop)

\* calculate_position.
Sized(desk, entry, stop) ==
    LET capital == IF desk.mode = "portfolio" THEN PortfolioCapital(desk)
                   ELSE AvailableCapital(desk)
    IN  IF capital <= 0 \/ stop <= 0 \/ entry <= 0 \/ entry = stop THEN 0
        ELSE IF desk.mode = "kelly" THEN KellySized(capital, entry, stop)
        ELSE SectorSized(desk, capital, entry, stop)

\* The price the sizer works with: the limit, the last close, or the target.
SizingEntry(desk, levels) ==
    IF levels.entry # Absent THEN levels.entry
    ELSE IF desk.close # Absent THEN desk.close ELSE levels.target

\* The operator's levels over those of the consensus; the consensus's entry is
\* never used.
Wanted(request) ==
    [entry  |-> request.entry,
     stop   |-> IF request.stop = Absent THEN consensus.levels.stop ELSE request.stop,
     target |-> IF request.target = Absent THEN consensus.levels.target ELSE request.target]

\* Why the request is refused before submit_signal, "" if it is not.  The
\* threshold is the configured one, whatever the regime of the consensus.
Refusal(desk, levels) ==
    IF consensus.signal = "NEUTRAL" THEN "manual neutral"
    ELSE IF consensus.confidence < Settings.threshold THEN "manual low confidence"
    ELSE IF desk.rejected THEN "manual rejected"
    ELSE IF levels.stop = Absent \/ levels.target = Absent THEN "manual missing levels"
    ELSE IF AvailableCapital(desk) = NoCapital THEN "manual no capital"
    ELSE IF Sized(desk, SizingEntry(desk, levels), levels.stop) = 0 THEN "manual size"
    ELSE ""

\* submit_manual_from_consensus; one request in a run (bound), which may be for
\* a ticker the pipeline has just found neutral.
ManualSubmit(request, balance, middle) ==
    LET levels  == Wanted(request)
        refusal == Refusal(request, levels)
    IN  /\ consensus # NoConsensus /\ stored = NoOrder /\ outcome \in {"", "neutral"}
        /\ IF refusal # ""
           THEN /\ outcome' = refusal
                /\ UNCHANGED <<market, asked, forecasts, consensus, ordered, equity, stored, sent>>
           ELSE SubmitSignal(levels, balance, middle)

ManualNext ==
    \/ SignalNext
    \/ \E r \in Requests, e \in Equities, m \in Middles : ManualSubmit(r, e, m)

ManualSpec == SignalInit /\ [][ManualNext]_signalVars
=============================================================================
