----------------------------- MODULE SignalPath -----------------------------
(***************************************************************************)
(* The numbers of one pipeline run for one ticker, from the answers of the *)
(* models to the order the exchange receives: every answer is parsed,      *)
(* anchored and tested (generate_multi_model_forecasts), the accepted ones *)
(* vote (calculate_consensus), the order is sized and snapped to the       *)
(* instrument (submit_signal) and snapped once more by the REST client     *)
(* (place_order).  Which thread does what, and when, is in the other       *)
(* modules: this one is about what the numbers are.                        *)
(***************************************************************************)
EXTENDS PositionSizing

CONSTANTS
    Calls,        \* the models in calling order, one entry per model and method
    Answers,      \* what a model may answer: [model, side, weight, entry, stop, target, text]
    Price,        \* the market price during the run
    Situations,   \* what a run may find: [atr, regime, cent, fine], atr 0 when it is unknown;
                  \*   0.01 in price units and 0.0001 in half units, 1 if less than that
    Settings,     \* [threshold, disagreement, minModels, minExpectedR, maxDeviation]
    Overrides,    \* REGIME_CONSENSUS_OVERRIDES: regime -> some of those fields
    Equities,     \* possible account equities
    Risk,         \* [pct, leverage, minQty]
    Instrument,   \* [qtyStep, minQty, maxQty, tick]
    Middles,      \* possible middles of the book at submission, in half units
    Tolerance     \* entry_slippage_tolerance, tenths of a percent

ASSUME AnswersAssumption ==
    /\ Calls \in Seq({Calls[i] : i \in DOMAIN Calls})
    /\ Price \in Nat \ {0}
    /\ \A a \in Answers :
          a \in [model : {a.model}, side : Sides, weight : Nat, entry : Int, stop : Int,
                target : Int, text : Seq(Int)]
ASSUME SituationsAssumption ==
    /\ \A m \in Situations : m.regime \in DOMAIN Overrides
    /\ \A m \in Situations : m.atr \in Nat /\ m.cent \in Nat \ {0} /\ m.fine \in Nat \ {0}
    /\ \A r \in DOMAIN Overrides : \A k \in DOMAIN Overrides[r] : Overrides[r][k] \in Int
    /\ Settings \in [threshold : Int, disagreement : Int, minModels : Int, minExpectedR : Int,
                     maxDeviation : Int]
ASSUME RiskAssumption ==
    /\ Equities \subseteq Nat
    /\ Risk.pct \in Nat \ {0} /\ Risk.leverage \in Nat \ {0} /\ Risk.minQty \in Nat \ {0}
\* The filters of the exchange fit each other (external): the least quantity is
\* a whole number of steps, and no more than the greatest.
ASSUME InstrumentAssumption ==
    /\ Instrument.qtyStep \in Nat \ {0} /\ Instrument.tick \in Nat \ {0}
    /\ Instrument.minQty \in Nat /\ Instrument.maxQty \in Nat
    /\ Instrument.minQty % Instrument.qtyStep = 0
    /\ Instrument.maxQty = 0 \/ Instrument.minQty <= Instrument.maxQty

VARIABLES
    market,       \* the ATR and the regime of this run, and how coarsely the code rounds
    asked,        \* how many calls have been made
    forecasts,    \* accepted forecasts, in order
    consensus,    \* the consensus record, NoConsensus before the vote
    ordered,      \* the levels submit_signal was called with
    equity,       \* the balance the order was sized with
    stored,       \* the order row submit_signal writes
    sent,         \* the order the client sends
    outcome       \* "", or why no order was sent

signalVars == <<market, asked, forecasts, consensus, ordered, equity, stored, sent, outcome>>

NoConsensus == [signal |-> "none"]
NoLevels == [entry |-> Absent, stop |-> Absent, target |-> Absent]
NoOrder == [qty |-> 0, entry |-> Absent, stop |-> Absent, target |-> Absent]

SignalInit ==
    /\ market \in Situations
    /\ asked = 0
    /\ forecasts = <<>>
    /\ consensus = NoConsensus
    /\ ordered = NoLevels
    /\ equity = 0
    /\ stored = NoOrder
    /\ sent = NoOrder
    /\ outcome = ""

\* load_consensus_settings: the configured thresholds under those the operator
\* set for the regime; at least one model has to agree.
LoadSettings(regime) ==
    LET merged == [k \in DOMAIN Settings |->
                     IF k \in DOMAIN Overrides[regime] THEN Overrides[regime][k] ELSE Settings[k]]
    IN  [merged EXCEPT !.minModels = IF @ < 1 THEN 1 ELSE @]

\* A call that brings no usable forecast: an error, invalid JSON, a rate limit.
NoAnswer ==
    /\ asked < Len(Calls)
    /\ asked' = asked + 1
    /\ UNCHANGED <<market, forecasts, consensus, ordered, equity, stored, sent, outcome>>

\* Mutant: the call is made once more after its answer was accepted.
AnswerAgain(a) ==
    LET f == NormalizePrices([a EXCEPT !.target = ParseTarget(a)], Price, market.atr, market.cent)
    IN  /\ asked < Len(Calls) /\ ValidSignal(f, Price)
        /\ forecasts' = Append(forecasts, [f EXCEPT !.model = Calls[asked + 1]])
        /\ UNCHANGED <<market, asked, consensus, ordered, equity, stored, sent, outcome>>

\* generate_multi_model_forecasts, one model and method: the answer is parsed,
\* anchored at the market and appended when the risk/reward test accepts it.
Answer(a) ==
    LET f == NormalizePrices([a EXCEPT !.target = ParseTarget(a)], Price, market.atr, market.cent)
    IN  /\ asked < Len(Calls)
        /\ asked' = asked + 1
        /\ forecasts' = IF ValidSignal(f, Price)
                        THEN Append(forecasts, [f EXCEPT !.model = Calls[asked + 1]])
                        ELSE forecasts
        /\ UNCHANGED <<market, consensus, ordered, equity, stored, sent, outcome>>

\* ConsensusStage: nothing is recorded when no forecast was accepted.
Vote ==
    /\ asked = Len(Calls) /\ consensus = NoConsensus /\ outcome = ""
    /\ IF forecasts = <<>>
       THEN outcome' = "no forecast" /\ UNCHANGED consensus
       ELSE /\ consensus' = CalculateConsensus(forecasts, Price, LoadSettings(market.regime), market.fine)
            /\ outcome' = IF consensus'.signal = "NEUTRAL" THEN "neutral" ELSE ""
    /\ UNCHANGED <<market, asked, forecasts, ordered, equity, stored, sent>>

\* submit_signal, steps 8 to 11: size, snap to the instrument, slippage; an
\* order without an entry price is a market order, which has no slippage test,
\* and one without a stop as well divides by zero.
SubmitSignal(levels, balance, middle) ==
    LET order == NormalizeOrder(PositionSize(balance, levels.entry, levels.stop, Risk),
                                levels, Instrument)
    IN  /\ stored = NoOrder
        /\ IF levels.entry = Absent /\ levels.stop = Absent
           THEN outcome' = "no price" /\ UNCHANGED stored
           ELSE IF order.qty = 0
           THEN outcome' = "below minimum" /\ UNCHANGED stored
           ELSE IF order.entry # Absent /\ ~SlippageOk(order.entry, middle, Tolerance)
           THEN outcome' = "slippage" /\ UNCHANGED stored
           ELSE stored' = order /\ outcome' = ""
        /\ ordered' = levels
        /\ equity' = balance
        /\ UNCHANGED <<market, asked, forecasts, consensus, sent>>

\* activate_consensus_order: with the levels of the consensus.
ActivateConsensusOrder(balance, middle) ==
    /\ consensus # NoConsensus /\ outcome = ""
    /\ SubmitSignal(consensus.levels, balance, middle)

\* place_order of the client: the instrument filters are applied once more.
Place ==
    LET order == NormalizeOrder(<<stored.qty, 1>>, stored, Instrument)
    IN  /\ stored # NoOrder /\ outcome = ""
        /\ IF order.qty = 0
           THEN outcome' = "order invalid" /\ UNCHANGED sent
           ELSE outcome' = "sent" /\ sent' = order
        /\ UNCHANGED <<market, asked, forecasts, consensus, ordered, equity, stored>>

SignalNext ==
    \/ NoAnswer
    \/ \E a \in Answers : Answer(a)
    \/ Vote
    \/ \E e \in Equities, m \in Middles : ActivateConsensusOrder(e, m)
    \/ Place

-----------------------------------------------------------------------------
(* Properties *)

Directed == consensus # NoConsensus /\ consensus.signal # "NEUTRAL"

\* No answer that asks for a trade carried a free-text target.
NoText == \A i \in DOMAIN forecasts :
            forecasts[i].side # "NEUTRAL" => forecasts[i].text = <<>>

\* The state of the run has its type; there is at most one forecast per call.
SignalType ==
    /\ market \in Situations /\ asked \in 0..Len(Calls) /\ Len(forecasts) <= asked
    /\ \A i \in DOMAIN forecasts : forecasts[i].side \in Sides
    /\ consensus # NoConsensus => /\ consensus.signal \in Sides
                                  /\ consensus.included \subseteq DOMAIN forecasts
    /\ DOMAIN ordered = DOMAIN NoLevels
    /\ equity \in Nat /\ stored.qty \in Nat /\ sent.qty \in Nat

\* The most by which rounding moves a level of the consensus, in half units; 0
\* where 0.0001 is not coarser than a price.
Slack == market.fine \div 2

\* Every forecast has its stop further from its entry than rounding moves both.
Apart == \A i \in DOMAIN forecasts :
            forecasts[i].side # "NEUTRAL" =>
                Distance(forecasts[i].entry, forecasts[i].stop) > Slack

\* A directed consensus never has its stop on the winning side of its entry, nor
\* its entry beyond the market by more than a rounding, although the three
\* medians are taken and rounded separately, over an odd or even number of
\* forecasts.  The stop of a coin that costs less than the rounding may come to
\* lie on the entry, but only where some forecast had it that near.
StopProtects ==
    LET l == consensus.levels
    IN  Directed =>
            /\ \/ consensus.signal = "LONG"  /\ l.stop <= l.entry /\ l.entry <= 2 * Price + Slack
               \/ consensus.signal = "SHORT" /\ l.stop >= l.entry /\ l.entry >= 2 * Price - Slack
            /\ Apart => l.stop # l.entry

\* Where no answer carried a free-text target, the target of a directed
\* consensus is beyond its entry, or rounded onto it where some forecast had its
\* stop that near.  (The vote reads the text before the anchored target, so a
\* text can put the target anywhere within maxDeviation.)
TargetAhead ==
    LET l == consensus.levels
    IN  Directed /\ NoText =>
            /\ \/ consensus.signal = "LONG"  /\ l.target >= l.entry
               \/ consensus.signal = "SHORT" /\ l.target <= l.entry
            /\ Apart => l.target # l.entry

\* Where every voter enters at the market and writes no text, the medians keep
\* the risk/reward of 1.5 each forecast was accepted with, but for what rounding
\* both ends of the two distances takes.
RewardCoversRisk ==
    LET l == consensus.levels
    IN  Directed /\ NoText
        /\ (\A i \in DOMAIN forecasts :
              forecasts[i].side # "NEUTRAL" => forecasts[i].entry = Price) =>
            2 * Distance(l.target, l.entry) + 10 * Slack >= 3 * Distance(l.entry, l.stop)

\* Every directed consensus is a trade worth its risk: the three of them
\* together, on a well-typed state.
TradeIsSound == SignalType /\ StopProtects /\ TargetAhead /\ RewardCoversRisk

\* Under a threshold above one half, a directed consensus outweighs the other
\* side and the neutral forecasts together; where two models have to agree, it
\* is not the voice of one.
StrictMajority ==
    LET settings == LoadSettings(market.regime)
        kept     == Counted(forecasts, Price, settings)
        winners  == OfSide(forecasts, kept, consensus.signal)
    IN  Directed =>
            /\ settings.threshold > 500 =>
                  2 * WeightOf(forecasts, winners) > WeightOf(forecasts, kept)
            /\ settings.minModels >= 2 =>
                  \E i, j \in winners : forecasts[i].model # forecasts[j].model

OtherSide(side) == CASE side = "LONG" -> "SHORT" [] side = "SHORT" -> "LONG" [] OTHER -> side
Reflect(x, axis) == IF x = Absent THEN Absent ELSE 2 * axis - x
Mirror(f) ==
    [f EXCEPT !.side = OtherSide(f.side), !.entry = Reflect(f.entry, Price),
              !.stop = Reflect(f.stop, Price), !.target = Reflect(f.target, Price),
              !.text = IF f.text = <<>> THEN <<>> ELSE <<Reflect(VoteTarget(f), Price)>>]

Reflected(fs) == [i \in DOMAIN fs |-> Mirror(fs[i])]

\* LONG and SHORT are treated alike, where every level that is there is not
\* rounded away and has such a reflection at the market price, and that price is
\* one rounding leaves: the consensus of the reflected forecasts is the
\* reflected consensus.  Ties, which go to LONG, are included: a threshold above
\* one half filters them out.
MirrorSymmetric ==
    LET settings == LoadSettings(market.regime)
        mirrored == CalculateConsensus(Reflected(forecasts), Price, settings, market.fine)
    IN  /\ consensus # NoConsensus /\ settings.threshold > 500 /\ (2 * Price) % market.fine = 0
        /\ \A i \in DOMAIN forecasts :
              LET f == forecasts[i]
              IN  f.side # "NEUTRAL" =>
                      \A x \in {f.entry, f.stop, VoteTarget(f)} :
                          x = Absent \/ x \in Slack + 1 .. 2 * Price - Slack - 1
        =>  /\ mirrored.signal = OtherSide(consensus.signal)
            /\ mirrored.confidence = consensus.confidence
            /\ mirrored.filter = consensus.filter
            /\ mirrored.included = consensus.included
            /\ mirrored.levels = [entry  |-> Reflect(consensus.levels.entry, 2 * Price),
                                  stop   |-> Reflect(consensus.levels.stop, 2 * Price),
                                  target |-> Reflect(consensus.levels.target, 2 * Price)]

\* The vote is that of a majority and favours no side.
VoteIsFair == StrictMajority /\ MirrorSymmetric

\* Snapping qty and levels to the instrument separately leaves the loss at the
\* stop within the risk of the trade, where the stop is at least one tick away
\* and the leverage at least 2; the default minimum quantity is exempt.
RiskWithinBudget ==
    stored # NoOrder /\ stored.qty > Risk.minQty /\ ordered.entry # Absent
    /\ Distance(ordered.entry, ordered.stop) >= Instrument.tick
    /\ Risk.leverage >= 2 =>
        100 * stored.qty * Distance(stored.entry, stored.stop) <= equity * Risk.pct

\* The instrument filters are applied twice, by the order manager and by the
\* client: the exchange gets what the order row says, and an order that passed
\* the first time is never refused the second time.
SentAsStored ==
    /\ sent # NoOrder => sent = stored
    /\ outcome # "order invalid"

\* An order risks what it was sized for and reaches the exchange as it stands
\* in the order row.
OrderIsSound == RiskWithinBudget /\ SentAsStored

=============================================================================
