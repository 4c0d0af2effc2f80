--------------------------- MODULE PositionSizing ---------------------------
(***************************************************************************)
(* The numbers of an order: _calculate_position_size and                   *)
(* _validate_slippage of core/bybit_order_manager.py and the instrument    *)
(* filters of core/bybit_instrument.py.                                    *)
(*                                                                         *)
(* Quantities are integers in thousandths of a lot step's unit: a lot step *)
(* is qtyStep of them.  Prices and the tick are integers in half price     *)
(* units, as ConsensusVote leaves them.                                    *)
(***************************************************************************)
EXTENDS ConsensusVote

\* _calculate_position_size: risk over stop distance over leverage, at least
\* minQty.  Without an entry price the caller takes one a percent above the
\* stop.  The quotient is kept exact as <<numerator, denominator>>.
PositionSize(equity, entry, stop, risk) ==
    LET distance == Distance(entry, stop)
        num == equity * risk.pct
        den == CASE entry = Absent                 -> stop * risk.leverage
                 [] entry # Absent /\ distance = 0 -> entry * risk.leverage
                 [] OTHER                          -> 100 * distance * risk.leverage
    IN  IF num < risk.minQty * den THEN <<risk.minQty, 1>> ELSE <<num, den>>

\* Mutant: up to the next whole number of steps.
QuantizeQtyUp(size, qtyStep) == ((size[1] \div (size[2] * qtyStep)) + 1) * qtyStep

\* quantize_qty: down to a whole number of steps.
QuantizeQty(size, qtyStep) == (size[1] \div (size[2] * qtyStep)) * qtyStep

\* quantize_price: to the nearest tick; a missing price stays missing.
QuantizePrice(price, tick) == RoundTo(price, tick)

\* Mutant: the maximum is not snapped to the lot step.
NormalizeOrderToMax(size, levels, instrument) ==
    LET floor == QuantizeQty(size, instrument.qtyStep)
    IN  [qty    |-> IF floor < instrument.minQty THEN 0
                    ELSE IF instrument.maxQty > 0 /\ floor > instrument.maxQty
                    THEN instrument.maxQty ELSE floor,
         entry  |-> QuantizePrice(levels.entry, instrument.tick),
         stop   |-> QuantizePrice(levels.stop, instrument.tick),
         target |-> QuantizePrice(levels.target, instrument.tick)]

\* normalize_order_params; qty 0 stands for the ValueError below the minimum.
NormalizeOrder(size, levels, instrument) ==
    LET floor == QuantizeQty(size, instrument.qtyStep)
        qty   == IF instrument.maxQty > 0 /\ floor > instrument.maxQty
                 THEN QuantizeQty(<<instrument.maxQty, 1>>, instrument.qtyStep) ELSE floor
    IN  [qty    |-> IF floor < instrument.minQty THEN 0 ELSE qty,
         entry  |-> QuantizePrice(levels.entry, instrument.tick),
         stop   |-> QuantizePrice(levels.stop, instrument.tick),
         target |-> QuantizePrice(levels.target, instrument.tick)]

\* _validate_slippage: the middle of the book within the tolerance (tenths of
\* a percent) of the entry price.
SlippageOk(entry, middle, tolerance) == 1000 * Distance(middle, entry) <= tolerance * entry

=============================================================================
