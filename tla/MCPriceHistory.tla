--------------------------- MODULE MCPriceHistory ---------------------------
(***************************************************************************)
(* A small instance of RobotRunner: the windows of the code, scaled down   *)
(* in their order (the backfill's least number below the fast average, the *)
(* update's window below the middle one and not below the fast one, the    *)
(* forecast's above the slow one), and a few price paths.                  *)
(***************************************************************************)
EXTENDS RobotRunner

\* A bar that opens where the one before closed; half of the way is early.
MCBar(from, to, volume) ==
    [open |-> from, close |-> to, volume |-> volume,
     high |-> (IF from > to THEN from ELSE to) + 1, low |-> (IF from > to THEN to ELSE from) - 1]

MCDay(from, to, volume) ==
    [whole |-> MCBar(from, to, 2 * volume), early |-> MCBar(from, (from + to) \div 2, volume)]

MCPath(steps) ==
    LET closes[d \in -1..MaxNow] ==
            IF d = -1 THEN 100 ELSE closes[d - 1] + steps[(d % Len(steps)) + 1]
    IN  [d \in 0..MaxNow |-> MCDay(closes[d - 1], closes[d], 1 + (d % 3))]

MCMarkets ==
    {MCPath(<<4, 2>>), MCPath(<<-4, -2, 2>>), MCPath(<<6, -6>>),
     MCPath(<<4, 4, 4, -8, -6>>), MCPath(<<-4, -2, -6, 18>>)}

=============================================================================
