---------------------------- MODULE MCSignalPath ----------------------------
(***************************************************************************)
(* A small instance of SignalPath: three calls to two models around a     *)
(* market price of 100.                                                    *)
(***************************************************************************)
EXTENDS ManualOrder

MCCalls == <<"a", "b", "a">>

Ans(side, weight, entry, stop, target, text) ==
    [model |-> "", side |-> side, weight |-> weight, entry |-> entry, stop |-> stop,
     target |-> target, text |-> text]

\* The levels on the losing side, at the distances where the code's limits of
\* 5, 10 and 15 percent bite, reflected for SHORT; 0 is a missing level.
At(side, d) == IF side = "LONG" THEN 100 + d ELSE 100 - d

MCAnswers ==
    {Ans("NEUTRAL", 2, 0, 0, 0, <<>>)}
    \cup {Ans(s, w, At(s, 0), At(s, d[1]), At(s, d[2]), <<>>) :
             s \in {"LONG", "SHORT"}, w \in {1, 2}, d \in {<<-2, 4>>, <<-2, 10>>, <<-9, 10>>, <<-9, 15>>}}
    \cup {Ans(s, 1, At(s, entry), At(s, -7), At(s, target), <<>>) :
             s \in {"LONG", "SHORT"}, entry \in {-3, 2, -8}, target \in {5, 30}}
    \cup UNION {{Ans(s, 1, 0, 0, 0, text) : text \in {<<>>, <<At(s, 8)>>, <<At(s, 8), 3>>}} :
             s \in {"LONG", "SHORT"}}
    \cup {Ans(s, 2, 0, At(s, stop), At(s, -6), <<>>) : s \in {"LONG", "SHORT"}, stop \in {-3, 4}}
    \cup UNION {{Ans(s, 2, 0, At(s, -3), At(s, 8), text) : text \in {<<At(s, -4)>>, <<0>>}} :
             s \in {"LONG", "SHORT"}}

MCSettings == [threshold |-> 550, disagreement |-> 40, minModels |-> 2,
               minExpectedR |-> 5, maxDeviation |-> 15]
\* No overrides with and without an ATR, and a regime where a voice is enough
\* once it carries three quarters of the weight.
MCOverrides == [other |-> <<>>, RANGING |-> [threshold |-> 750, minModels |-> 0, minExpectedR |-> 0]]
\* The price is 1 dollar, 0.1, 0.01 and 0.001 dollars.
MCSituations ==
    {[atr |-> 0, regime |-> "other", cent |-> 1, fine |-> 1],
     [atr |-> 3, regime |-> "other", cent |-> 10, fine |-> 1],
     [atr |-> 0, regime |-> "RANGING", cent |-> 100, fine |-> 2],
     [atr |-> 3, regime |-> "RANGING", cent |-> 1000, fine |-> 20]}
MCRisk == [pct |-> 1, leverage |-> 3, minQty |-> 1]
\* The operator keeps the consensus's levels, moves the stop (to either side) or
\* the target, and sends a market order or a limit at or below the market; the
\* capital is known, unknown, too small, cached, overridden; its sector is free,
\* heavy or too heavy.
Wallet(e, a) == [equity |-> e, available |-> a]
Kept == [entry |-> 0, stop |-> 0, target |-> 0, mode |-> "capital", override |-> 0,
         first |-> Wallet(3000000, 3000000), second |-> NoWallet, cached |-> NoCapital,
         exposure |-> 0, close |-> 200, rejected |-> FALSE]
MCRequests ==
    {[Kept EXCEPT !.entry = e] : e \in {0, 200, 198}}
    \cup {[Kept EXCEPT !.entry = 198, !.stop = s] : s \in {191, 204}}
    \cup {[Kept EXCEPT !.target = 233, !.close = 0],
          [Kept EXCEPT !.first = Wallet(400000, 0)],
          [Kept EXCEPT !.first = NoWallet],
          [Kept EXCEPT !.first = NoWallet, !.cached = 400000],
          [Kept EXCEPT !.override = 900000, !.exposure = 180000],
          [Kept EXCEPT !.override = 900000, !.exposure = 270000],
          [Kept EXCEPT !.mode = "kelly"],
          [Kept EXCEPT !.mode = "portfolio", !.first = Wallet(3000000, 400000),
                       !.second = Wallet(3000000, 400000)],
          [Kept EXCEPT !.mode = "portfolio", !.first = Wallet(3000000, 0)],
          [Kept EXCEPT !.rejected = TRUE]}
MCSizer == [riskPct |-> 1, maxPct |-> 5, softPct |-> 15, hardPct |-> 25, cut |-> 2]
MCInstrument == [qtyStep |-> 10, minQty |-> 10, maxQty |-> 95, tick |-> 4]

=============================================================================
