---------------------------- MODULE MCEvaluation ----------------------------
(***************************************************************************)
(* A small instance of Evaluation and ProviderAccuracy: four days of two   *)
(* periods, three rows and three logs around an entry of 100, a few price  *)
(* paths and one provider.                                                 *)
(***************************************************************************)
EXTENDS ProviderAccuracy

Bar(open, high, low, close) == [open |-> open, high |-> high, low |-> low, close |-> close]
Quiet == Bar(100, 101, 99, 100)
Up    == Bar(100, 106, 100, 106)
Down  == Bar(100, 100, 95, 95)
Both  == Bar(101, 106, 95, 99)
High  == Bar(105, 106, 94, 104)

Path(bars) == [p \in 0..MaxNow |-> bars[(p % Len(bars)) + 1]]

MCMarkets == {Path(<<Quiet, Up>>), Path(<<Down, Quiet, Both>>), Path(<<High, Down, Quiet>>)}

Signal(side, entry, target, stop, made, horizon) ==
    [side |-> side, entry |-> entry, target |-> target, stop |-> stop,
     made |-> made, horizon |-> horizon]

MCRowOf(r) ==
    CASE r = "day"  -> Signal("LONG", 100, 105, 96, 0, 2)
      [] r = "days" -> Signal("SHORT", 0, 95, 105, 1, 2)
      [] r = "hour" -> Signal("SHORT", 100, 96, 104, 1, 1)

MCLogOf(l) ==
    CASE l = "near" -> Signal("LONG", 100, 105, 96, 1, 1)
      [] l = "far"  -> Signal("SHORT", 100, 95, 104, 0, 4)
      [] l = "flat" -> Signal("NEUTRAL", 100, 105, 96, 1, 2)

MCModelOf(l) == "sonar"
MCMethodOf(l) == "swing"

=============================================================================
