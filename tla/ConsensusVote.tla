---------------------------- MODULE ConsensusVote ----------------------------
(***************************************************************************)
(* calculate_consensus of core/consensus.py: the weighted vote over the    *)
(* accepted forecasts of one ticker, its filters and its price levels.     *)
(*                                                                         *)
(* A forecast is [model, side, weight, entry, stop, target, text]; the     *)
(* weight stands for confidence x win_rate x ema_weight, an integer.       *)
(* Votes are the places of forecasts in the sequence.  Confidence is in    *)
(* tenths of a percent (the code rounds it to one decimal), the levels of  *)
(* the consensus are in half price units (a median of an even number of    *)
(* integers is a multiple of one half), rounded to 0.0001 whatever the     *)
(* coin costs: `fine` is 0.0001 in half units, 1 where a price is a whole  *)
(* number of them.                                                         *)
(***************************************************************************)
EXTENDS SignalLevels, FiniteSets, FiniteSetsExt, Functions

\* _parse_price(exit_target or target_price): the text wins, by its first
\* positive number; a text without one is no target at all.
VoteTarget(f) ==
    LET positive == {i \in DOMAIN f.text : f.text[i] > 0}
    IN  IF f.text = <<>> THEN f.target
        ELSE IF positive = {} THEN Absent ELSE f.text[Min(positive)]

\* A directed forecast whose target is too far from the market is an anomaly.
Anomalous(f, price, settings) ==
    /\ price > 0 /\ f.side # "NEUTRAL" /\ VoteTarget(f) > 0
    /\ FarFrom(price, VoteTarget(f), settings.maxDeviation)

Counted(fs, price, settings) == {i \in DOMAIN fs : ~Anomalous(fs[i], price, settings)}

OfSide(fs, votes, side) == {i \in votes : fs[i].side = side}

WeightOf(fs, votes) == SumFunction([i \in votes |-> fs[i].weight])

\* The k-th smallest of the levels at some places.
Ranked(levels, places, k) ==
    CHOOSE x \in {levels[i] : i \in places} :
        /\ Cardinality({i \in places : levels[i] < x}) < k
        /\ k <= Cardinality({i \in places : levels[i] <= x})

\* statistics.median of the positive levels, doubled; 0 when there is none.
MedianTwice(levels) ==
    LET known == {i \in DOMAIN levels : levels[i] > 0}
        n     == Cardinality(known)
    IN  IF known = {} THEN Absent
        ELSE Ranked(levels, known, (n + 1) \div 2) + Ranked(levels, known, n \div 2 + 1)

MediansOf(fs, votes) ==
    [entry  |-> MedianTwice([i \in votes |-> fs[i].entry]),
     stop   |-> MedianTwice([i \in votes |-> fs[i].stop]),
     target |-> MedianTwice([i \in votes |-> VoteTarget(fs[i])])]

\* Mutant: to the multiple below, like a quantity.
LevelsBelow(fs, votes, fine) ==
    LET exact == MediansOf(fs, votes)
    IN  [k \in DOMAIN exact |-> (exact[k] \div fine) * fine]

\* Each median is rounded by itself; one that is rounded to 0 is a missing level.
LevelsOf(fs, votes, fine) ==
    LET exact == MediansOf(fs, votes) IN [k \in DOMAIN exact |-> RoundTo(exact[k], fine)]

\* The reward/risk of the medians times the confidence is below the minimum;
\* not tested when a level is missing or the stop is the entry.
LowExpectedR(levels, confidence, settings) ==
    LET risk   == Distance(levels.entry, levels.stop)
        reward == Distance(levels.target, levels.entry)
    IN  /\ levels.entry # Absent /\ levels.stop # Absent /\ levels.target # Absent
        /\ risk > 0
        /\ confidence * reward < 100 * settings.minExpectedR * risk

\* Ties go to LONG; no weight at all is NEUTRAL.
Leading(fs, kept) ==
    IF WeightOf(fs, kept) = 0 THEN "NEUTRAL"
    ELSE IF WeightOf(fs, OfSide(fs, kept, "LONG")) >= WeightOf(fs, OfSide(fs, kept, "SHORT"))
    THEN "LONG" ELSE "SHORT"

\* Mutant: neutral forecasts do not dilute the confidence.
ShareOfDirected(fs, kept, side) ==
    LET directed == {i \in kept : fs[i].side # "NEUTRAL"}
    IN  IF WeightOf(fs, directed) = 0 THEN 0
        ELSE RoundRatio(1000 * WeightOf(fs, OfSide(fs, kept, side)), WeightOf(fs, directed))

\* The confidence: the side's part of all the weight, neutral forecasts included.
Share(fs, kept, side) ==
    IF WeightOf(fs, kept) = 0 THEN 0
    ELSE RoundRatio(1000 * WeightOf(fs, OfSide(fs, kept, side)), WeightOf(fs, kept))

\* Mutant: always the SHORT side.
MinorityShort(fs, kept, lead) == WeightOf(fs, OfSide(fs, kept, "SHORT"))

Minority(fs, kept, lead) ==
    WeightOf(fs, OfSide(fs, kept, IF lead = "LONG" THEN "SHORT" ELSE "LONG"))

ModelsOf(fs, votes) == {fs[i].model : i \in votes}

\* The first filter that turns the leading side into NEUTRAL.
FilterReason(fs, kept, lead, settings, fine) ==
    LET winners == OfSide(fs, kept, lead)
        share   == Share(fs, kept, lead)
    IN  IF lead = "NEUTRAL" THEN "none"
        ELSE IF 100 * Minority(fs, kept, lead) > settings.disagreement * WeightOf(fs, kept)
             THEN "HIGH_DISAGREEMENT"
        ELSE IF share < settings.threshold THEN "LOW_CONFIDENCE"
        ELSE IF Cardinality(ModelsOf(fs, winners)) < settings.minModels
             THEN "INSUFFICIENT_AGREEMENT"
        ELSE IF LowExpectedR(LevelsOf(fs, winners, fine), share, settings) THEN "LOW_EXPECTED_R"
        ELSE "none"

\* calculate_consensus: the record, and which forecasts it counts as its own.
CalculateConsensus(fs, price, settings, fine) ==
    LET kept   == Counted(fs, price, settings)
        lead   == Leading(fs, kept)
        filter == FilterReason(fs, kept, lead, settings, fine)
        priced == lead # "NEUTRAL" /\ filter \in {"none", "LOW_EXPECTED_R"}
    IN  [signal     |-> IF filter = "none" THEN lead ELSE "NEUTRAL",
         confidence |-> IF filter \in {"none", "LOW_CONFIDENCE"} THEN Share(fs, kept, lead) ELSE 0,
         filter     |-> filter,
         included   |-> IF filter = "none" THEN kept ELSE {},
         levels     |-> IF priced THEN LevelsOf(fs, OfSide(fs, kept, lead), fine)
                        ELSE [entry |-> Absent, stop |-> Absent, target |-> Absent]]

=============================================================================
