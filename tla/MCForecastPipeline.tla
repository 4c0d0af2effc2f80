------------------------- MODULE MCForecastPipeline -------------------------
(***************************************************************************)
(* Small instances of ForecastPipeline and the settings they start from.   *)
(***************************************************************************)
EXTENDS ForecastPipeline

Setting(auto, meta, guard, started, votes, refusals, faultBound) ==
    [auto |-> auto, meta |-> meta, guard |-> guard,
     started |-> started, votes |-> votes, refusals |-> refusals, faults |-> faultBound]

AnyVote == {"sure", "unsure", "neutral"}
AnyRefusal == {"transient", "permanent", "failed"}

Gated == {Setting(TRUE, "enforce", TRUE, {"scheduler", "robot"}, {"sure"}, {}, 0),
          Setting(TRUE, "shadow", FALSE, {"scheduler", "recalc"}, AnyVote, AnyRefusal, 2),
          Setting(TRUE, "enforce", FALSE, {"scheduler"}, AnyVote, AnyRefusal, 2),
          Setting(FALSE, "off", TRUE, {"scheduler"}, AnyVote, AnyRefusal, 2)}

=============================================================================
