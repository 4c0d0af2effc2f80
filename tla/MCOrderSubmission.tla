-------------------------- MODULE MCOrderSubmission --------------------------
(***************************************************************************)
(* Instances of OrderSubmission for TLC.                                   *)
(***************************************************************************)
EXTENDS OrderSubmission, TLC

CONSTANTS c1, c2, t1, t2

\* One row, and one row for each of two tickers.
OneRow     == (c1 :> t1)
TwoTickers == (c1 :> t1) @@ (c2 :> t2)

\* The bracket ids are interchangeable: no run of an invariant tells them apart.
UidSymmetry == Permutations(Uid)
=============================================================================
