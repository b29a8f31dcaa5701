------------------------- MODULE MCInsightPipeline -------------------------
(* Two windows, the first with one event more than it retains. *)
EXTENDS InsightPipeline, TLC

CONSTANTS w1, w2, e1, e2, e3, e4, k1, k2

MCWindows == {w1, w2}
MCRank == w1 :> 1 @@ w2 :> 2
MCEvents == {e1, e2, e3, e4}
MCSource == <<e1, e4, e2, e1, e3>>
MCWindowOf == e1 :> w1 @@ e2 :> w1 @@ e3 :> w1 @@ e4 :> w2
MCDeadline == w1 :> 1 @@ w2 :> 2
MCWorkers == {k1, k2}
=============================================================================
