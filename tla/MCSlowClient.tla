---------------------------- MODULE MCSlowClient ----------------------------
(* SlowClient with three workers, or two. *)
EXTENDS SlowClient

CONSTANTS w1, w2, w3

MCWorkers == {w1, w2, w3}
MCTwoWorkers == {w1, w2}
=============================================================================
