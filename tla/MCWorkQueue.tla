---------------------------- MODULE MCWorkQueue -----------------------------
(* WorkQueue with model values for the threads.                            *)
EXTENDS WorkQueue

CONSTANTS w1, w2, w3

TwoWorkers   == {w1, w2}
ThreeWorkers == {w1, w2, w3}
=============================================================================
