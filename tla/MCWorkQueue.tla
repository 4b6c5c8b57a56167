----------------------------- MODULE MCWorkQueue -----------------------------
(* A small instance of WorkQueue for TLC.                                   *)
EXTENDS WorkQueue

CONSTANTS w1, w2, i1, i2

TwoWorkers == {w1, w2}
TwoItems == {i1, i2}

=============================================================================
