---------------------------- MODULE MCDataFrame ----------------------------
(* A small instance of DataFrame for TLC.                                   *)
EXTENDS DataFrame

OnlyFirst == {1}
SmallLimits == {-1, 1, 2, 3, 5}

=============================================================================
