----------------------------- MODULE MCSession -----------------------------
(* Small instances of Session for TLC.                                      *)
EXTENDS Session, TLC

CONSTANTS r1, r2

TwoResults == {r1, r2}

\* The results are interchangeable: Init and Next treat them alike.
Interchangeable == Permutations(Results)

Outages == {"outage", "late_use"}
Misuse == {"busy_call", "copy_error", "stale_bind"}
OnlyOutage == {"outage"}

=============================================================================
