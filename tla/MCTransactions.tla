--------------------------- MODULE MCTransactions ---------------------------
(* Small instances of Transactions for TLC.                                 *)
EXTENDS Transactions

OneName == {"a"}
AllFaults == FaultKinds
OnlyOpenResult == {"open_result"}

=============================================================================
