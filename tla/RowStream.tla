------------------------------ MODULE RowStream ------------------------------
(***************************************************************************)
(* What a result set promises to R: the rows that the server makes arrive  *)
(* in order, each once; the result is complete only when the server is     *)
(* over and every row has been given; after an error nothing more comes.   *)
(***************************************************************************)
EXTENDS Integers, Sequences

VARIABLES
  made,     \* number of rows the server has made: row i is the i-th one
  over,     \* the server has made them all
  given,    \* the rows R was given
  status    \* "open", "complete", "failed"

vars == <<made, over, given, status>>

Init == made = 0 /\ over = TRUE /\ given = <<>> /\ status = "open"

\* A new execution; one of no parameter rows is over, and complete, at once.
Start ==
  /\ made' = 0 /\ given' = <<>>
  /\ over' \in BOOLEAN
  /\ \/ status' = "open"
     \/ status' = "complete" /\ over'

Make ==
  /\ ~over
  /\ \/ made' = made + 1 /\ UNCHANGED over
     \/ over' = TRUE /\ UNCHANGED made
  /\ UNCHANGED <<given, status>>

Give ==
  /\ status = "open"
  /\ \E n \in 0..(made - Len(given)) :
       /\ given' = given \o [i \in 1..n |-> Len(given) + i]
       /\ \/ status' = "open"
          \/ status' = "complete" /\ over /\ Len(given) + n = made
  /\ UNCHANGED <<made, over>>

Fail ==
  /\ status = "open" /\ status' = "failed"
  /\ UNCHANGED <<made, over, given>>

Next == Start \/ Make \/ Give \/ Fail

Spec == Init /\ [][Next]_vars

=============================================================================
