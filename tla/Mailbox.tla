------------------------------- MODULE Mailbox -------------------------------
(***************************************************************************)
(* What postgresWaitForNotify() promises: the notifications that a         *)
(* listening connection is sent wait in order, and each is given out at    *)
(* most once.  Only the loss of the backend takes notifications away.      *)
(***************************************************************************)
EXTENDS Naturals, Sequences

VARIABLES
  sent,   \* how many notifications there have been; they are numbered
  box,    \* those that have not been given out
  got,    \* the last one that R was given
  up      \* the backend lives

vars == <<sent, box, got, up>>

Init == sent = 0 /\ box = <<>> /\ got = 0 /\ up \in BOOLEAN

Put ==
  /\ up
  /\ sent' = sent + 1 /\ box' = Append(box, sent + 1)
  /\ UNCHANGED <<got, up>>

Take ==
  /\ box # <<>>
  /\ got' = Head(box) /\ box' = Tail(box)
  /\ UNCHANGED <<sent, up>>

\* What the backend has not sent, or the network not delivered, is gone.
Break ==
  /\ up /\ ~up'
  /\ \E k \in 0..Len(box) : box' = SubSeq(box, 1, k)
  /\ UNCHANGED <<sent, got>>

\* Another backend, or none: nothing is left of the old one.
Renew == ~up /\ up' \in BOOLEAN /\ box' = <<>> /\ UNCHANGED <<sent, got>>

Next == Put \/ Take \/ Break \/ Renew

Spec == Init /\ [][Next]_vars

=============================================================================
