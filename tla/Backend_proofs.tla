--------------------------- MODULE Backend_proofs ---------------------------
(***************************************************************************)
(* dbConnect() is all or nothing, for any number of notifications, any     *)
(* sets of time zones and any order of outages and statements.             *)
(*                                                                         *)
(* ConnectIsWhole is about the connection that dbConnect() returns; what   *)
(* makes it inductive is Progress, which says what each of its statements  *)
(* has achieved, and BadIsKnown: once R holds the connection, libpq never  *)
(* finds it broken without an error that is raised, or hidden where the    *)
(* package hides it.                                                       *)
(*                                                                         *)
(* That the mail is what Mailbox promises rests on Mail alone: a broken    *)
(* connection has no backend that would still send.                        *)
(*                                                                         *)
(* The last section is about many such connections side by side, those of  *)
(* the work queue.                                                         *)
(***************************************************************************)
EXTENDS Backend, WorkQueue, SequenceTheorems, FiniteSetTheorems, TLAPS

Matches == slot = sess.zone \/ (slot = Local /\ sess.zone \notin RZones)

Progress ==
  /\ setup = "start" => ~link
  /\ setup \in {"created", "guarded", "dated", "zoned"} => conn = "ok"
  /\ setup \in {"dated", "zoned"} => sess.iso
  /\ setup = "zoned" => Matches
  /\ setup = "failed" => conn = "finished" /\ ~link

BadIsKnown ==
  setup = "open" /\ ~LossIsKnown => conn = "ok" /\ sess.iso /\ Matches

Usable ==
  /\ sess \in Sessions
  /\ wait = "select" => setup = "open"

Whole == Usable /\ Progress /\ BadIsKnown

LEMMA WholeInit == Init => Whole
  BY BackendAssumption
     DEF Init, Whole, Usable, Progress, BadIsKnown, Fresh, Sessions

\* The steps of dbConnect().
LEMMA WholeConnecting ==
  ASSUME Whole, Connecting
  PROVE  Whole'
<1>1. ASSUME Create PROVE Whole'
  BY <1>1 DEF Create, Whole, Usable, Progress, BadIsKnown
<1>2. ASSUME Guard PROVE Whole'
  BY <1>2 DEF Guard, Whole, Usable, Progress, BadIsKnown
<1>3. ASSUME ConnectFails PROVE Whole'
  BY <1>3 DEF ConnectFails, Whole, Usable, Progress, BadIsKnown
<1>4. ASSUME Abandon PROVE Whole'
  BY <1>4 DEF Abandon, Whole, Usable, Progress, BadIsKnown
<1>5. ASSUME Collect PROVE Whole'
  BY <1>5 DEF Collect, connect, Whole, Usable, Progress, BadIsKnown
<1>6. ASSUME SetDatestyle PROVE Whole'
  BY <1>6 DEF SetDatestyle, Sessions, Whole, Usable, Progress, BadIsKnown
<1>7. ASSUME SetTimezone PROVE Whole'
  <2>1. sess'.iso = sess.iso /\ Usable'
    BY <1>7, BackendAssumption DEF SetTimezone, Whole, Usable, Sessions
  <2>2. slot' = CheckTz(sess'.zone)
    BY <1>7 DEF SetTimezone
  <2>3. Matches'
    BY <2>2 DEF CheckTz, Matches
  <2> QED
    BY <1>7, <2>1, <2>3 DEF SetTimezone, Whole, Progress, BadIsKnown
<1>8. ASSUME TypeNames PROVE Whole'
  BY <1>8 DEF TypeNames, Whole, Usable, Progress, BadIsKnown, Matches, LossIsKnown
<1> QED
  BY <1>1, <1>2, <1>3, <1>4, <1>5, <1>6, <1>7, <1>8 DEF Connecting

\* A statement touches neither the settings nor, without saying so, the
\* state of the connection.
Quiet == conn' = "ok" /\ sess'.iso = sess.iso /\ sess'.zone = sess.zone
           /\ sess' \in Sessions
           /\ told' = told
Renewed == conn = "bad" /\ sess' \in Sessions
           /\ told' = told

LEMMA WholeStatement ==
  ASSUME Whole, Idle, setup' = setup, slot' = slot, wait' = wait, hidden' = hidden,
         Quiet \/ StatementFails \/ Renewed
  PROVE  Whole'
<1>1. ASSUME Quiet PROVE Whole'
  BY <1>1 DEF Quiet, Idle, Whole, Usable, Progress, BadIsKnown, Matches, LossIsKnown
<1>2. ASSUME StatementFails PROVE Whole'
  BY <1>2 DEF StatementFails, Idle, Whole, Usable, Progress, BadIsKnown, Matches, LossIsKnown
<1>3. ASSUME Renewed PROVE Whole'
  BY <1>3 DEF Renewed, Idle, Whole, Usable, Progress, BadIsKnown, Matches, LossIsKnown
<1> QED
  BY <1>1, <1>2, <1>3

LEMMA FreshType ==
  Fresh \in Sessions
  BY BackendAssumption DEF Fresh, Sessions

LEMMA WholeUsing ==
  ASSUME Whole, Using
  PROVE  Whole'
<1>1. ASSUME Listen PROVE Whole'
  <2>1. Quiet \/ StatementFails \/ Renewed
    BY <1>1, FreshType
       DEF Listen, Execute, StatementRuns, OnNewBackend, Quiet, Renewed, Whole, Usable, Sessions
  <2> QED
    BY <1>1, <2>1, WholeStatement DEF Listen, Execute, connect
<1>2. ASSUME Begin PROVE Whole'
  <2>1. Quiet \/ StatementFails \/ Renewed
    BY <1>2, FreshType
       DEF Begin, Execute, StatementRuns, OnNewBackend, Quiet, Renewed, Whole, Usable, Sessions
  <2> QED
    BY <1>2, <2>1, WholeStatement DEF Begin, Execute, connect
<1>3. ASSUME End PROVE Whole'
  <2>1. Quiet \/ StatementFails \/ Renewed
    BY <1>3, FreshType
       DEF End, Execute, StatementRuns, OnNewBackend, Quiet, Renewed, Whole, Usable, Sessions
  <2> QED
    BY <1>3, <2>1, WholeStatement DEF End, Execute, connect
<1>4. ASSUME OpenResult PROVE Whole'
  <2>1. Quiet \/ StatementFails \/ Renewed
    BY <1>4, FreshType DEF OpenResult, OnNewBackend, Quiet, Renewed, Whole, Usable
  <2> QED
    BY <1>4, <2>1, WholeStatement DEF OpenResult, connect
<1>5. ASSUME ReadRows PROVE Whole'
  <2>1. Quiet \/ StatementFails \/ Renewed
    BY <1>5, FreshType DEF ReadRows, StatementRuns, Quiet, Renewed, Whole, Usable
  <2> QED
    BY <1>5, <2>1, WholeStatement DEF ReadRows, connect
<1>6. ASSUME ClearResult PROVE Whole'
  <2>1. UNCHANGED <<setup, slot, wait>> /\ Idle
    BY <1>6 DEF ClearResult, connect
  <2>2. CASE StatementRuns(sess) /\ UNCHANGED hidden
    <3>1. Quiet
      BY <2>2 DEF StatementRuns, Quiet, Whole, Usable
    <3> QED
      BY <2>1, <2>2, <3>1, WholeStatement
  <2>3. CASE conn = "ok" /\ hidden' = hidden \cup {"clear"} /\ UNCHANGED <<link, sess, held, told>>
    <3>1. hidden' # {}
      BY <2>3
    <3> QED
      BY <2>1, <2>3, <3>1
         DEF Idle, Whole, Usable, Progress, BadIsKnown, Matches, LossIsKnown
  <2>4. CASE OnNewBackend(Fresh) /\ UNCHANGED hidden
    <3>1. Renewed
      BY <2>4, FreshType DEF OnNewBackend, Renewed
    <3> QED
      BY <2>1, <2>4, <3>1, WholeStatement
  <2>5. CASE conn = "bad" /\ UNCHANGED <<link, conn, sess, mail, told, hidden>>
    <3>1. Renewed
      BY <2>5 DEF Renewed, Whole, Usable
    <3> QED
      BY <2>1, <2>5, <3>1, WholeStatement
  <2> QED
    BY <1>6, <2>2, <2>3, <2>4, <2>5 DEF ClearResult
<1>7. ASSUME Disconnect PROVE Whole'
  BY <1>7 DEF Disconnect, Idle, Whole, Usable, Progress, BadIsKnown
<1> QED
  BY <1>1, <1>2, <1>3, <1>4, <1>5, <1>6, <1>7 DEF Using

\* postgresWaitForNotify() reports whatever loss it finds.
LEMMA WholeWaiting ==
  ASSUME Whole, Waiting
  PROVE  Whole'
<1>1. setup = "open" /\ UNCHANGED <<setup, slot, sess, hidden>>
  BY DEF Waiting, WaitForNotify, Selected, Interrupted, Idle, Whole, Usable, connect, history
<1>2. (conn' = conn /\ told' = told) \/ (conn' = "bad" /\ told' = TRUE)
  BY DEF Waiting, WaitForNotify, Selected, Interrupted, ConsumeFails, GiveOne, GiveNone,
         history
<1> QED
  BY <1>1, <1>2 DEF Whole, Usable, Progress, BadIsKnown, Matches, LossIsKnown

LEMMA WholeEnvironment ==
  ASSUME Whole, Environment
  PROVE  Whole'
<1>1. \/ UNCHANGED <<conn, setup, slot, sess, rows, wait, told, hidden>> /\ (link' => link)
      \/ ServerToggles
  BY DEF Environment, Notify, Deliver, OtherMessage, BackendDies, ServerToggles,
         connect, history, mail
<1>2. UNCHANGED <<conn, setup, slot, sess, rows, wait, told, hidden>> /\ (link' => link)
  BY <1>1 DEF ServerToggles, connect, history
<1> QED
  BY <1>2 DEF Whole, Usable, Progress, BadIsKnown, Matches, LossIsKnown

LEMMA WholeStep == Whole /\ [Next]_vars => Whole'
<1>1. ASSUME Whole, UNCHANGED vars PROVE Whole'
  BY <1>1 DEF vars, connect, history, Whole, Usable, Progress, BadIsKnown, Matches, LossIsKnown
<1> QED
  BY <1>1, WholeConnecting, WholeUsing, WholeWaiting, WholeEnvironment DEF Next

LEMMA AlwaysWhole == Spec => []Whole
  BY WholeInit, WholeStep, PTL DEF Spec

\* The settings are those of a session in every step by Whole; the other
\* variables are given values of their types.
LEMMA TypeStep ==
  ASSUME TypeOK, sess' \in Sessions, [Next]_vars
  PROVE  TypeOK'
<1> USE DEF TypeOK, Stages, mail, arrived, Emptied, Consume
<1>1. CASE Connecting
  <2>1. CASE Create \/ Guard \/ ConnectFails \/ Abandon \/ Collect \/ SetDatestyle
    BY <2>1 DEF Create, Guard, ConnectFails, Abandon, Collect, SetDatestyle, connect, history
  <2>2. CASE SetTimezone
    <3>1. slot' \in RZones \cup {Local}
      BY <2>2 DEF SetTimezone, CheckTz
    <3> QED
      BY <2>2, <3>1 DEF SetTimezone, history
  <2>3. CASE TypeNames
    BY <2>3 DEF TypeNames
  <2> QED
    BY <1>1, <2>1, <2>2, <2>3 DEF Connecting
<1>2. CASE Using
  <2>1. CASE Listen \/ Begin \/ End
    BY <2>1 DEF Listen, Begin, End, Execute, StatementRuns, StatementFails, OnNewBackend,
                connect
  <2>2. CASE OpenResult
    BY <2>2 DEF OpenResult, StatementFails, OnNewBackend, connect
  <2>3. CASE ReadRows
    BY <2>3 DEF ReadRows, StatementRuns, StatementFails, connect
  <2>4. CASE ClearResult
    BY <2>4 DEF ClearResult, StatementRuns, OnNewBackend, connect
  <2>5. CASE Disconnect
    BY <2>5 DEF Disconnect, history
  <2> QED
    BY <1>2, <2>1, <2>2, <2>3, <2>4, <2>5 DEF Using
<1>3. CASE Waiting
  <2> DEFINE given == /\ conn' \in {conn, "bad"} /\ told' \in {told, TRUE}
                      /\ wait' \in {"idle", "select"} /\ noise' \in {noise, FALSE}
  <2>a. ASSUME NEW next \in {"idle", "select"}, ConsumeFails \/ GiveOne \/ GiveNone(next)
        PROVE  given
    BY <2>a DEF ConsumeFails, GiveOne, GiveNone
  <2>b. given /\ UNCHANGED <<server, link, connect, sess, rows, sent, hidden>> => TypeOK'
    BY DEF connect
  <2> HIDE DEF given
  <2>1. CASE WaitForNotify
    BY <2>1, <2>a, <2>b DEF WaitForNotify
  <2>2. CASE Selected
    BY <2>2, <2>a, <2>b DEF Selected
  <2>3. CASE Interrupted
    BY <2>3 DEF Interrupted, connect, history
  <2> QED
    BY <1>3, <2>1, <2>2, <2>3 DEF Waiting
<1>4. CASE Environment
  <2>1. CASE Notify
    <3>1. sent' \in 0..MaxSent
      BY <2>1, BackendAssumption DEF Notify
    <3> QED
      BY <2>1, <3>1 DEF Notify, connect
  <2>2. CASE Deliver
    BY <2>2 DEF Deliver, connect, history
  <2>3. CASE BackendDies
    <3>1. noise' = noise \/ noise' = FALSE
      BY <2>3 DEF BackendDies
    <3>2. link' = FALSE /\ UNCHANGED <<server, conn, connect, sess, rows, wait, history>>
      BY <2>3 DEF BackendDies
    <3> QED
      BY <3>1, <3>2 DEF connect, history
  <2>4. CASE OtherMessage
    BY <2>4 DEF OtherMessage, connect, history
  <2>5. CASE ServerToggles
    BY <2>5 DEF ServerToggles, connect, history
  <2> QED
    BY <1>4, <2>1, <2>2, <2>3, <2>4, <2>5 DEF Environment
<1>5. CASE UNCHANGED vars
  BY <1>5 DEF vars, connect, history
<1> QED
  BY <1>1, <1>2, <1>3, <1>4, <1>5 DEF Next

\* Every variable of Backend keeps its type, whatever is lost.
THEOREM TypeCorrect == Spec => []TypeOK
<1>1. Init => TypeOK
  <2>1. Fresh \in Sessions /\ 0 \in 0..MaxSent
    BY BackendAssumption DEF Fresh, Sessions
  <2> QED
    BY <2>1 DEF Init, TypeOK, Stages
<1>2. Whole' => sess' \in Sessions
  BY DEF Whole, Usable
<1>3. TypeOK /\ Whole' /\ [Next]_vars => TypeOK'
  BY <1>2, TypeStep
<1> QED
  BY <1>1, <1>3, AlwaysWhole, PTL DEF Spec

\* For any zones, notifications, statements and outages: dbConnect() either
\* fails and closes the connection, or returns one with the settings that the
\* parsers of dates and times rely on, until a loss of the backend is reported
\* or hidden.
THEOREM ConnectionIsWhole == Spec => []ConnectIsWhole
<1>1. Whole => ConnectIsWhole
  BY DEF Whole, Progress, BadIsKnown, Matches, ConnectIsWhole
<1> QED
  BY <1>1, AlwaysWhole, PTL

-----------------------------------------------------------------------------
(* The mail.                                                               *)

\* What Mailbox calls the box.
Box == Parsed \o held

Mail ==
  /\ held \in Seq(Nat) /\ pipe \in Seq(Nat) /\ inbox \in Seq(Nat)
  /\ sent \in Nat /\ link \in BOOLEAN
  /\ conn = "bad" => ~link
  /\ setup = "start" => ~link /\ held = <<>> /\ pipe = <<>> /\ inbox = <<>>

Allowed == Promise!Next \/ UNCHANGED Promise!vars

LEMMA PromiseIs ==
  /\ Promise!vars = <<sent, Box, heard, link>>
  /\ Promise!Put = (link /\ sent' = sent + 1 /\ Box' = Append(Box, sent + 1)
                     /\ heard' = heard /\ link' = link)
  /\ Promise!Take = (Box # <<>> /\ heard' = Head(Box) /\ Box' = Tail(Box)
                      /\ sent' = sent /\ link' = link)
  /\ Promise!Break = (link /\ ~link' /\ (\E k \in 0..Len(Box) : Box' = SubSeq(Box, 1, k))
                       /\ sent' = sent /\ heard' = heard)
  /\ Promise!Renew = (~link /\ link' \in BOOLEAN /\ Box' = <<>>
                       /\ sent' = sent /\ heard' = heard)
BY DEF Promise!vars, Promise!Put, Promise!Take, Promise!Break, Promise!Renew, Box

\* Moving a notification on does not change the box.
LEMMA Boxes ==
  ASSUME Mail
  PROVE  /\ Parsed \in Seq(Nat) /\ Box \in Seq(Nat)
         /\ <<>> \in Seq(Nat)
         /\ Box = Parsed \o held /\ Parsed = inbox \o pipe
         /\ \A s \in Seq(Nat) : s \o <<>> = s /\ <<>> \o s = s
<1>1. Parsed \in Seq(Nat)
  BY ConcatProperties DEF Mail, Parsed
<1>2. Box \in Seq(Nat)
  BY <1>1, ConcatProperties DEF Mail, Box
<1>3. \A s \in Seq(Nat) : s \o <<>> = s /\ <<>> \o s = s
  BY ConcatEmptySeq
<1> QED
  BY <1>1, <1>2, <1>3, EmptySeq DEF Box, Parsed

LEMMA TailOf ==
  ASSUME NEW s \in Seq(Nat), NEW t \in Seq(Nat), s # <<>>
  PROVE  /\ s \o t # <<>> /\ Head(s \o t) = Head(s) /\ Tail(s \o t) = Tail(s) \o t
         /\ Tail(s) \in Seq(Nat) /\ Head(s) \in Nat
<1>1. Len(s) \in Nat \ {0} /\ Len(t) \in Nat
  BY EmptySeq, LenProperties
<1>2. /\ s \o t \in Seq(Nat) /\ Len(s \o t) = Len(s) + Len(t)
      /\ \A i \in 1..(Len(s) + Len(t)) : (s \o t)[i] = IF i <= Len(s) THEN s[i] ELSE t[i - Len(s)]
  BY ConcatProperties
<1>3. s \o t # <<>>
  BY <1>1, <1>2, EmptySeq
<1>4. /\ Tail(s) \in Seq(Nat) /\ Head(s) \in Nat /\ Len(Tail(s)) = Len(s) - 1
      /\ \A i \in 1..Len(Tail(s)) : Tail(s)[i] = s[i + 1]
  BY HeadTailProperties
<1>5. /\ Tail(s \o t) \in Seq(Nat) /\ Len(Tail(s \o t)) = Len(s \o t) - 1
      /\ \A i \in 1..Len(Tail(s \o t)) : Tail(s \o t)[i] = (s \o t)[i + 1]
  BY <1>2, <1>3, HeadTailProperties
<1>6. /\ Tail(s) \o t \in Seq(Nat) /\ Len(Tail(s) \o t) = Len(Tail(s)) + Len(t)
      /\ \A i \in 1..(Len(Tail(s)) + Len(t)) :
           (Tail(s) \o t)[i] = IF i <= Len(Tail(s)) THEN Tail(s)[i] ELSE t[i - Len(Tail(s))]
  BY <1>4, ConcatProperties
<1>7. Tail(s \o t) = Tail(s) \o t
  <2> DEFINE a == Tail(s \o t)
             b == Tail(s) \o t
  <2>1. Len(a) = Len(b) /\ Len(a) = Len(s) + Len(t) - 1
    BY <1>1, <1>2, <1>4, <1>5, <1>6
  <2>2. ASSUME NEW i \in 1..Len(a) PROVE a[i] = b[i]
    <3>1. a[i] = (s \o t)[i + 1] /\ i + 1 \in 1..(Len(s) + Len(t)) /\ i \in Nat /\ i >= 1
      BY <1>1, <1>5, <2>1
    <3>2. b[i] = IF i <= Len(s) - 1 THEN Tail(s)[i] ELSE t[i - (Len(s) - 1)]
      BY <1>1, <1>4, <1>6, <2>1
    <3>3. i <= Len(s) - 1 => Tail(s)[i] = s[i + 1]
      BY <1>1, <1>4, <3>1
    <3>4. a[i] = IF i + 1 <= Len(s) THEN s[i + 1] ELSE t[(i + 1) - Len(s)]
      BY <1>2, <3>1
    <3>5. (i + 1) - Len(s) = i - (Len(s) - 1) /\ (i + 1 <= Len(s) <=> i <= Len(s) - 1)
      BY <1>1, <3>1
    <3> QED
      BY <3>2, <3>3, <3>4, <3>5
  <2> HIDE DEF a, b
  <2>3. a \in Seq(Nat) /\ b \in Seq(Nat)
    BY <1>5, <1>6 DEF a, b
  <2>4. a = b
    BY <2>1, <2>2, <2>3, SeqEqual
  <2> QED
    BY <2>4 DEF a, b
<1>8. Head(s \o t) = Head(s)
  BY <1>1, <1>2, <1>3
<1> QED
  BY <1>3, <1>4, <1>7, <1>8

\* Appending at the far end.
LEMMA AppendOf ==
  ASSUME NEW s \in Seq(Nat), NEW t \in Seq(Nat), NEW e \in Nat
  PROVE  /\ Append(s \o t, e) = s \o Append(t, e) /\ Append(t, e) \in Seq(Nat)
<1>1. <<e>> \in Seq(Nat) /\ s \o t \in Seq(Nat) /\ Append(t, e) \in Seq(Nat)
  BY ConcatProperties, AppendProperties
<1>2. Append(s \o t, e) = (s \o t) \o <<e>> /\ Append(t, e) = t \o <<e>>
  BY <1>1, AppendIsConcat
<1> QED
  BY <1>1, <1>2, ConcatAssociative

LEMMA Associative ==
  ASSUME NEW s \in Seq(Nat), NEW t \in Seq(Nat), NEW u \in Seq(Nat)
  PROVE  (s \o t) \o u = s \o (t \o u) /\ s \o t \in Seq(Nat)
<1>1. s \o t \in Seq(Nat)
  BY ConcatProperties
<1>2. (s \o t) \o u = s \o (t \o u)
  BY ConcatAssociative
<1> QED
  BY <1>1, <1>2

\* The whole of a sequence and nothing of it are prefixes.
LEMMA Prefixes ==
  ASSUME NEW s \in Seq(Nat)
  PROVE  /\ \E k \in 0..Len(s) : s = SubSeq(s, 1, k)
         /\ \E k \in 0..Len(s) : <<>> = SubSeq(s, 1, k)
<1>1. Len(s) \in Nat /\ Len(s) \in 0..Len(s) /\ 0 \in 0..Len(s)
  BY LenProperties
<1>2. s = SubSeq(s, 1, Len(s)) /\ <<>> = SubSeq(s, 1, 0)
  BY SubSeqFull, SubSeqEmpty
<1> QED
  BY <1>1, <1>2

\* What is left when the backend dies is the front of the box.
LEMMA Fronts ==
  ASSUME Mail, NEW b \in {Parsed, inbox}
  PROVE  \E k \in 0..Len(Box) : b = SubSeq(Box, 1, k)
<1>1. ASSUME NEW s \in Seq(Nat), NEW t \in Seq(Nat)
      PROVE  Len(s) \in 0..Len(s \o t) /\ s = SubSeq(s \o t, 1, Len(s))
  <2>1. Len(s) \in Nat /\ Len(t) \in Nat /\ Len(s \o t) = Len(s) + Len(t)
    BY LenProperties, ConcatProperties
  <2>2. CASE s = <<>>
    BY <2>1, <2>2, EmptySeq, SubSeqEmpty
  <2>3. CASE s # <<>>
    <3>1. Len(s) \in 1..Len(s) /\ 1 \in 1..Len(s)
      BY <2>1, <2>3, EmptySeq
    <3>2. SubSeq(s \o t, 1, Len(s)) = SubSeq(s, 1, Len(s))
      BY <3>1, SubSeqOfConcat1
    <3> QED
      BY <2>1, <3>2, SubSeqFull
  <2> QED
    BY <2>2, <2>3
<1>2. CASE b = Parsed
  <2>1. Parsed \in Seq(Nat) /\ held \in Seq(Nat) /\ Box = Parsed \o held
    BY Boxes DEF Mail
  <2> QED
    BY <1>1, <1>2, <2>1
<1>3. CASE b = inbox
  <2>1. pipe \o held \in Seq(Nat) /\ Box = inbox \o (pipe \o held)
    <3>1. inbox \in Seq(Nat) /\ pipe \in Seq(Nat) /\ held \in Seq(Nat)
      BY DEF Mail
    <3>2. Box = (inbox \o pipe) \o held
      BY DEF Box, Parsed
    <3> QED
      BY <3>1, <3>2, Associative
  <2> QED
    BY <1>1, <1>3, <2>1 DEF Mail
<1> QED
  BY <1>2, <1>3

\* What is in the mail has moved on, or lies where it was.
Seqs == held \in Seq(Nat) /\ pipe \in Seq(Nat) /\ inbox \in Seq(Nat)
Moved == Box' = Box /\ Seqs'
Lost == Box' = <<>> /\ Seqs'

LEMMA MailKept ==
  ASSUME Mail, UNCHANGED <<held, pipe, inbox>>
  PROVE  Moved
BY DEF Mail, Moved, Seqs, Box, Parsed

LEMMA ParsedMoves ==
  ASSUME Mail, Emptied, inbox' = Parsed, held' = held
  PROVE  Moved
<1>1. pipe' = <<>> /\ Parsed' = inbox' \o <<>>
  BY DEF Emptied, Parsed
<1>2. Parsed' = Parsed
  BY <1>1, Boxes
<1> QED
  BY <1>1, <1>2, Boxes DEF Mail, Moved, Seqs, Box

LEMMA Cleared ==
  ASSUME held' = <<>>, Emptied, inbox' = <<>>
  PROVE  Lost
<1>1. <<>> \in Seq(Nat) /\ <<>> \o <<>> = <<>>
  BY EmptySeq, ConcatEmptySeq
<1> QED
  BY <1>1 DEF Emptied, Lost, Seqs, Box, Parsed

LEMMA RunMoves ==
  ASSUME Mail, NEW next, StatementRuns(next)
  PROVE  Moved /\ link /\ conn = "ok" /\ link' = link /\ conn' = conn
<1>1. CASE next.tx
  BY <1>1, ParsedMoves DEF StatementRuns
<1>2. CASE ~next.tx
  <2>1. inbox' = Parsed \o held /\ held' = <<>> /\ pipe' = <<>>
    BY <1>2 DEF StatementRuns, Emptied
  <2>2. inbox' = Box /\ Parsed' = Box \o <<>>
    BY <2>1 DEF Box, Parsed
  <2>3. Box' = (Box \o <<>>) \o <<>>
    BY <2>1, <2>2 DEF Box
  <2>4. Moved
    BY <2>1, <2>2, <2>3, Boxes DEF Moved, Seqs
  <2> QED
    BY <2>4 DEF StatementRuns
<1> QED
  BY <1>1, <1>2

LEMMA FailMoves ==
  ASSUME Mail, StatementFails
  PROVE  Moved /\ ~link /\ link' = link /\ conn' = "bad"
BY ParsedMoves DEF StatementFails, Mail

LEMMA RenewalLoses ==
  ASSUME Mail, NEW next, OnNewBackend(next)
  PROVE  Lost /\ ~link /\ link' = TRUE /\ conn' = "ok"
BY Cleared DEF OnNewBackend, Mail

\* What follows for Mailbox.
LEMMA MovedAllowed ==
  ASSUME Mail, Moved, UNCHANGED <<sent, heard, link>>
  PROVE  Allowed
<1>1. UNCHANGED Promise!vars
  BY DEF Moved, Promise!vars, Box
<1> QED
  BY <1>1 DEF Allowed

LEMMA LostAllowed ==
  ASSUME Mail, Lost, UNCHANGED <<sent, heard>>, ~link, link' \in BOOLEAN
  PROVE  Allowed
<1>1. Promise!Renew
  BY PromiseIs DEF Lost
<1> QED
  BY <1>1 DEF Allowed, Promise!Next

LEMMA BrokenAllowed ==
  ASSUME Mail, Moved \/ Lost, UNCHANGED <<sent, heard>>, link, ~link'
  PROVE  Allowed
<1>1. \E k \in 0..Len(Box) : Box' = SubSeq(Box, 1, k)
  BY Boxes, Prefixes DEF Moved, Lost
<1>2. Promise!Break
  BY <1>1, PromiseIs
<1> QED
  BY <1>2 DEF Allowed, Promise!Next

\* wait_for_notify()
LEMMA GiveAllowed ==
  ASSUME Mail, GiveOne, UNCHANGED <<sent, link>>
  PROVE  Allowed /\ Seqs'
<1> DEFINE c == Consumable
<1>1. c # <<>> /\ heard' = Head(c) /\ inbox' = Tail(c) /\ held' = held
  BY DEF GiveOne
<1>2. c \in Seq(Nat) /\ Tail(c) \in Seq(Nat)
  <2>1. c \in Seq(Nat)
    BY Boxes DEF Consumable, Mail
  <2> QED
    BY <1>1, <2>1, HeadTailProperties
<1>3. CASE rows
  <2>1. c = inbox /\ pipe' = pipe
    BY <1>3 DEF Consumable, GiveOne, Consume, arrived
  <2>2. Parsed' = Tail(inbox) \o pipe /\ Box' = (Tail(inbox) \o pipe) \o held
    BY <1>1, <2>1 DEF Parsed, Box
  <2>3. /\ Parsed # <<>> /\ Head(Parsed) = Head(inbox) /\ Tail(Parsed) = Tail(inbox) \o pipe
    BY <1>1, <2>1, TailOf DEF Mail, Parsed
  <2>4. Box # <<>> /\ Head(Box) = Head(Parsed) /\ Tail(Box) = Tail(Parsed) \o held
    BY <2>3, Boxes, TailOf DEF Mail, Box
  <2>5. Promise!Take
    BY <1>1, <2>1, <2>2, <2>3, <2>4, PromiseIs
  <2> QED
    BY <1>1, <1>2, <2>1, <2>5 DEF Allowed, Promise!Next, Mail, Seqs
<1>4. CASE ~rows
  <2>1. c = Parsed /\ pipe' = <<>>
    BY <1>4 DEF Consumable, GiveOne, Consume, Emptied
  <2>2. Parsed' = Tail(Parsed) /\ Box' = Tail(Parsed) \o held
    <3>1. Parsed' = Tail(Parsed) \o <<>>
      BY <1>1, <2>1 DEF Parsed
    <3>2. Parsed' = Tail(Parsed)
      BY <1>2, <2>1, <3>1, Boxes
    <3> QED
      BY <1>1, <3>2 DEF Box
  <2>3. Box # <<>> /\ Head(Box) = Head(Parsed) /\ Tail(Box) = Tail(Parsed) \o held
    BY <1>1, <2>1, Boxes, TailOf DEF Mail, Box
  <2>4. Promise!Take
    BY <1>1, <2>1, <2>2, <2>3, PromiseIs
  <2> QED
    BY <1>1, <1>2, <2>1, <2>4, Boxes DEF Allowed, Promise!Next, Mail, Seqs
<1> QED
  BY <1>3, <1>4

LEMMA NoneMoves ==
  ASSUME Mail, NEW next, GiveNone(next)
  PROVE  Moved
<1>1. CASE rows
  BY <1>1, MailKept DEF GiveNone, Consume, arrived
<1>2. CASE ~rows
  <2>1. Parsed = <<>> /\ inbox' = inbox /\ pipe' = <<>> /\ held' = held
    BY <1>2 DEF GiveNone, Consumable, Consume, Emptied
  <2>2. inbox = <<>> /\ pipe = <<>>
    BY <2>1, ConcatSimplifications DEF Mail, Parsed
  <2> QED
    BY <2>1, <2>2, MailKept
<1> QED
  BY <1>1, <1>2

\* Every step: the mail keeps its shape, and Mailbox allows what happens to it.
MailStep == Mail' /\ Allowed

LEMMA MailWhere ==
  ASSUME Mail, Seqs', sent' \in Nat, link' \in BOOLEAN, conn' = "bad" => ~link', setup' # "start"
  PROVE  Mail'
BY DEF Mail, Seqs

LEMMA MailConnecting ==
  ASSUME Mail, Whole, Connecting
  PROVE  MailStep
<1>1. CASE Create
  <2>1. Box = <<>> /\ ~link /\ link' \in BOOLEAN /\ UNCHANGED <<held, pipe, inbox, sent, heard>>
    <3>1. setup = "start" /\ UNCHANGED <<mail, history>> /\ (link' = TRUE \/ link' = link)
      BY <1>1 DEF Create
    <3>2. inbox = <<>> /\ pipe = <<>> /\ held = <<>> /\ ~link /\ link \in BOOLEAN
      BY <3>1 DEF Mail
    <3>3. Box = <<>>
      BY <3>2, Boxes
    <3> QED
      BY <3>1, <3>2, <3>3 DEF mail, history
  <2>2. Lost
    BY <2>1, MailKept DEF Moved, Lost
  <2>3. Allowed
    BY <2>1, <2>2, LostAllowed
  <2>4. setup' # "start" /\ conn' # "bad"
    BY <1>1 DEF Create
  <2> QED
    BY <2>1, <2>2, <2>3, <2>4, MailWhere DEF MailStep, Lost, Mail
<1>2. CASE Guard \/ Abandon \/ SetDatestyle \/ SetTimezone \/ TypeNames
  <2>1. UNCHANGED <<held, pipe, inbox, sent, heard, link>> /\ setup' # "start"
        /\ (conn' = conn \/ ~link)
    BY <1>2 DEF Guard, Abandon, SetDatestyle, SetTimezone, TypeNames, mail, history
  <2>2. Moved
    BY <2>1, MailKept
  <2> QED
    BY <2>1, <2>2, MovedAllowed, MailWhere DEF MailStep, Moved, Mail
<1>3. CASE ConnectFails \/ Collect
  <2>1. UNCHANGED <<held, pipe, inbox, sent, heard>> /\ link' = FALSE /\ conn' # "bad"
        /\ setup' # "start"
    BY <1>3 DEF ConnectFails, Collect, mail, history, connect
  <2>2. Moved
    BY <2>1, MailKept
  <2>3. Allowed
    BY <1>3, <2>1, <2>2, MovedAllowed, BrokenAllowed DEF Mail
  <2> QED
    BY <2>1, <2>2, <2>3, MailWhere DEF MailStep, Moved, Mail
<1> QED
  BY <1>1, <1>2, <1>3 DEF Connecting

\* A statement moves the mail, or loses it with a backend that is dead.
LEMMA MailStatement ==
  ASSUME Mail, setup' = setup, setup # "start", UNCHANGED <<sent, heard>>,
         \/ Moved /\ link' = link /\ (conn' = "bad" => ~link)
         \/ Lost /\ ~link /\ link' = TRUE /\ conn' = "ok"
  PROVE  MailStep
<1>1. Seqs' /\ (conn' = "bad" => ~link')
  BY DEF Moved, Lost
<1>2. Allowed
  BY MovedAllowed, LostAllowed
<1> QED
  BY <1>1, <1>2, MailWhere DEF MailStep, Mail

LEMMA MailUsing ==
  ASSUME Mail, Using
  PROVE  MailStep
<1>1. ASSUME NEW next, NEW renewed, Execute(next, renewed) PROVE MailStep
  <2>1. setup' = setup /\ setup # "start" /\ UNCHANGED <<sent, heard>>
    BY <1>1 DEF Execute, Idle, connect
  <2>2. StatementRuns(next) \/ StatementFails \/ OnNewBackend(renewed)
    BY <1>1 DEF Execute
  <2> QED
    BY <2>1, <2>2, RunMoves, FailMoves, RenewalLoses, MailStatement
<1>2. CASE Listen \/ Begin \/ End
  BY <1>1, <1>2 DEF Listen, Begin, End
<1>3. CASE OpenResult
  <2>1. setup' = setup /\ setup # "start" /\ UNCHANGED <<sent, heard>>
    BY <1>3 DEF OpenResult, Idle, connect
  <2>2. CASE /\ conn = "ok" /\ link /\ inbox' = Parsed /\ Emptied
             /\ UNCHANGED <<link, conn, sess, held, told>>
    <3>1. Moved
      BY <2>2, ParsedMoves
    <3> QED
      BY <2>1, <2>2, <3>1, MailStatement
  <2>3. CASE StatementFails \/ OnNewBackend(Fresh)
    BY <2>1, <2>3, FailMoves, RenewalLoses, MailStatement
  <2> QED
    BY <1>3, <2>2, <2>3 DEF OpenResult
<1>4. CASE ReadRows
  <2>1. setup' = setup /\ setup # "start" /\ UNCHANGED <<sent, heard>>
    BY <1>4 DEF ReadRows, Idle, connect
  <2>2. StatementRuns(sess) \/ StatementFails
    BY <1>4 DEF ReadRows
  <2> QED
    BY <2>1, <2>2, RunMoves, FailMoves, MailStatement
<1>5. CASE ClearResult
  <2>1. setup' = setup /\ setup # "start" /\ UNCHANGED <<sent, heard>>
    BY <1>5 DEF ClearResult, Idle, connect
  <2>2. CASE StatementRuns(sess) \/ OnNewBackend(Fresh)
    BY <2>1, <2>2, RunMoves, RenewalLoses, MailStatement
  <2>3. CASE /\ conn = "ok" /\ ~link /\ inbox' = Parsed /\ Emptied
             /\ UNCHANGED <<link, sess, held, told>>
    <3>1. Moved
      BY <2>3, ParsedMoves
    <3> QED
      BY <2>1, <2>3, <3>1, MailStatement
  <2>4. CASE UNCHANGED <<link, conn, sess, mail, told, hidden>>
    <3>1. Moved
      BY <2>4, MailKept DEF mail
    <3> QED
      BY <2>1, <2>4, <3>1, MailStatement DEF Mail
  <2> QED
    BY <1>5, <2>2, <2>3, <2>4 DEF ClearResult
<1>6. CASE Disconnect
  <2>1. Lost /\ link' = FALSE /\ UNCHANGED <<sent, heard>> /\ setup' = "closed" /\ conn' # "bad"
    BY <1>6, Cleared DEF Disconnect, history
  <2>2. Allowed
    BY <2>1, LostAllowed, BrokenAllowed DEF Mail
  <2> QED
    BY <2>1, <2>2, MailWhere DEF MailStep, Lost, Mail
<1> QED
  BY <1>2, <1>3, <1>4, <1>5, <1>6 DEF Using

LEMMA MailWaiting ==
  ASSUME Mail, Whole, Waiting
  PROVE  MailStep
<1>1. setup = "open" /\ UNCHANGED <<setup, sent, link>> /\ sent \in Nat
  BY DEF Waiting, WaitForNotify, Selected, Interrupted, Idle, Whole, Usable, connect, history, Mail
<1>2. CASE ConsumeFails
  <2>1. Moved /\ heard' = heard /\ ~link
    BY <1>2, MailKept DEF ConsumeFails, mail, Mail
  <2> QED
    BY <1>1, <2>1, MailStatement
<1>3. CASE GiveOne
  <2>1. Allowed /\ Seqs' /\ conn' = conn
    BY <1>1, <1>3, GiveAllowed DEF GiveOne
  <2> QED
    BY <1>1, <2>1, MailWhere DEF MailStep, Mail
<1>4. ASSUME NEW next, GiveNone(next) PROVE MailStep
  <2>1. Moved /\ heard' = heard /\ conn' = conn
    BY <1>4, NoneMoves DEF GiveNone
  <2> QED
    BY <1>1, <2>1, MailStatement DEF Mail
<1>5. CASE Interrupted
  <2>1. Moved /\ heard' = heard /\ conn' = conn
    BY <1>5, MailKept DEF Interrupted, mail, history
  <2> QED
    BY <1>1, <2>1, MailStatement DEF Mail
<1> QED
  BY <1>2, <1>3, <1>4, <1>5 DEF Waiting, WaitForNotify, Selected

LEMMA MailEnvironment ==
  ASSUME Mail, Whole, Environment
  PROVE  MailStep
<1>1. CASE Notify
  <2>1. /\ link /\ UNCHANGED <<link, conn, setup, heard, pipe, inbox>> /\ sent' = sent + 1
        /\ held' = Append(held, sent + 1)
    BY <1>1 DEF Notify, connect, arrived
  <2>2. sent + 1 \in Nat /\ setup # "start" /\ held \in Seq(Nat)
    BY <2>1 DEF Mail
  <2>3. Parsed' = Parsed /\ Box' = Parsed \o Append(held, sent + 1)
    BY <2>1 DEF Parsed, Box
  <2>4. Box' = Append(Box, sent + 1) /\ held' \in Seq(Nat)
    <3>1. Append(Parsed \o held, sent + 1) = Parsed \o Append(held, sent + 1)
          /\ Append(held, sent + 1) \in Seq(Nat)
      BY <2>2, Boxes, AppendOf
    <3> QED
      BY <2>1, <2>3, <3>1 DEF Box
  <2>5. Promise!Put
    BY <2>1, <2>4, PromiseIs
  <2> QED
    BY <2>1, <2>2, <2>4, <2>5 DEF MailStep, Mail, Allowed, Promise!Next
<1>2. CASE Deliver
  <2>1. /\ link /\ held # <<>> /\ UNCHANGED <<link, conn, setup, sent, heard, inbox>>
        /\ pipe' = Append(pipe, Head(held)) /\ held' = Tail(held)
    BY <1>2 DEF Deliver, connect, history
  <2>2. /\ held \in Seq(Nat) /\ pipe \in Seq(Nat) /\ inbox \in Seq(Nat) /\ setup # "start"
        /\ Head(held) \in Nat /\ Tail(held) \in Seq(Nat) /\ <<Head(held)>> \in Seq(Nat)
    BY <2>1, TailOf, HeadTailProperties DEF Mail
  <2>3. pipe' = pipe \o <<Head(held)>> /\ pipe' \in Seq(Nat)
    BY <2>1, <2>2, AppendIsConcat, AppendProperties
  <2>4. held = <<Head(held)>> \o Tail(held)
    BY <2>1, <2>2
  <2>5. Parsed' = Parsed \o <<Head(held)>>
    <3>1. Parsed' = inbox \o (pipe \o <<Head(held)>>)
      BY <2>1, <2>3 DEF Parsed
    <3> QED
      BY <2>2, <3>1, Associative DEF Parsed
  <2>6. Box' = Parsed \o (<<Head(held)>> \o Tail(held))
    <3>1. Box' = (Parsed \o <<Head(held)>>) \o Tail(held)
      BY <2>1, <2>5 DEF Box
    <3> QED
      <4>1. Parsed \in Seq(Nat)
        BY Boxes
      <4> QED
        BY <2>2, <3>1, <4>1, Associative
  <2>7. Moved
    BY <2>1, <2>2, <2>3, <2>4, <2>6 DEF Moved, Seqs, Box
  <2> QED
    BY <2>1, <2>2, <2>7, MailStatement DEF Mail
<1>3. CASE OtherMessage \/ ServerToggles
  <2>1. UNCHANGED <<link, conn, setup, sent, heard, held, pipe, inbox>>
    BY <1>3 DEF OtherMessage, ServerToggles, connect, history, mail
  <2>2. Moved
    BY <2>1, MailKept
  <2>3. Allowed
    BY <2>1, <2>2, MovedAllowed
  <2> QED
    BY <2>1, <2>3 DEF MailStep, Mail
<1>4. CASE BackendDies
  <2>1. /\ link /\ link' = FALSE /\ UNCHANGED <<conn, setup, sent, heard, inbox>> /\ held' = <<>>
        /\ pipe' = pipe \/ pipe' = <<>>
    BY <1>4 DEF BackendDies, connect, history, arrived, Emptied
  <2>2. Box' = Parsed \/ Box' = inbox
    <3>1. inbox \in Seq(Nat)
      BY DEF Mail
    <3>2. CASE pipe' = pipe
      BY <2>1, <3>2, Boxes DEF Box, Parsed
    <3>3. CASE pipe' = <<>>
      BY <2>1, <3>1, <3>3, Boxes DEF Box, Parsed
    <3> QED
      BY <2>1, <3>2, <3>3
  <2>3. \E k \in 0..Len(Box) : Box' = SubSeq(Box, 1, k)
    BY <2>2, Fronts
  <2>4. Promise!Break
    BY <2>1, <2>3, PromiseIs
  <2>5. Mail'
    BY <2>1, EmptySeq DEF Mail
  <2> QED
    BY <2>4, <2>5 DEF MailStep, Allowed, Promise!Next
<1> QED
  BY <1>1, <1>2, <1>3, <1>4 DEF Environment

LEMMA MailInit ==
  ASSUME Init
  PROVE  Mail /\ Promise!Init
<1>1. held = <<>> /\ pipe = <<>> /\ inbox = <<>> /\ sent = 0 /\ heard = 0 /\ ~link /\ conn = "none"
      /\ link \in BOOLEAN
  BY DEF Init
<1>2. Mail
  BY <1>1, EmptySeq DEF Mail
<1>3. Parsed \o held = <<>>
  BY <1>1, <1>2, Boxes
<1> QED
  BY <1>1, <1>2, <1>3 DEF Promise!Init

LEMMA MailNext == Mail /\ Whole /\ [Next]_vars => Mail' /\ [Promise!Next]_(Promise!vars)
<1>1. ASSUME Mail, UNCHANGED vars PROVE MailStep
  <2>1. UNCHANGED <<held, pipe, inbox, sent, heard, link, conn, setup>>
    BY <1>1 DEF vars, mail, connect, history
  <2>2. Allowed
    BY <1>1, <2>1, MailKept, MovedAllowed
  <2> QED
    BY <1>1, <2>1, <2>2 DEF MailStep, Mail
<1>2. ASSUME Mail, Whole, Next PROVE MailStep
  BY <1>2, MailConnecting, MailUsing, MailWaiting, MailEnvironment DEF Next
<1> QED
  BY <1>1, <1>2 DEF MailStep, Allowed

\* wait_for_notify() and all the calls that read the socket keep the promise of
\* Mailbox: notifications are given in order, each at most once, and only the
\* loss of the backend takes any away; for any number of notifications, any
\* order of statements, open results, transactions, resets and outages.
THEOREM MailIsKept == Spec => RefinesMailbox
<1>1. Init => Mail /\ Promise!Init
  BY MailInit
<1>2. Mail /\ Whole /\ [Next]_vars => Mail' /\ [Promise!Next]_(Promise!vars)
  BY MailNext
<1> QED
  BY <1>1, <1>2, AlwaysWhole, PTL DEF Spec, RefinesMailbox, Promise!Spec

-----------------------------------------------------------------------------
(***************************************************************************)
(* The work queue, for any number of workers and items, any bound on the   *)
(* notifications that wait and any number of backends that die: a backend, *)
(* a connection and a mailbox for each worker.                             *)
(***************************************************************************)
\* What is in the hands of a worker is an item.
TaskIsItem ==
  \A w \in Workers :
    pc[w] \in {"taken", "begun", "locked", "updated", "missed", "failing"} => task[w] \in Items

\* The inductive invariant.
Safe == QueueTypeOK /\ TaskIsItem /\ OneAtATime /\ WrittenOnce

(***************************************************************************)
(* Notifications.                                                          *)
(***************************************************************************)

LEMMA OrderIsSeq ==
  ASSUME QueueTypeOK, NEW s \in Orders(Todo)
  PROVE  s \in Seq(Items \cup {Shutdown})
<1>1. IsFiniteSet(Todo)
  BY WorkAssumption, FS_Subset DEF Todo
<1>2. Cardinality(Todo) \in Nat
  BY <1>1, FS_CardinalityType
<1>3. s \in [1..Cardinality(Todo) -> Todo]
  BY DEF Orders
<1>4. s \in [1..Cardinality(Todo) -> Items \cup {Shutdown}]
  BY <1>3 DEF Todo
<1> QED
  BY <1>2, <1>4

LEMMA SendType ==
  ASSUME QueueTypeOK, NEW channel, NEW s \in Seq(Items \cup {Shutdown}), Send(channel, s)
  PROVE  mails' \in [Workers -> Seq(Items \cup {Shutdown})]
<1> SUFFICES ASSUME NEW w \in Workers
             PROVE (IF Listens(w, channel) THEN mails[w] \o s ELSE mails[w])
                      \in Seq(Items \cup {Shutdown})
  BY DEF Send
<1> mails[w] \in Seq(Items \cup {Shutdown})
  BY DEF QueueTypeOK
<1> mails[w] \o s \in Seq(Items \cup {Shutdown})
  OBVIOUS
<1> QED
  OBVIOUS

(***************************************************************************)
(* Type correctness.                                                       *)
(***************************************************************************)

LEMMA TypeInit == QueueInit => QueueTypeOK
  BY WorkAssumption DEF QueueInit, QueueTypeOK

LEMMA TypeLeave ==
  ASSUME QueueTypeOK, NEW w \in Workers, Leave(w)
  PROVE  /\ links' \in [Workers -> BOOLEAN]
         /\ conns' \in [Workers -> {"ok", "bad", "finished"}]
         /\ ear' \in [Workers -> SUBSET Channels]
         /\ mails' \in [Workers -> Seq(Items \cup {Shutdown})]
         /\ pc' \in [Workers -> {"start", "listening", "waiting", "taken", "begun", "locked",
                                 "updated", "missed", "failing", "ended"}]
  BY DEF QueueTypeOK, Leave, Goto

LEMMA TypeUnlocked ==
  ASSUME QueueTypeOK, NEW w \in Workers
  PROVE  Unlocked(w) \in [Items -> Workers \cup {Nobody}]
  BY DEF QueueTypeOK, Unlocked

LEMMA TypeStart ==
  ASSUME QueueTypeOK, NEW w \in Workers, StartListening(w), UNCHANGED <<deaths, client>>
  PROVE  QueueTypeOK'
<1>1. ASSUME NEW channel \in Channels, ListenTo(w, channel)
      PROVE  QueueTypeOK'
  <2>1. CASE links[w]
    <3>1. ear' \in [Workers -> SUBSET Channels]
      <4>1. ear' = [ear EXCEPT ![w] = ear[w] \cup {channel}]
        BY <1>1, <2>1 DEF ListenTo
      <4>2. ear \in [Workers -> SUBSET Channels]
        BY DEF QueueTypeOK
      <4>3. ear[w] \cup {channel} \in SUBSET Channels
        BY <1>1, <4>2
      <4> QED
        BY <4>1, <4>2, <4>3
    <3>2. /\ pc' = [pc EXCEPT ![w] = "listening"] \/ pc' = [pc EXCEPT ![w] = "waiting"]
          /\ UNCHANGED <<links, conns, mails, task, table>>
      BY <1>1, <2>1 DEF ListenTo, Goto
    <3> QED
      BY <3>1, <3>2 DEF QueueTypeOK, table, client
  <2>2. CASE ~links[w]
    BY <1>1, <2>2, TypeLeave DEF QueueTypeOK, ListenTo, table, client
  <2> QED
    BY <2>1, <2>2
<1> QED
  BY <1>1 DEF StartListening, Channels

LEMMA TypeTake ==
  ASSUME QueueTypeOK, NEW w \in Workers, Take(w), UNCHANGED <<deaths, client>>
  PROVE  QueueTypeOK'
<1>1. CASE Head(mails[w]) = Shutdown
  BY <1>1, TypeLeave DEF QueueTypeOK, Take, table, client
<1>2. CASE Head(mails[w]) # Shutdown
  <2>1. mails[w] \in Seq(Items \cup {Shutdown}) /\ mails[w] # <<>>
    BY DEF QueueTypeOK, Take
  <2>2. Head(mails[w]) \in Items /\ Tail(mails[w]) \in Seq(Items \cup {Shutdown})
    BY <1>2, <2>1
  <2>3. /\ task' = [task EXCEPT ![w] = Head(mails[w])]
        /\ mails' = [mails EXCEPT ![w] = Tail(mails[w])]
        /\ pc' = [pc EXCEPT ![w] = "taken"]
        /\ UNCHANGED <<links, conns, ear, table, deaths, client>>
    BY <1>2 DEF Take, Goto
  <2> QED
    BY <2>2, <2>3 DEF QueueTypeOK, table, client
<1> QED
  BY <1>1, <1>2

LEMMA TypeWaitFails ==
  ASSUME QueueTypeOK, NEW w \in Workers, WaitFails(w), UNCHANGED <<deaths, client>>
  PROVE  QueueTypeOK'
  BY TypeLeave DEF QueueTypeOK, WaitFails, table, client

LEMMA TypeWorking ==
  ASSUME QueueTypeOK, NEW w \in Workers, Working(w), UNCHANGED <<deaths, client>>
  PROVE  QueueTypeOK'
<1>1. CASE BeginWork(w)
  BY <1>1 DEF QueueTypeOK, BeginWork, Fails, Back, Goto, session, table, client
<1>2. CASE SelectItem(w)
  <2>1. CASE Available(task[w])
    <3>1. CASE FailsWithin(w)
      BY <3>1 DEF QueueTypeOK, FailsWithin, Fails, Goto, table, client
    <3>2. CASE ~FailsWithin(w)
      <4>1. /\ lock' = [lock EXCEPT ![task[w]] = w] /\ pc' = [pc EXCEPT ![w] = "locked"]
            /\ UNCHANGED <<links, conns, ear, mails, task, out, writes>>
        BY <1>2, <2>1, <3>2 DEF SelectItem, Goto, session
      <4> QED
        BY <4>1 DEF QueueTypeOK, client
    <3> QED
      BY <3>1, <3>2
  <2>2. CASE ~Available(task[w])
    <3>1. /\ pc' = [pc EXCEPT ![w] = "missed"] \/ pc' = [pc EXCEPT ![w] = "failing"]
          /\ conns' = conns \/ conns' = [conns EXCEPT ![w] = "bad"]
          /\ UNCHANGED <<links, ear, mails, task, table>>
      BY <1>2, <2>2 DEF SelectItem, FailsWithin, Fails, Goto, session
    <3> QED
      BY <3>1 DEF QueueTypeOK, table, client
  <2> QED
    BY <2>1, <2>2
<1>3. CASE Update(w)
  BY <1>3 DEF QueueTypeOK, Update, FailsWithin, Fails, Goto, session, table, client
<1>4. CASE Rollback(w)
  <2>1. /\ pc' = [pc EXCEPT ![w] = "waiting"] /\ task' = [task EXCEPT ![w] = Nobody]
        /\ UNCHANGED table
    BY <1>4 DEF Rollback, Back, Goto
  <2>2. CASE UNCHANGED session
    BY <2>1, <2>2 DEF QueueTypeOK, session, table, client
  <2>3. CASE ~UNCHANGED session
    <3>1. /\ links' = [links EXCEPT ![w] = TRUE] /\ conns' = [conns EXCEPT ![w] = "ok"]
          /\ ear' = [ear EXCEPT ![w] = {}] /\ mails' = [mails EXCEPT ![w] = <<>>]
      BY <1>4, <2>3 DEF Rollback
    <3>2. /\ links' \in [Workers -> BOOLEAN] /\ conns' \in [Workers -> {"ok", "bad", "finished"}]
          /\ ear' \in [Workers -> SUBSET Channels]
          /\ mails' \in [Workers -> Seq(Items \cup {Shutdown})]
      BY <3>1 DEF QueueTypeOK
    <3> QED
      BY <2>1, <3>2 DEF QueueTypeOK, table, client
  <2> QED
    BY <2>2, <2>3
<1> QED
  BY <1>1, <1>2, <1>3, <1>4 DEF Working

LEMMA TypeCommitted ==
  ASSUME QueueTypeOK, NEW w \in Workers, Committed(w)
  PROVE  /\ out' \in [Items -> {"absent", "todo", "done"}]
         /\ lock' \in [Items -> Workers \cup {Nobody}]
         /\ writes' \in [Items -> Nat]
<1>1. lock' \in [Items -> Workers \cup {Nobody}]
  BY TypeUnlocked DEF Committed
<1>2. CASE pc[w] = "updated"
  <2>1. /\ out' = [out EXCEPT ![task[w]] = "done"]
        /\ writes' = [writes EXCEPT ![task[w]] = writes[task[w]] + 1]
    BY <1>2 DEF Committed
  <2>2. out' \in [Items -> {"absent", "todo", "done"}]
    BY <2>1 DEF QueueTypeOK
  <2>3. writes' \in [Items -> Nat]
    <3> DEFINE t == task[w]
    <3> HIDE DEF t
    <3>1. writes \in [Items -> Nat] /\ writes' = [writes EXCEPT ![t] = writes[t] + 1]
      BY <2>1 DEF t, QueueTypeOK
    <3>2. CASE t \in Items
      BY <3>1, <3>2
    <3>3. CASE t \notin Items
      BY <3>1, <3>3
    <3> QED
      BY <3>2, <3>3
  <2> QED
    BY <1>1, <2>2, <2>3
<1>3. CASE pc[w] # "updated"
  BY <1>1, <1>3 DEF QueueTypeOK, Committed
<1> QED
  BY <1>2, <1>3

LEMMA TypeCommit ==
  ASSUME QueueTypeOK, NEW w \in Workers, Commit(w), UNCHANGED client
  PROVE  QueueTypeOK'
<1>1. CASE Committed(w) /\ Back(w) /\ UNCHANGED <<session, deaths>>
  BY <1>1, TypeCommitted DEF QueueTypeOK, Back, Goto, session, client
<1>2. CASE /\ Committed(w) /\ deaths < MaxDeaths /\ deaths' = deaths + 1
           /\ links' = [links EXCEPT ![w] = FALSE] /\ ear' = [ear EXCEPT ![w] = {}]
           /\ conns' = [conns EXCEPT ![w] = "bad"]
           /\ Goto(w, "failing") /\ UNCHANGED <<mails, task>>
  <2>1. deaths' \in 0..MaxDeaths
    BY <1>2, WorkAssumption DEF QueueTypeOK
  <2> QED
    BY <1>2, <2>1, TypeCommitted DEF QueueTypeOK, Goto, client
<1>3. CASE FailsWithin(w) /\ UNCHANGED deaths
  BY <1>3 DEF QueueTypeOK, FailsWithin, Fails, Goto, table, client
<1> QED
  BY <1>1, <1>2, <1>3 DEF Commit

LEMMA TypeRenotify ==
  ASSUME QueueTypeOK, NEW w \in Workers, Renotify(w)
  PROVE  QueueTypeOK'
<1>1. mails' \in [Workers -> Seq(Items \cup {Shutdown})]
  <2>1. PICK s \in Orders(Todo) : Send("sqroot", s)
    BY DEF Renotify, TimedOut
  <2>2. s \in Seq(Items \cup {Shutdown})
    BY <2>1, OrderIsSeq
  <2> QED
    BY <2>1, <2>2, SendType
<1> QED
  BY <1>1 DEF QueueTypeOK, Renotify, TimedOut, table, client

LEMMA TypeDies ==
  ASSUME QueueTypeOK, NEW w \in Workers, LosesBackend(w) \/ Killed(w)
  PROVE  QueueTypeOK'
<1>1. CASE LosesBackend(w)
  <2>1. deaths' \in 0..MaxDeaths
    BY <1>1, WorkAssumption DEF QueueTypeOK, LosesBackend
  <2> QED
    BY <1>1, <2>1, TypeUnlocked DEF QueueTypeOK, LosesBackend, client
<1>2. CASE Killed(w)
  <2>1. deaths' \in 0..MaxDeaths
    BY <1>2, WorkAssumption DEF QueueTypeOK, Killed
  <2> QED
    BY <1>2, <2>1, TypeUnlocked, TypeLeave DEF QueueTypeOK, Killed, client
<1> QED
  BY <1>1, <1>2

LEMMA TypeClient ==
  ASSUME QueueTypeOK, Client
  PROVE  QueueTypeOK'
<1>1. ASSUME NEW i \in Items, Insert(i)
      PROVE  QueueTypeOK'
  BY <1>1 DEF QueueTypeOK, Client, Insert, session, client
<1>2. ASSUME NEW i \in Items, NotifyItem(i)
      PROVE  QueueTypeOK'
  <2>1. <<i>> \in Seq(Items \cup {Shutdown})
    OBVIOUS
  <2>2. mails' \in [Workers -> Seq(Items \cup {Shutdown})]
    BY <1>2, <2>1, SendType DEF NotifyItem
  <2> QED
    BY <1>2, <2>2 DEF QueueTypeOK, Client, NotifyItem, table
<1>3. CASE SendShutdown
  <2>1. <<Shutdown>> \in Seq(Items \cup {Shutdown})
    OBVIOUS
  <2>2. mails' \in [Workers -> Seq(Items \cup {Shutdown})]
    BY <1>3, <2>1, SendType DEF SendShutdown
  <2> QED
    BY <1>3, <2>2 DEF QueueTypeOK, Client, SendShutdown, table
<1> QED
  BY <1>1, <1>2, <1>3 DEF Client

LEMMA QueueTypeStep == QueueTypeOK /\ [QueueNext]_queueVars => QueueTypeOK'
<1> SUFFICES ASSUME QueueTypeOK, [QueueNext]_queueVars PROVE QueueTypeOK'
  OBVIOUS
<1>1. ASSUME NEW w \in Workers, Step(w)
      PROVE  QueueTypeOK'
  BY <1>1, TypeStart, TypeTake, TypeWaitFails, TypeWorking, TypeCommit DEF Step, client
<1>2. ASSUME NEW w \in Workers, Renotify(w) \/ LosesBackend(w) \/ Killed(w)
      PROVE  QueueTypeOK'
  BY <1>2, TypeRenotify, TypeDies
<1>3. CASE Client
  BY <1>3, TypeClient
<1>4. CASE UNCHANGED queueVars
  BY <1>4 DEF QueueTypeOK, queueVars, session, table, client
<1> QED
  BY <1>1, <1>2, <1>3, <1>4 DEF QueueNext

\* Every variable keeps its type, whoever dies.
THEOREM QueueTypeCorrect == QueueSpec => []QueueTypeOK
<1>1. QueueInit => QueueTypeOK
  BY TypeInit
<1>2. QueueTypeOK /\ [QueueNext]_queueVars => QueueTypeOK'
  BY QueueTypeStep
<1> QED
  BY <1>1, <1>2, PTL DEF QueueSpec

(***************************************************************************)
(* One transaction for an item, one result.                                *)
(***************************************************************************)

Holding == {"taken", "begun", "locked", "updated", "missed", "failing"}

LEMMA SafeInit == QueueInit => Safe
  BY TypeInit DEF QueueInit, Safe, TaskIsItem, OneAtATime, WrittenOnce

\* A step of w leaves the others where they are, and their locked rows alone.
LEMMA SafeFrame ==
  ASSUME Safe, QueueTypeOK', NEW w \in Workers,
         \A v \in Workers \ {w} : /\ pc'[v] = pc[v] /\ task'[v] = task[v]
                                  /\ links'[v] => links[v],
         \A v \in Workers \ {w}, i \in Items :
           lock[i] = v /\ out[i] = "todo" => lock'[i] = v /\ out'[i] = "todo",
         pc'[w] \in Holding => task'[w] \in Items,
         links'[w] /\ pc'[w] \in {"locked", "updated"} =>
           lock'[task'[w]] = w /\ out'[task'[w]] = "todo",
         WrittenOnce'
  PROVE  Safe'
<1>1. TaskIsItem'
  <2> SUFFICES ASSUME NEW v \in Workers, pc'[v] \in Holding PROVE task'[v] \in Items
    BY DEF TaskIsItem, Holding
  <2> QED
    BY DEF Safe, TaskIsItem, Holding
<1>2. OneAtATime'
  <2> SUFFICES ASSUME NEW v \in Workers, links'[v], pc'[v] \in {"locked", "updated"}
               PROVE lock'[task'[v]] = v /\ out'[task'[v]] = "todo"
    BY DEF OneAtATime
  <2>1. CASE v = w
    BY <2>1
  <2>2. CASE v # w
    <3>1. links[v] /\ pc[v] \in {"locked", "updated"} /\ task'[v] = task[v]
      BY <2>2
    <3>2. task[v] \in Items
      BY <3>1 DEF Safe, TaskIsItem
    <3>3. lock[task[v]] = v /\ out[task[v]] = "todo"
      BY <3>1 DEF Safe, OneAtATime
    <3> QED
      BY <2>2, <3>1, <3>2, <3>3
  <2> QED
    BY <2>1, <2>2
<1> QED
  BY <1>1, <1>2 DEF Safe

\* A step of w that leaves the rows alone.
LEMMA SafeElsewhere ==
  ASSUME Safe, QueueTypeOK', NEW w \in Workers, UNCHANGED table,
         \A v \in Workers \ {w} : /\ pc'[v] = pc[v] /\ task'[v] = task[v]
                                  /\ links'[v] => links[v],
         pc'[w] \in Holding => task'[w] \in Items,
         links'[w] /\ pc'[w] \in {"locked", "updated"} =>
           /\ links[w] /\ pc[w] \in {"locked", "updated"} /\ task'[w] = task[w]
  PROVE  Safe'
<1>1. WrittenOnce'
  BY DEF Safe, WrittenOnce, table
<1>2. links'[w] /\ pc'[w] \in {"locked", "updated"} =>
        lock'[task'[w]] = w /\ out'[task'[w]] = "todo"
  BY DEF Safe, OneAtATime, table
<1> QED
  BY <1>1, <1>2, SafeFrame DEF table

\* What Leave(w) does to the control of the workers.
LEMMA LeaveControl ==
  ASSUME QueueTypeOK, NEW w \in Workers, Leave(w)
  PROVE  /\ pc'[w] = "ended" /\ ~links'[w]
         /\ \A v \in Workers \ {w} : pc'[v] = pc[v] /\ links'[v] = links[v]
  BY DEF QueueTypeOK, Leave, Goto

LEMMA SafeWaiting ==
  ASSUME Safe, QueueTypeOK', NEW w \in Workers, StartListening(w) \/ Take(w) \/ WaitFails(w)
  PROVE  Safe'
<1> USE DEF Holding
<1>0. QueueTypeOK
  BY DEF Safe
<1>1. CASE StartListening(w)
  <2>1. ASSUME NEW channel, ListenTo(w, channel)
        PROVE  /\ UNCHANGED <<task, table>> /\ pc'[w] \in {"listening", "waiting", "ended"}
               /\ \A v \in Workers \ {w} : pc'[v] = pc[v] /\ links'[v] = links[v]
    BY <1>0, <2>1, LeaveControl DEF ListenTo, Goto, QueueTypeOK, table
  <2> QED
    BY <1>1, <2>1, SafeElsewhere DEF StartListening
<1>2. CASE Take(w)
  <2>1. CASE Head(mails[w]) = Shutdown
    BY <1>0, <1>2, <2>1, LeaveControl, SafeElsewhere DEF Take
  <2>2. CASE Head(mails[w]) # Shutdown
    <3>1. mails[w] \in Seq(Items \cup {Shutdown}) /\ mails[w] # <<>>
      BY <1>0, <1>2 DEF QueueTypeOK, Take
    <3>2. Head(mails[w]) \in Items
      BY <2>2, <3>1
    <3>3. /\ pc'[w] = "taken" /\ task'[w] \in Items /\ UNCHANGED <<links, table>>
          /\ \A v \in Workers \ {w} : pc'[v] = pc[v] /\ task'[v] = task[v]
      BY <1>0, <1>2, <2>2, <3>2 DEF Take, Goto, QueueTypeOK
    <3> QED
      BY <3>3, SafeElsewhere
  <2> QED
    BY <2>1, <2>2
<1>3. CASE WaitFails(w)
  BY <1>0, <1>3, LeaveControl, SafeElsewhere DEF WaitFails
<1> QED
  BY <1>1, <1>2, <1>3

\* An error in the transaction.
LEMMA SafeFailsWithin ==
  ASSUME Safe, QueueTypeOK', NEW w \in Workers, FailsWithin(w), pc[w] \in Holding
  PROVE  Safe'
<1>1. /\ pc'[w] = "failing" /\ UNCHANGED <<task, links, table>>
      /\ \A v \in Workers \ {w} : pc'[v] = pc[v]
  BY DEF Safe, QueueTypeOK, FailsWithin, Fails, Goto
<1>2. task[w] \in Items
  BY DEF Safe, TaskIsItem, Holding
<1> QED
  BY <1>1, <1>2, SafeElsewhere DEF Holding

LEMMA SafeSelect ==
  ASSUME Safe, QueueTypeOK', NEW w \in Workers, SelectItem(w)
  PROVE  Safe'
<1>1. pc[w] = "begun" /\ task[w] \in Items
  BY DEF SelectItem, Safe, TaskIsItem
<1>2. CASE /\ Available(task[w])
           /\ lock' = [lock EXCEPT ![task[w]] = w] /\ Goto(w, "locked")
           /\ UNCHANGED <<session, task, out, writes>>
  <2>1. /\ pc'[w] = "locked" /\ UNCHANGED <<links, task, out, writes>>
        /\ \A v \in Workers \ {w} : pc'[v] = pc[v]
    BY <1>2 DEF Goto, Safe, QueueTypeOK, session
  <2>2. /\ lock'[task[w]] = w /\ out[task[w]] = "todo" /\ lock[task[w]] = Nobody
        /\ \A i \in Items \ {task[w]} : lock'[i] = lock[i]
    BY <1>1, <1>2 DEF Available, Safe, QueueTypeOK
  <2>3. WrittenOnce'
    BY <2>1 DEF Safe, WrittenOnce
  <2>4. Nobody \notin Workers
    BY WorkAssumption
  <2> QED
    BY <1>1, <2>1, <2>2, <2>3, <2>4, SafeFrame
<1>3. CASE Goto(w, "missed") /\ UNCHANGED <<session, task, table>>
  <2>1. /\ pc'[w] = "missed" /\ UNCHANGED <<links, task, table>>
        /\ \A v \in Workers \ {w} : pc'[v] = pc[v]
    BY <1>3 DEF Goto, Safe, QueueTypeOK, session
  <2> QED
    BY <1>1, <2>1, SafeElsewhere
<1>4. CASE FailsWithin(w)
  BY <1>1, <1>4, SafeFailsWithin DEF Holding
<1> QED
  BY <1>2, <1>3, <1>4 DEF SelectItem

LEMMA SafeWorking ==
  ASSUME Safe, QueueTypeOK', NEW w \in Workers, Working(w)
  PROVE  Safe'
<1>1. CASE BeginWork(w)
  <2>1. task[w] \in Items
    BY <1>1 DEF BeginWork, Safe, TaskIsItem
  <2>2. /\ (pc'[w] = "begun" /\ UNCHANGED task) \/ pc'[w] = "waiting"
        /\ UNCHANGED <<links, table>>
        /\ \A v \in Workers \ {w} : pc'[v] = pc[v] /\ task'[v] = task[v]
    BY <1>1 DEF BeginWork, Fails, Back, Goto, Safe, QueueTypeOK, session
  <2> QED
    BY <2>1, <2>2, SafeElsewhere DEF Holding
<1>2. CASE SelectItem(w)
  BY <1>2, SafeSelect
<1>3. CASE Update(w)
  <2>1. CASE links[w] /\ Goto(w, "updated") /\ UNCHANGED <<session, task, table>>
    <3>1. /\ pc[w] = "locked" /\ pc'[w] = "updated" /\ UNCHANGED <<links, task, table>>
          /\ \A v \in Workers \ {w} : pc'[v] = pc[v]
      BY <1>3, <2>1 DEF Update, Goto, Safe, QueueTypeOK, session
    <3>2. task[w] \in Items
      BY <3>1 DEF Safe, TaskIsItem
    <3> QED
      BY <2>1, <3>1, <3>2, SafeElsewhere
  <2>2. CASE FailsWithin(w)
    BY <1>3, <2>2, SafeFailsWithin DEF Update, Holding
  <2> QED
    BY <1>3, <2>1, <2>2 DEF Update
<1>4. CASE Rollback(w)
  <2>1. /\ pc'[w] = "waiting" /\ UNCHANGED table
        /\ \A v \in Workers \ {w} :
             pc'[v] = pc[v] /\ task'[v] = task[v] /\ links'[v] = links[v]
    BY <1>4 DEF Rollback, Back, Goto, Safe, QueueTypeOK, session
  <2> QED
    BY <2>1, SafeElsewhere DEF Holding
<1> QED
  BY <1>1, <1>2, <1>3, <1>4 DEF Working

LEMMA SafeCommit ==
  ASSUME Safe, QueueTypeOK', NEW w \in Workers, Commit(w)
  PROVE  Safe'
<1>1. pc[w] \in {"updated", "missed"} /\ task[w] \in Items
  BY DEF Commit, Safe, TaskIsItem
<1>2. CASE FailsWithin(w)
  BY <1>1, <1>2, SafeFailsWithin DEF Holding
<1>3. CASE Committed(w) /\ (Back(w) \/ (Goto(w, "failing") /\ UNCHANGED task))
           /\ (UNCHANGED links \/ links' = [links EXCEPT ![w] = FALSE])
  <2>1. /\ links[w]
        /\ pc'[w] = "waiting" \/ (pc'[w] = "failing" /\ task'[w] = task[w])
        /\ \A v \in Workers \ {w} :
             pc'[v] = pc[v] /\ task'[v] = task[v] /\ links'[v] = links[v]
    BY <1>3 DEF Committed, Back, Goto, Safe, QueueTypeOK
  <2>2. \A v \in Workers \ {w}, i \in Items : lock[i] = v => lock'[i] = v
    BY <1>3 DEF Committed, Unlocked
  <2>3. CASE pc[w] = "updated"
    <3>1. lock[task[w]] = w /\ out[task[w]] = "todo"
      BY <2>1, <2>3 DEF Safe, OneAtATime
    <3>2. /\ out' = [out EXCEPT ![task[w]] = "done"]
          /\ writes' = [writes EXCEPT ![task[w]] = writes[task[w]] + 1]
      BY <1>3, <2>3 DEF Committed
    <3>3. \A i \in Items \ {task[w]} : out'[i] = out[i] /\ writes'[i] = writes[i]
      BY <3>2 DEF Safe, QueueTypeOK
    <3>4. out'[task[w]] = "done" /\ writes'[task[w]] = 1
      <4>1. writes[task[w]] = 0
        BY <1>1, <3>1 DEF Safe, WrittenOnce
      <4>2. out \in [Items -> {"absent", "todo", "done"}] /\ writes \in [Items -> Nat]
        BY DEF Safe, QueueTypeOK
      <4> QED
        BY <1>1, <3>2, <4>1, <4>2
    <3>5. WrittenOnce'
      <4> SUFFICES ASSUME NEW i \in Items
                   PROVE writes'[i] = IF out'[i] = "done" THEN 1 ELSE 0
        BY DEF WrittenOnce
      <4> QED
        BY <3>3, <3>4 DEF Safe, WrittenOnce
    <3> QED
      BY <1>1, <2>1, <2>2, <3>1, <3>3, <3>5, SafeFrame DEF Holding
  <2>4. CASE pc[w] # "updated"
    <3>1. UNCHANGED <<out, writes>>
      BY <1>3, <2>4 DEF Committed
    <3>2. WrittenOnce'
      BY <3>1 DEF Safe, WrittenOnce
    <3> QED
      BY <1>1, <2>1, <2>2, <3>1, <3>2, SafeFrame DEF Holding
  <2> QED
    BY <2>3, <2>4
<1> QED
  BY <1>2, <1>3 DEF Commit, session

LEMMA SafeDies ==
  ASSUME Safe, QueueTypeOK', NEW w \in Workers, LosesBackend(w) \/ Killed(w)
  PROVE  Safe'
<1>1. /\ UNCHANGED <<task, out, writes>> /\ lock' = Unlocked(w) /\ ~links'[w]
      /\ pc'[w] = pc[w] \/ pc'[w] = "ended"
      /\ \A v \in Workers \ {w} : pc'[v] = pc[v] /\ links'[v] = links[v]
  BY LeaveControl DEF Safe, QueueTypeOK, LosesBackend, Killed
<1>2. \A v \in Workers \ {w}, i \in Items : lock[i] = v => lock'[i] = v
  BY <1>1 DEF Unlocked
<1>3. WrittenOnce'
  BY <1>1 DEF Safe, WrittenOnce
<1>4. pc'[w] \in Holding => task'[w] \in Items
  BY <1>1 DEF Safe, TaskIsItem, Holding
<1> QED
  BY <1>1, <1>2, <1>3, <1>4, SafeFrame

\* What happens outside of the transactions, and the work that is added.
LEMMA SafeOutside ==
  ASSUME Safe, QueueTypeOK', UNCHANGED <<links, pc, task, lock, writes>>,
         \A i \in Items : out'[i] = out[i] \/ (out[i] = "absent" /\ out'[i] = "todo")
  PROVE  Safe'
<1>1. TaskIsItem'
  BY DEF Safe, TaskIsItem
<1>2. WrittenOnce'
  BY DEF Safe, WrittenOnce
<1>3. OneAtATime'
  BY DEF Safe, TaskIsItem, OneAtATime
<1> QED
  BY <1>1, <1>2, <1>3 DEF Safe

LEMMA SafeStep == Safe /\ [QueueNext]_queueVars => Safe'
<1> SUFFICES ASSUME Safe, [QueueNext]_queueVars PROVE Safe'
  OBVIOUS
<1>0. QueueTypeOK'
  BY QueueTypeStep DEF Safe
<1>1. ASSUME NEW w \in Workers, Step(w) PROVE Safe'
  BY <1>0, <1>1, SafeWaiting, SafeWorking, SafeCommit DEF Step
<1>2. ASSUME NEW w \in Workers, LosesBackend(w) \/ Killed(w) PROVE Safe'
  BY <1>0, <1>2, SafeDies
<1>3. ASSUME NEW w \in Workers, Renotify(w) PROVE Safe'
  BY <1>0, <1>3, SafeOutside DEF Renotify, TimedOut, table
<1>4. CASE Client
  <2>1. ASSUME NEW i \in Items, Insert(i) PROVE Safe'
    <3>1. UNCHANGED <<links, pc, task, lock, writes>>
      BY <2>1 DEF Insert, session
    <3>2. out \in [Items -> {"absent", "todo", "done"}]
      BY DEF Safe, QueueTypeOK
    <3>3. out[i] = "absent" /\ out' = [out EXCEPT ![i] = "todo"]
      BY <2>1 DEF Insert
    <3>4. \A j \in Items : out'[j] = out[j] \/ (out[j] = "absent" /\ out'[j] = "todo")
      BY <3>2, <3>3
    <3> QED
      BY <1>0, <3>1, <3>4, SafeOutside
  <2>2. ASSUME NEW i \in Items, NotifyItem(i) PROVE Safe'
    BY <1>0, <2>2, SafeOutside DEF NotifyItem, table
  <2>3. CASE SendShutdown
    BY <1>0, <2>3, SafeOutside DEF SendShutdown, table
  <2> QED
    BY <1>4, <2>1, <2>2, <2>3 DEF Client
<1>5. CASE UNCHANGED queueVars
  BY <1>0, <1>5, SafeOutside DEF queueVars, session, table
<1> QED
  BY <1>1, <1>2, <1>3, <1>4, <1>5 DEF QueueNext

LEMMA AlwaysSafe == QueueSpec => []Safe
<1>1. QueueInit => Safe
  BY SafeInit
<1>2. Safe /\ [QueueNext]_queueVars => Safe'
  BY SafeStep
<1> QED
  BY <1>1, <1>2, PTL DEF QueueSpec

\* A worker whose backend lives and that has an item in its transaction holds
\* the lock of its row, however many workers there are and die.
THEOREM ItemsAreOwned == QueueSpec => []OneAtATime
<1>1. Safe => OneAtATime
  BY DEF Safe
<1> QED
  BY <1>1, AlwaysSafe, PTL

\* Every item that is done was written once, however often it was notified of
\* and whichever answer to a COMMIT was lost.
THEOREM ResultsAreWrittenOnce == QueueSpec => []WrittenOnce
<1>1. Safe => WrittenOnce
  BY DEF Safe
<1> QED
  BY <1>1, AlwaysSafe, PTL

=============================================================================
