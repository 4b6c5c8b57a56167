------------------------- MODULE QueryStream_proofs -------------------------
(* Proofs about QueryStream, for any queries, parameter rows, number of rows  *)
(* and distance between server and client.                                    *)
EXTENDS QueryStream, SequenceTheorems, TLAPS

Inside == {"step", "fetch", "advance"}
Ends == {"tuples_ok", "command_ok"}
Messages == [kind : MsgKinds, row : Nat, cols : AnyCols, count : Nat]

\* A command has been sent, and R reads its rows, in a call or between calls.
Reading == sends > 0 /\ ~told /\ pc \in Inside \cup {"R"}

\* The same, or bind_row() is about to send the next one.
Executing == sends > 0 /\ ~told /\ pc \in Inside \cup {"R", "drain", "send"}

\* A row has been read and not yet been copied.
RowAhead == Reading /\ pc # "step" /\ ~complete

\* The rows that have been read.
Taken == Len(rowsOut) + Len(frame) + (IF RowAhead THEN 1 ELSE 0)

OnlyReady == todo = <<>> /\ \A i \in 1..Len(inbox) : inbox[i].kind = "ready"

\* Where the calls are.
Control ==
  /\ pc \in Inside => sends > 0 /\ ~told /\ ready
  /\ pc = "drain" => ready /\ ~query.immediate
  /\ pc \in {"drain", "send"} => ~told /\ sends = group /\ group < groups
  /\ pc \in {"drain", "send"} /\ sends > 0 => ~complete /\ ready
  /\ pc = "unwind" => told
  /\ pc \in {"fetch", "advance"} => caller = "fetch"
  /\ pc = "fetch" => ~complete
  /\ pc = "R" /\ ~ready => sends = 0
  /\ pc = "R" /\ ready /\ sends = 0 => complete /\ groups = 0
  /\ sends = 0 => produced = 0 /\ rowsOut = <<>> /\ ~broken /\ ~told /\ frame = <<>>
  /\ frame # <<>> => caller = "fetch" /\ pc \in Inside \cup {"drain", "send"}
  /\ sends = 0 /\ pc \in {"drain", "send"} => caller # "fetch"

\* How many commands have been sent.
Commands ==
  /\ pc # "gone" /\ query.immediate => groups = 1 /\ sends \in {0, 1}
  /\ Reading /\ ~complete /\ ~query.immediate => sends = group + 1 /\ group < groups
  /\ Reading /\ complete => sends = groups /\ OnlyReady

\* What lies between the server and the client.
Wire ==
  /\ pc \in {"gone", "send"} \/ (pc = "R" /\ ~ready) => WireIdle
  /\ ~serving => todo = <<>>
  /\ ~query.immediate => Len(todo) <= 1
  /\ pc = "drain" /\ sends > 0 => OnlyReady

Order ==
  \A i \in 1..Len(inbox) :
    /\ inbox[i].kind = "ready" => i = Len(inbox) /\ ~serving
    /\ inbox[i].kind = "error" \/ (inbox[i].kind \in Ends /\ ~query.immediate) =>
         todo = <<>> /\ \A j \in (i + 1)..Len(inbox) : inbox[j].kind = "ready"

RowsOfOne ==
  \A i \in 1..Len(inbox) :
    inbox[i].kind = "row" =>
      /\ inbox[i].cols \in Cols
      /\ i = Len(inbox) => todo # <<>> /\ Head(todo) = inbox[i].cols
      /\ i < Len(inbox) /\ inbox[i + 1].kind = "row" => inbox[i + 1].cols = inbox[i].cols

\* A failure, or the end of the only statement, is still to be read.
Outcome ==
  /\ Executing /\ broken => Reading /\ \E i \in 1..Len(inbox) : inbox[i].kind = "error"
  /\ Reading /\ ~complete /\ ~query.immediate =>
       todo # <<>> \/ \E i \in 1..Len(inbox) : inbox[i].kind \in Ends \cup {"error"}

\* R has the first rows, and the next ones are on their way.
Given ==
  /\ \A k \in 1..Len(rowsOut) : rowsOut[k] = k
  /\ \A k \in 1..Len(frame) : frame[k] = Len(rowsOut) + k
  /\ RowAhead => res.row = Len(rowsOut) + Len(frame) + 1

Coming ==
  Executing =>
    /\ Taken <= produced
    /\ \A i \in 1..Len(inbox) : inbox[i].kind = "row" =>
         /\ Taken < inbox[i].row /\ inbox[i].row <= produced
         /\ \A j \in (i + 1)..Len(inbox) :
              inbox[j].kind = "row" => inbox[j].row > inbox[i].row
    /\ \A n \in (Taken + 1)..produced :
         \E i \in 1..Len(inbox) : inbox[i].kind = "row" /\ inbox[i].row = n

\* The data frame, the cache and the row read ahead have the same columns.
Columns ==
  /\ RowAhead => dataReady /\ res.cols = cols /\ cols # NoCols
  /\ Executing /\ caller = "fetch" /\ pc # "R" => frameCols = cols /\ cols # NoCols
  /\ Reading /\ ~complete /\ dataReady =>
       /\ inbox # <<>> /\ inbox[1].kind = "row" => inbox[1].cols = cols
       /\ inbox = <<>> => todo # <<>> /\ Head(todo) = cols

\* The inductive invariant.
Sound ==
  /\ TypeOK /\ Control /\ Commands /\ Wire /\ Order /\ RowsOfOne
  /\ Outcome /\ Given /\ Coming /\ Columns

(***************************************************************************)
(* The queue.                                                              *)
(***************************************************************************)

LEMMA ReadOne ==
  ASSUME NEW s \in Seq(Messages), s # <<>>
  PROVE  /\ Tail(s) \in Seq(Messages) /\ Len(Tail(s)) = Len(s) - 1
         /\ Len(s) \in Nat /\ Len(s) >= 1
         /\ Head(s) = s[1] /\ s[1] \in Messages
         /\ \A i \in 1..(Len(s) - 1) : Tail(s)[i] = s[i + 1]
         /\ Len(s) = 1 => Tail(s) = <<>>
<1>1. Len(s) \in Nat /\ Len(s) >= 1
  BY EmptySeq
<1>2. Head(s) = s[1] /\ s[1] \in Messages
  BY <1>1, ElementOfSeq
<1>3. Tail(s) \in Seq(Messages) /\ Len(Tail(s)) = Len(s) - 1
  BY HeadTailProperties
<1>4. \A i \in 1..(Len(s) - 1) : Tail(s)[i] = s[i + 1]
  BY <1>1
<1>5. \A t \in Seq(Messages) : Len(t) = 0 => t = <<>>
  BY EmptySeq
<1>6. Len(s) = 1 => Tail(s) = <<>>
  <2> SUFFICES ASSUME Len(s) = 1 PROVE Tail(s) = <<>>
    OBVIOUS
  <2>1. Len(Tail(s)) = 0
    BY <1>3
  <2> QED
    BY <1>3, <1>5, <2>1, Zenon
<1> QED
  BY <1>1, <1>2, <1>3, <1>4, <1>6

LEMMA SendOne ==
  ASSUME NEW s \in Seq(Messages), NEW m \in Messages
  PROVE  /\ Append(s, m) \in Seq(Messages) /\ Len(Append(s, m)) = Len(s) + 1
         /\ \A i \in 1..Len(s) : Append(s, m)[i] = s[i]
         /\ Append(s, m)[Len(s) + 1] = m
         /\ Append(s, m) # <<>>
  OBVIOUS

LEMMA QueryTypes ==
  ASSUME NEW q \in Queries
  PROVE  /\ q.immediate \in BOOLEAN /\ q.params \in BOOLEAN
         /\ q.stmts \in Seq(AnyCols) /\ q.stmts # <<>> /\ Head(q.stmts) \in AnyCols
         /\ ~q.immediate => Len(q.stmts) = 1
         /\ q.immediate => ~q.params
<1>1. q.stmts \in Seq(AnyCols) /\ q.stmts # <<>>
  BY QueriesAssumption DEF AnyCols
<1>2. Head(q.stmts) \in AnyCols
  BY <1>1
<1> QED
  BY <1>1, <1>2, QueriesAssumption

LEMMA SoundInit == Init => Sound
<1> SUFFICES ASSUME Init PROVE Sound
  OBVIOUS
<1> USE DEF Init
<1>1. TypeOK
  <2>1. 0 \in 0..MaxRows
    BY BoundsAssumption
  <2>2. NoRow \in [row : Nat, cols : AnyCols] /\ NoCols \in AnyCols
    BY DEF NoRow, AnyCols
  <2>3. /\ inbox \in Seq([kind : MsgKinds, row : Nat, cols : AnyCols, count : Nat])
        /\ frame \in Seq(Nat) /\ rowsOut \in Seq(Nat) /\ todo \in Seq(AnyCols)
    OBVIOUS
  <2> QED
    <3>1. query.params => group <= groups
      OBVIOUS
    <3>2. limit \in Int /\ frameCols \in AnyCols /\ cols \in AnyCols /\ res \in [row : Nat, cols : AnyCols]
      BY <2>2
    <3> QED
      BY <2>1, <2>3, <3>1, <3>2 DEF TypeOK
<1>2. Control /\ Commands /\ Wire /\ Order /\ RowsOfOne
  BY DEF Control, Commands, Wire, Order, RowsOfOne, Reading, Inside, WireIdle
<1>3. Outcome /\ Given /\ Coming /\ Columns
  BY DEF Outcome, Given, Coming, Columns, Reading, Executing, RowAhead, Inside
<1> QED
  BY <1>1, <1>2, <1>3 DEF Sound

(***************************************************************************)
(* The server.                                                             *)
(***************************************************************************)

\* What the server leaves alone.
ClientIdle == UNCHANGED <<cacheVars, pc, caller, bindVars, flagVars, res, fetchVars,
                          rowsOut, told, sends>>

\* A message that is not a row leaves alone what the rows say.
LEMMA ServerSends ==
  ASSUME Sound, ClientIdle, NEW m \in Messages, m.kind # "row", inbox' = Append(inbox, m),
         produced' = produced, broken => broken'
  PROVE  /\ Reading' = Reading /\ Executing' = Executing /\ RowAhead' = RowAhead
         /\ Given' /\ Coming'
         /\ inbox' \in Seq(Messages) /\ Len(inbox') = Len(inbox) + 1 /\ Len(inbox) \in Nat
         /\ \A i \in 1..Len(inbox) : inbox'[i] = inbox[i]
         /\ inbox'[Len(inbox) + 1] = m /\ inbox' # <<>>
<1> USE DEF ClientIdle, cacheVars, bindVars, flagVars, fetchVars
<1>1. inbox \in Seq(Messages)
  BY DEF Sound, TypeOK, Messages
<1>2. /\ inbox' \in Seq(Messages) /\ Len(inbox') = Len(inbox) + 1 /\ Len(inbox) \in Nat
      /\ \A i \in 1..Len(inbox) : inbox'[i] = inbox[i]
      /\ inbox'[Len(inbox) + 1] = m /\ inbox' # <<>>
  BY <1>1, SendOne
<1>3. Reading' = Reading /\ Executing' = Executing
  BY DEF Reading, Executing
<1>4. RowAhead' = RowAhead
  BY <1>3 DEF RowAhead
<1>5. Taken' = Taken
  BY <1>4 DEF Taken
<1>6. Given'
  BY <1>4 DEF Sound, Given
<1>7. Coming'
  BY <1>2, <1>3, <1>5 DEF Sound, Coming
<1> QED
  BY <1>2, <1>3, <1>4, <1>6, <1>7

LEMMA SoundSendRow ==
  ASSUME Sound, SendRow
  PROVE  Sound'
<1> DEFINE m == Message("row", produced', Head(todo), 0)
<1>1. /\ inbox \in Seq(Messages) /\ m \in Messages /\ inbox' = Append(inbox, m)
      /\ todo' = todo /\ todo # <<>> /\ Head(todo) \in Cols /\ Head(todo) # NoCols
      /\ todo \in Seq(AnyCols)
      /\ m.kind = "row" /\ m.row = produced' /\ m.cols = Head(todo)
      /\ produced \in Nat /\ produced' \in Nat
  BY DEF Sound, TypeOK, SendRow, Message, Messages, MsgKinds, AnyCols
<1> HIDE DEF m
<1>2. /\ inbox' \in Seq(Messages) /\ Len(inbox') = Len(inbox) + 1 /\ Len(inbox) \in Nat
      /\ \A i \in 1..Len(inbox) : inbox'[i] = inbox[i]
      /\ inbox'[Len(inbox) + 1] = m /\ inbox' # <<>>
  BY <1>1, SendOne
<1>3. /\ UNCHANGED <<query, pc, caller, group, groups, affected, ready, complete, dataReady,
                     limit, frameCols, frame, nrows, res, cols, rowsOut, told, sends,
                     todo, serving, cancelled, counted, broken>>
      /\ sent' = sent + 1 /\ sent < MaxRows
      /\ produced' = IF sends > 0 THEN produced + 1 ELSE produced
  BY DEF SendRow, Counts, cacheVars, bindVars, flagVars, fetchVars
<1>4. Reading' = Reading /\ Executing' = Executing /\ RowAhead' = RowAhead /\ Taken' = Taken
  BY <1>3 DEF Reading, Executing, RowAhead, Taken
<1>5. TypeOK'
  <2>1. sent' \in 0..MaxRows
    BY <1>3, BoundsAssumption DEF Sound, TypeOK
  <2> QED
    BY <1>1, <1>2, <1>3, <2>1 DEF Sound, TypeOK, Messages
<1>6. Control'
  BY <1>3 DEF Sound, Control
<1>7. ~OnlyReady
  BY <1>1 DEF OnlyReady
<1>8. Commands'
  BY <1>3, <1>4, <1>7 DEF Sound, Commands
<1>9. Wire'
  BY <1>1, <1>3, <1>7 DEF Sound, Wire, WireIdle
<1>10. Order'
  <2>1. \A i \in 1..Len(inbox) :
          /\ inbox[i].kind \notin {"ready", "error"}
          /\ query.immediate \/ inbox[i].kind \notin Ends
    BY <1>1 DEF Sound, Order, Wire
  <2> QED
    BY <1>1, <1>2, <1>3, <2>1 DEF Order, Ends
<1>11. RowsOfOne'
  BY <1>1, <1>2, <1>3 DEF Sound, RowsOfOne
<1>12. Outcome'
  BY <1>1, <1>2, <1>3, <1>4 DEF Sound, Outcome
<1>13. Given'
  BY <1>3, <1>4 DEF Sound, Given
<1>14. Coming'
  <2> SUFFICES ASSUME Executing
               PROVE  Coming'
    BY <1>4 DEF Coming
  <2>1. produced' = produced + 1 /\ Taken <= produced /\ Taken \in Nat
    BY <1>3 DEF Sound, TypeOK, Coming, Executing, Taken
  <2>2. \A i \in 1..Len(inbox) : inbox[i].kind = "row" =>
          /\ Taken < inbox[i].row /\ inbox[i].row <= produced
          /\ \A j \in (i + 1)..Len(inbox) :
               inbox[j].kind = "row" => inbox[j].row > inbox[i].row
    BY DEF Sound, Coming
  <2>3. \A i \in 1..Len(inbox') : inbox'[i].kind = "row" =>
          /\ Taken < inbox'[i].row /\ inbox'[i].row <= produced'
          /\ \A j \in (i + 1)..Len(inbox') :
               inbox'[j].kind = "row" => inbox'[j].row > inbox'[i].row
    <3> SUFFICES ASSUME NEW i \in 1..Len(inbox'), inbox'[i].kind = "row"
                 PROVE  /\ Taken < inbox'[i].row /\ inbox'[i].row <= produced'
                        /\ \A j \in (i + 1)..Len(inbox') :
                             inbox'[j].kind = "row" => inbox'[j].row > inbox'[i].row
      OBVIOUS
    <3>1. CASE i = Len(inbox) + 1
      BY <1>1, <1>2, <2>1, <3>1
    <3>2. CASE i # Len(inbox) + 1
      <4>1. /\ i \in 1..Len(inbox) /\ inbox'[i] = inbox[i]
            /\ inbox[i].row \in Nat /\ Taken < inbox[i].row /\ inbox[i].row <= produced
        <5>1. i \in 1..Len(inbox) /\ inbox'[i] = inbox[i]
          BY <1>2, <3>2
        <5>2. inbox[i] \in Messages
          BY <1>1, <5>1, ElementOfSeq
        <5> QED
          BY <2>2, <5>1, <5>2 DEF Messages
      <4>2. ASSUME NEW j \in (i + 1)..Len(inbox'), inbox'[j].kind = "row"
            PROVE  inbox'[j].row > inbox[i].row
        <5>1. CASE j = Len(inbox) + 1
          BY <1>1, <1>2, <2>1, <4>1, <5>1
        <5>2. CASE j # Len(inbox) + 1
          BY <1>1, <1>2, <2>2, <4>1, <4>2, <5>2
        <5> QED
          BY <5>1, <5>2
      <4> QED
        BY <1>1, <2>1, <4>1, <4>2
    <3> QED
      BY <3>1, <3>2
  <2>4. \A n \in (Taken + 1)..produced :
          \E i \in 1..Len(inbox) : inbox[i].kind = "row" /\ inbox[i].row = n
    BY DEF Sound, Coming
  <2>5. \A n \in (Taken + 1)..produced' :
          \E i \in 1..Len(inbox') : inbox'[i].kind = "row" /\ inbox'[i].row = n
    <3> SUFFICES ASSUME NEW n \in (Taken + 1)..produced'
                 PROVE  \E i \in 1..Len(inbox') : inbox'[i].kind = "row" /\ inbox'[i].row = n
      OBVIOUS
    <3>1. CASE n = produced'
      BY <1>1, <1>2, <3>1
    <3>2. CASE n # produced'
      <4>1. n \in (Taken + 1)..produced
        BY <2>1, <3>2, <1>1
      <4> QED
        BY <1>2, <2>4, <4>1
    <3> QED
      BY <3>1, <3>2
  <2>6. Taken' <= produced'
    BY <1>1, <1>4, <2>1
  <2> QED
    BY <1>4, <2>3, <2>5, <2>6, Zenon DEF Coming
<1>15. Columns'
  BY <1>1, <1>2, <1>3, <1>4 DEF Sound, Columns
<1> QED
  BY <1>5, <1>6, <1>8, <1>9, <1>10, <1>11, <1>12, <1>13, <1>14, <1>15 DEF Sound

\* While a statement is running, nothing but rows and the ends of statements
\* that others follow is on its way.
LEMMA Running ==
  ASSUME Sound, todo # <<>>
  PROVE  /\ ~OnlyReady /\ serving /\ ~WireIdle
         /\ \A i \in 1..Len(inbox) :
              /\ inbox[i].kind \notin {"ready", "error"}
              /\ query.immediate \/ inbox[i].kind \notin Ends
  BY DEF Sound, Order, Wire, OnlyReady, WireIdle

LEMMA SoundFinishStatement ==
  ASSUME Sound, FinishStatement
  PROVE  Sound'
<1>1. PICK m \in Messages :
        /\ m.kind \in Ends /\ inbox' = Append(inbox, m)
        /\ counted' \in Nat
  <2>1. CASE Head(todo) # NoCols
    <3> DEFINE m == Message("tuples_ok", 0, Head(todo), sent)
    <3>1. m \in Messages /\ m.kind \in Ends
      BY DEF Sound, TypeOK, FinishStatement, Message, Messages, MsgKinds, Ends
    <3> QED
      BY <2>1, <3>1 DEF FinishStatement, Sound, TypeOK
  <2>2. CASE Head(todo) = NoCols
    <3>1. PICK n \in 0..MaxRows :
            /\ inbox' = Append(inbox, Message("command_ok", 0, NoCols, n))
            /\ counted' = IF Counts THEN counted + n ELSE counted
      BY <2>2 DEF FinishStatement
    <3> DEFINE m == Message("command_ok", 0, NoCols, n)
    <3>2. m \in Messages /\ m.kind \in Ends
      BY DEF Message, Messages, MsgKinds, Ends, AnyCols
    <3> QED
      BY <3>1, <3>2 DEF Sound, TypeOK
  <2> QED
    BY <2>1, <2>2
<1>2. /\ ClientIdle /\ UNCHANGED <<serving, cancelled, produced, broken>>
      /\ todo # <<>> /\ todo' = Tail(todo) /\ sent' = 0
  BY DEF FinishStatement, ClientIdle
<1>3. m.kind # "row" /\ m.kind # "ready" /\ m.kind # "error"
  BY <1>1 DEF Ends
<1>4. /\ Reading' = Reading /\ Executing' = Executing /\ RowAhead' = RowAhead
      /\ Given' /\ Coming'
      /\ inbox' \in Seq(Messages) /\ Len(inbox') = Len(inbox) + 1 /\ Len(inbox) \in Nat
      /\ \A i \in 1..Len(inbox) : inbox'[i] = inbox[i]
      /\ inbox'[Len(inbox) + 1] = m /\ inbox' # <<>>
  BY <1>1, <1>2, <1>3, ServerSends
<1>5. /\ UNCHANGED <<query, pc, caller, group, groups, affected, ready, complete, dataReady,
                     limit, frameCols, frame, nrows, res, cols, rowsOut, told, sends>>
  BY <1>2 DEF ClientIdle, cacheVars, bindVars, flagVars, fetchVars
<1>14. Control'
  BY <1>2, <1>5 DEF Sound, Control
<1>6. todo' \in Seq(AnyCols) /\ (~query.immediate => todo' = <<>>) /\ (Len(todo) <= 1 => Len(todo') <= 1)
  <2>1. todo \in Seq(AnyCols)
    BY DEF Sound, TypeOK
  <2>2. todo' \in Seq(AnyCols) /\ Len(todo') = Len(todo) - 1 /\ Len(todo) \in Nat \ {0}
    BY <1>2, <2>1, HeadTailProperties, EmptySeq
  <2>3. \A t \in Seq(AnyCols) : t # <<>> => Len(t) \in Nat \ {0}
    BY EmptySeq
  <2>4. ~query.immediate => Len(todo') = 0
    BY <2>2 DEF Sound, Wire
  <2>5. Len(todo') = 0 => todo' = <<>>
    BY <2>2, <2>3
  <2> QED
    BY <2>2, <2>4, <2>5
<1>7. TypeOK'
  <2>1. 0 \in 0..MaxRows
    BY BoundsAssumption
  <2> QED
    BY <1>1, <1>2, <1>4, <1>5, <1>6, <2>1 DEF Sound, TypeOK, Messages
<1>8. Commands'
  BY <1>2, <1>4, <1>5, Running DEF Sound, Commands
<1>9. Wire'
  BY <1>2, <1>5, <1>6, Running DEF Sound, Wire
<1>10. Order'
  BY <1>1, <1>2, <1>3, <1>4, <1>5, <1>6, Running DEF Order, Ends
<1>11. RowsOfOne'
  BY <1>3, <1>4 DEF Sound, RowsOfOne
<1>12. Outcome'
  BY <1>1, <1>2, <1>4, <1>5 DEF Sound, Outcome
<1>13. Columns'
  BY <1>2, <1>3, <1>4, <1>5 DEF Sound, Columns
<1> QED
  BY <1>4, <1>7, <1>8, <1>9, <1>10, <1>11, <1>12, <1>13, <1>14 DEF Sound

LEMMA SoundFailStatement ==
  ASSUME Sound, FailStatement
  PROVE  Sound'
<1> DEFINE m == Message("error", 0, NoCols, 0)
<1>1. m \in Messages /\ m.kind = "error" /\ inbox' = Append(inbox, m)
  BY DEF FailStatement, Message, Messages, MsgKinds, AnyCols
<1> HIDE DEF m
<1>2. /\ ClientIdle /\ UNCHANGED <<serving, cancelled, produced, counted>>
      /\ todo # <<>> /\ todo' = <<>> /\ sent' = 0
      /\ broken' = (broken \/ sends > 0)
  BY DEF FailStatement, ClientIdle, Counts
<1>3. m.kind # "row" /\ m.kind # "ready"
  BY <1>1
<1>4. /\ Reading' = Reading /\ Executing' = Executing /\ RowAhead' = RowAhead
      /\ Given' /\ Coming'
      /\ inbox' \in Seq(Messages) /\ Len(inbox') = Len(inbox) + 1 /\ Len(inbox) \in Nat
      /\ \A i \in 1..Len(inbox) : inbox'[i] = inbox[i]
      /\ inbox'[Len(inbox) + 1] = m /\ inbox' # <<>>
  BY <1>1, <1>2, <1>3, ServerSends
<1>5. /\ UNCHANGED <<query, pc, caller, group, groups, affected, ready, complete, dataReady,
                     limit, frameCols, frame, nrows, res, cols, rowsOut, told, sends>>
  BY <1>2 DEF ClientIdle, cacheVars, bindVars, flagVars, fetchVars
<1>6. /\ 0 \in 0..MaxRows /\ broken' \in BOOLEAN
  BY <1>2, BoundsAssumption DEF Sound, TypeOK
<1>7. TypeOK'
  BY <1>2, <1>4, <1>5, <1>6 DEF Sound, TypeOK, Messages
<1>8. Commands'
  BY <1>2, <1>4, <1>5, Running DEF Sound, Commands
<1>9. Wire'
  BY <1>2, <1>5, Running DEF Sound, Wire
<1>10. Order'
  BY <1>1, <1>2, <1>4, <1>5, Running DEF Order
<1>11. RowsOfOne'
  BY <1>3, <1>4 DEF Sound, RowsOfOne
<1>12. Outcome'
  <2>1. Executing => Reading
    BY Running, <1>2 DEF Sound, Wire, Executing, Reading
  <2> QED
    BY <1>1, <1>4, <2>1 DEF Outcome
<1>13. Columns'
  BY <1>3, <1>4, <1>5 DEF Sound, Columns
<1>14. Control'
  <2>1. sends = 0 => broken' = broken
    BY <1>2 DEF Sound, TypeOK
  <2> QED
    BY <1>2, <1>5, <2>1 DEF Sound, Control
<1> QED
  BY <1>4, <1>7, <1>8, <1>9, <1>10, <1>11, <1>12, <1>13, <1>14 DEF Sound

LEMMA SoundEndCommand ==
  ASSUME Sound, EndCommand
  PROVE  Sound'
<1> DEFINE m == Message("ready", 0, NoCols, 0)
<1>1. m \in Messages /\ m.kind = "ready" /\ inbox' = Append(inbox, m)
  BY DEF EndCommand, Message, Messages, MsgKinds, AnyCols
<1> HIDE DEF m
<1>2. /\ ClientIdle /\ UNCHANGED <<todo, sent, produced, counted, broken>>
      /\ todo = <<>> /\ serving /\ serving' = FALSE /\ cancelled' = FALSE
  BY DEF EndCommand, ClientIdle, pastVars
<1>3. m.kind # "row" /\ m.kind # "error"
  BY <1>1
<1>4. /\ Reading' = Reading /\ Executing' = Executing /\ RowAhead' = RowAhead
      /\ Given' /\ Coming'
      /\ inbox' \in Seq(Messages) /\ Len(inbox') = Len(inbox) + 1 /\ Len(inbox) \in Nat
      /\ \A i \in 1..Len(inbox) : inbox'[i] = inbox[i]
      /\ inbox'[Len(inbox) + 1] = m /\ inbox' # <<>>
  BY <1>1, <1>2, <1>3, ServerSends
<1>5. /\ UNCHANGED <<query, pc, caller, group, groups, affected, ready, complete, dataReady,
                     limit, frameCols, frame, nrows, res, cols, rowsOut, told, sends>>
  BY <1>2 DEF ClientIdle, cacheVars, bindVars, flagVars, fetchVars
<1>6. Control'
  BY <1>2, <1>5 DEF Sound, Control
<1>7. TypeOK'
  BY <1>2, <1>4, <1>5 DEF Sound, TypeOK, Messages
<1>8. OnlyReady => OnlyReady'
  BY <1>1, <1>2, <1>4 DEF OnlyReady
<1>9. Commands'
  BY <1>4, <1>5, <1>8 DEF Sound, Commands
<1>10. Wire'
  BY <1>2, <1>5, <1>8 DEF Sound, Wire, WireIdle
<1>11. Order'
  <2>1. \A i \in 1..Len(inbox) : inbox[i].kind # "ready"
    BY <1>2 DEF Sound, Order
  <2> QED
    BY <1>1, <1>2, <1>4, <1>5, <2>1 DEF Sound, Order, Ends
<1>12. RowsOfOne'
  BY <1>2, <1>3, <1>4 DEF Sound, RowsOfOne
<1>13. Outcome'
  BY <1>1, <1>2, <1>4, <1>5 DEF Sound, Outcome
<1>14. Columns'
  BY <1>2, <1>3, <1>4, <1>5 DEF Sound, Columns
<1> QED
  BY <1>4, <1>6, <1>7, <1>9, <1>10, <1>11, <1>12, <1>13, <1>14 DEF Sound

(***************************************************************************)
(* Calls that read nothing.                                                *)
(***************************************************************************)

\* What the server has sent stays as it is.
LEMMA QueueKept ==
  ASSUME Sound, UNCHANGED <<query, inbox, todo, serving>>
  PROVE  Order' /\ RowsOfOne' /\ WireIdle' = WireIdle /\ OnlyReady' = OnlyReady
<1>1. Order' /\ RowsOfOne'
  BY DEF Sound, Order, RowsOfOne
<1>2. WireIdle' = WireIdle /\ OnlyReady' = OnlyReady
  BY DEF WireIdle, OnlyReady
<1> QED
  BY <1>1, <1>2

\* Nothing is promised while no command is being executed.
LEMMA NotExecuting ==
  ASSUME Sound, ~Executing', frame' = <<>>, rowsOut' \in {rowsOut, <<>>}
  PROVE  ~Reading' /\ ~RowAhead' /\ Outcome' /\ Given' /\ Coming' /\ Columns'
<1>1. ~Reading' /\ ~RowAhead'
  BY DEF Executing, Reading, RowAhead
<1>2. Outcome' /\ Coming' /\ Columns'
  BY <1>1 DEF Outcome, Coming, Columns
<1>3. Given'
  BY <1>1 DEF Sound, Given
<1> QED
  BY <1>1, <1>2, <1>3

LEMMA SoundCreate ==
  ASSUME Sound, NEW q \in Queries, Create(q)
  PROVE  Sound'
<1>1. inbox = <<>> /\ ~serving /\ todo = <<>> /\ frame = <<>>
  BY DEF Sound, Wire, WireIdle, Create, Control, Inside
<1>2. /\ UNCHANGED <<limit, frameCols, frame, todo, serving, sent, cancelled, inbox>>
      /\ query' = q /\ cols' = (IF q.immediate THEN NoCols ELSE Head(q.stmts))
      /\ caller' = "ctor" /\ pc' = (IF q.params THEN "R" ELSE "send")
      /\ ready' = FALSE /\ complete' = FALSE /\ dataReady' = FALSE
      /\ group' = 0 /\ groups' = (IF q.params THEN 0 ELSE 1) /\ affected' = 0
      /\ nrows' = 0 /\ res' = NoRow
      /\ rowsOut' = <<>> /\ told' = FALSE
      /\ sends' = 0 /\ produced' = 0 /\ counted' = 0 /\ broken' = FALSE
  BY DEF Create, Forget, serverVars
<1>3. /\ q.immediate \in BOOLEAN /\ q.params \in BOOLEAN /\ Head(q.stmts) \in AnyCols
      /\ (q.immediate => ~q.params)
  BY QueryTypes
<1>4. NoRow \in [row : Nat, cols : AnyCols] /\ NoCols \in AnyCols /\ <<>> \in Seq(Nat)
  BY DEF NoRow, AnyCols
<1>5. TypeOK'
  <2>1. group' <= groups' /\ group' \in Nat /\ groups' \in Nat
    BY <1>2
  <2> QED
    BY <1>2, <1>3, <1>4, <2>1 DEF Sound, TypeOK
<1>6. Control'
  BY <1>1, <1>2, <1>3 DEF Control, Inside
<1>7. Commands' /\ Wire' /\ Order' /\ RowsOfOne'
  BY <1>1, <1>2, <1>3 DEF Commands, Reading, Wire, WireIdle, Order, RowsOfOne
<1>8. Outcome' /\ Given' /\ Coming' /\ Columns'
  BY <1>1, <1>2, NotExecuting DEF Executing
<1> QED
  BY <1>5, <1>6, <1>7, <1>8 DEF Sound

LEMMA SoundBind ==
  ASSUME Sound, NEW n \in Groups, Bind(n)
  PROVE  Sound'
<1>1. frame = <<>>
  BY DEF Sound, Bind, Control, Inside
<1>2. /\ UNCHANGED <<query, cols, ready, complete, dataReady, res, limit, frameCols, frame,
                     nrows, todo, serving, sent, cancelled, inbox>>
      /\ pc = "R" /\ query.params /\ n > 0
      /\ groups' = n /\ group' = 0 /\ affected' = 0 /\ caller' = "bind"
      /\ pc' = (IF ready THEN "drain" ELSE "send")
      /\ rowsOut' = <<>> /\ told' = FALSE
      /\ sends' = 0 /\ produced' = 0 /\ counted' = 0 /\ broken' = FALSE
  BY DEF Bind, DrainFirst, Forget, cacheVars, flagVars, fetchVars, serverVars
<1>3. n \in Nat /\ <<>> \in Seq(Nat)
  BY BoundsAssumption
<1>4. ~query.immediate
  BY <1>2, QueryTypes DEF Sound, TypeOK
<1>5. TypeOK'
  <2>1. group' <= groups'
    BY <1>2, <1>3
  <2> QED
    BY <1>2, <1>3, <2>1 DEF Sound, TypeOK
<1>6. Control'
  BY <1>1, <1>2, <1>3, <1>4 DEF Sound, TypeOK, Control, Inside
<1>7. Commands' /\ Wire' /\ Order' /\ RowsOfOne'
  BY <1>2, <1>4, QueueKept DEF Sound, TypeOK, Commands, Reading, Wire
<1>8. Outcome' /\ Given' /\ Coming' /\ Columns'
  BY <1>1, <1>2, NotExecuting DEF Executing
<1> QED
  BY <1>5, <1>6, <1>7, <1>8 DEF Sound

LEMMA SoundBindNothing ==
  ASSUME Sound, BindNothing
  PROVE  Sound'
<1>1. frame = <<>>
  BY DEF Sound, BindNothing, Control, Inside
<1>2. /\ UNCHANGED <<query, pc, caller, cols, dataReady, res, limit, frameCols, frame,
                     todo, serving, sent, cancelled, inbox>>
      /\ pc = "R" /\ query.params
      /\ groups' = 0 /\ group' = 0 /\ affected' = 0
      /\ ready' = TRUE /\ nrows' = 0 /\ complete' = TRUE
      /\ rowsOut' = <<>> /\ told' = FALSE
      /\ sends' = 0 /\ produced' = 0 /\ counted' = 0 /\ broken' = FALSE
  BY DEF BindNothing, Forget, cacheVars, serverVars
<1>4. ~query.immediate
  BY <1>2, QueryTypes DEF Sound, TypeOK
<1>5. TypeOK'
  <2>1. <<>> \in Seq(Nat) /\ group' <= groups'
    BY <1>2
  <2> QED
    BY <1>2, <2>1 DEF Sound, TypeOK
<1>6. Control'
  BY <1>1, <1>2, <1>4 DEF Sound, TypeOK, Control, Inside
<1>7. Commands' /\ Wire' /\ Order' /\ RowsOfOne'
  BY <1>2, <1>4, QueueKept DEF Sound, TypeOK, Commands, Reading, Wire
<1>8. Outcome' /\ Given' /\ Coming' /\ Columns'
  BY <1>1, <1>2, NotExecuting DEF Executing
<1> QED
  BY <1>5, <1>6, <1>7, <1>8 DEF Sound

LEMMA SoundClose ==
  ASSUME Sound, Close
  PROVE  Sound'
<1>1. frame = <<>>
  BY DEF Sound, Close, Control, Inside
<1>2. /\ UNCHANGED <<query, caller, group, groups, affected, ready, complete, dataReady, cols,
                     res, limit, frameCols, frame, nrows, todo, serving, sent, inbox,
                     rowsOut, told, sends, produced, counted, broken>>
      /\ cancelled' \in BOOLEAN /\ pc = "R" /\ pc' = "closing"
  BY DEF Close, cacheVars, bindVars, flagVars, fetchVars, pastVars, Sound, TypeOK
<1>3. TypeOK' /\ Control'
  BY <1>1, <1>2 DEF Sound, TypeOK, Control, Inside
<1>4. Commands' /\ Wire' /\ Order' /\ RowsOfOne'
  BY <1>2, QueueKept DEF Sound, Commands, Reading, Inside, Wire
<1>5. Outcome' /\ Given' /\ Coming' /\ Columns'
  BY <1>1, <1>2, NotExecuting DEF Executing, Inside
<1> QED
  BY <1>3, <1>4, <1>5 DEF Sound

LEMMA SoundSend ==
  ASSUME Sound, Send
  PROVE  Sound'
<1>1. /\ UNCHANGED <<query, cols, caller, group, groups, affected, res, limit, frameCols, frame,
                     inbox, rowsOut, told, produced, counted, broken>>
      /\ pc = "send" /\ pc' = "step" /\ WireIdle
      /\ todo' = query.stmts /\ serving' = TRUE /\ sent' = 0 /\ cancelled' = FALSE
      /\ dataReady' = FALSE /\ sends' = sends + 1
      /\ group = 0 => ready' = TRUE /\ nrows' = 0 /\ complete' = FALSE
      /\ group # 0 => UNCHANGED <<ready, nrows, complete>>
  BY DEF Send, InitResult, cacheVars, bindVars
<1>2. /\ inbox = <<>> /\ ~told /\ sends = group /\ group < groups
      /\ sends \in Nat /\ group \in Nat /\ groups \in Nat /\ sends' > 0
  BY <1>1 DEF Sound, Control, TypeOK, WireIdle
<1>3. ready' = TRUE /\ complete' = FALSE /\ ~broken
  BY <1>1, <1>2 DEF Sound, Control, TypeOK, Outcome, Executing, Reading, Inside
<1>4. /\ query.stmts \in Seq(AnyCols) /\ query.stmts # <<>>
      /\ ~query.immediate => Len(query.stmts) = 1
  BY QueryTypes DEF Sound, TypeOK
<1>5. TypeOK'
  <2>1. 0 \in 0..MaxRows
    BY BoundsAssumption
  <2>2. sends' \in Nat /\ nrows' \in Nat
    BY <1>1, <1>2 DEF Sound, TypeOK
  <2> QED
    BY <1>1, <1>3, <1>4, <2>1, <2>2 DEF Sound, TypeOK
<1>6. Control'
  BY <1>1, <1>2, <1>3 DEF Sound, Control, Inside
<1>7. Commands'
  <2>1. query.immediate => groups = 1 /\ sends = 0
    BY <1>1, <1>2 DEF Sound, Commands
  <2> QED
    BY <1>1, <1>2, <1>3, <2>1 DEF Commands
<1>8. Wire' /\ Order' /\ RowsOfOne'
  <2>1. Wire'
    <3>1. ~query'.immediate => Len(todo') <= 1
      <4>1. query' = query /\ todo' = query.stmts
        BY <1>1
      <4>2. ASSUME ~query.immediate PROVE Len(query.stmts) <= 1
        <5>1. Len(query.stmts) = 1
          BY <1>4, <4>2
        <5> QED
          BY <5>1
      <4> QED
        BY <4>1, <4>2
    <3>2. pc' \notin {"gone", "send", "R", "drain"} /\ serving'
      BY <1>1
    <3> QED
      BY <3>1, <3>2 DEF Wire
  <2>2. Len(inbox') = 0
    BY <1>1, <1>2
  <2> QED
    BY <2>1, <2>2 DEF Order, RowsOfOne
<1>9. Outcome'
  BY <1>1, <1>3, <1>4 DEF Outcome
<1>10. ~RowAhead /\ ~RowAhead'
  BY <1>1 DEF RowAhead, Reading, Inside
<1>11. Given'
  BY <1>1, <1>10 DEF Sound, Given
<1>12. Coming'
  <2>1. Taken' = Taken
    BY <1>1, <1>10 DEF Taken
  <2>2. Taken <= produced /\ \A n \in (Taken + 1)..produced : FALSE
    <3>1. CASE sends = 0
      BY <1>10, <3>1 DEF Sound, Control, Taken
    <3>2. CASE sends # 0
      BY <1>1, <1>2, <3>2 DEF Sound, Coming, Executing
    <3> QED
      BY <3>1, <3>2
  <2> QED
    BY <1>1, <1>2, <2>1, <2>2 DEF Coming
<1>13. Columns'
  BY <1>1, <1>2, <1>10 DEF Sound, Control, Columns, Executing
<1> QED
  BY <1>5, <1>6, <1>7, <1>8, <1>9, <1>11, <1>12, <1>13 DEF Sound

\* A call goes on, from one place inside it to another.
LEMMA SoundBeginFetch ==
  ASSUME Sound, NEW n \in {-1, 1, 2}, BeginFetch(n), FetchAfterError = FALSE
  PROVE  Sound'
<1>1. /\ UNCHANGED <<query, cols, group, groups, affected, ready, complete, dataReady, res, nrows,
                     todo, serving, sent, cancelled, inbox,
                     rowsOut, told, sends, produced, counted, broken>>
      /\ pc = "R" /\ ready /\ ~complete /\ ~told
      /\ caller' = "fetch" /\ limit' = n /\ frameCols' = cols /\ frame' = <<>> /\ pc' = "fetch"
  BY DEF BeginFetch, cacheVars, bindVars, flagVars, serverVars, pastVars
<1>2. frame = <<>> /\ sends > 0
  BY <1>1 DEF Sound, Control, TypeOK, Inside
<1>3. Reading /\ Reading' /\ RowAhead /\ RowAhead' /\ Executing /\ Executing'
  BY <1>1, <1>2 DEF Reading, RowAhead, Executing, Inside
<1>4. Taken' = Taken
  BY <1>1, <1>2, <1>3 DEF Taken
<1>5. TypeOK'
  <2>1. n \in Int /\ <<>> \in Seq(Nat)
    OBVIOUS
  <2> QED
    BY <1>1, <2>1 DEF Sound, TypeOK
<1>6. Control'
  BY <1>1, <1>2 DEF Sound, Control, Inside
<1>7. Commands' /\ Wire' /\ Order' /\ RowsOfOne'
  BY <1>1, <1>3, QueueKept DEF Sound, Commands, Wire
<1>8. Outcome'
  BY <1>1, <1>3 DEF Sound, Outcome
<1>9. Given'
  BY <1>1, <1>2, <1>3 DEF Sound, Given
<1>10. Coming'
  BY <1>1, <1>3, <1>4 DEF Sound, Coming
<1>11. Columns'
  BY <1>1, <1>3 DEF Sound, Columns
<1> QED
  BY <1>5, <1>6, <1>7, <1>8, <1>9, <1>10, <1>11 DEF Sound

LEMMA SoundCopyRow ==
  ASSUME Sound, CopyRow
  PROVE  Sound'
<1>1. /\ UNCHANGED <<query, cols, caller, group, groups, affected, ready, complete, dataReady,
                     res, limit, frameCols, nrows, todo, serving, sent, cancelled, inbox,
                     rowsOut, told, sends, produced, counted, broken>>
      /\ pc = "fetch" /\ pc' = "step" /\ frame' = Append(frame, res.row)
  BY DEF CopyRow, cacheVars, bindVars, flagVars, serverVars, pastVars
<1>2. sends > 0 /\ ~told /\ ~complete /\ caller = "fetch"
  BY <1>1 DEF Sound, Control, Inside
<1>3. Reading /\ Reading' /\ RowAhead /\ ~RowAhead' /\ Executing /\ Executing'
  BY <1>1, <1>2 DEF Reading, RowAhead, Executing, Inside
<1>4. /\ frame \in Seq(Nat) /\ res.row \in Nat /\ Len(rowsOut) \in Nat
      /\ res.row = Len(rowsOut) + Len(frame) + 1
  BY <1>3 DEF Sound, TypeOK, Given
<1>5. /\ frame' \in Seq(Nat) /\ Len(frame') = Len(frame) + 1 /\ Len(frame) \in Nat
      /\ frame'[Len(frame) + 1] = res.row /\ \A k \in 1..Len(frame) : frame'[k] = frame[k]
      /\ frame' # <<>>
  BY <1>1, <1>4
<1>6. Taken' = Taken
  BY <1>1, <1>3, <1>4, <1>5 DEF Taken
<1>7. TypeOK'
  BY <1>1, <1>5 DEF Sound, TypeOK
<1>8. Control'
  BY <1>1, <1>2 DEF Sound, Control, Inside
<1>9. Commands' /\ Wire' /\ Order' /\ RowsOfOne'
  BY <1>1, <1>3, QueueKept DEF Sound, Commands, Wire
<1>10. Outcome'
  BY <1>1, <1>3 DEF Sound, Outcome
<1>11. Given'
  <2>1. \A k \in 1..Len(frame') : frame'[k] = Len(rowsOut) + k
    <3> SUFFICES ASSUME NEW k \in 1..Len(frame')
                 PROVE  frame'[k] = Len(rowsOut) + k
      OBVIOUS
    <3>1. CASE k = Len(frame) + 1
      BY <1>4, <1>5, <3>1
    <3>2. CASE k # Len(frame) + 1
      BY <1>5, <3>2 DEF Sound, Given
    <3> QED
      BY <3>1, <3>2
  <2> QED
    BY <1>1, <1>3, <2>1 DEF Sound, Given
<1>12. Coming'
  BY <1>1, <1>3, <1>6 DEF Sound, Coming
<1>13. Columns'
  BY <1>1, <1>3 DEF Sound, Columns
<1> QED
  BY <1>7, <1>8, <1>9, <1>10, <1>11, <1>12, <1>13 DEF Sound

LEMMA SoundAdvance ==
  ASSUME Sound, Advance
  PROVE  Sound'
<1>1. /\ UNCHANGED <<query, cols, caller, group, groups, affected, ready, complete, dataReady,
                     res, limit, frameCols, todo, serving, sent, cancelled, inbox,
                     told, sends, produced, counted, broken>>
      /\ pc = "advance" /\ nrows' = nrows + 1
      /\ \/ rowsOut' = rowsOut \o frame /\ frame' = <<>> /\ pc' = "R"
         \/ ~complete /\ pc' = "fetch" /\ UNCHANGED <<rowsOut, frame>>
  BY DEF Advance, cacheVars, bindVars, flagVars, serverVars
<1>2. sends > 0 /\ ~told /\ ready /\ caller = "fetch"
  BY <1>1 DEF Sound, Control, Inside
<1>3. /\ Reading /\ Reading' /\ Executing /\ Executing'
      /\ RowAhead' = RowAhead
  BY <1>1, <1>2 DEF Reading, RowAhead, Executing, Inside
<1>4. frame \in Seq(Nat) /\ rowsOut \in Seq(Nat) /\ Len(rowsOut) \in Nat /\ Len(frame) \in Nat
  BY DEF Sound, TypeOK
<1>5. /\ rowsOut' \in Seq(Nat) /\ frame' \in Seq(Nat)
      /\ Len(rowsOut') + Len(frame') = Len(rowsOut) + Len(frame)
      /\ Len(rowsOut') \in Nat /\ Len(frame') \in Nat
  <2>1. CASE rowsOut' = rowsOut \o frame /\ frame' = <<>>
    <3>1. rowsOut \o frame \in Seq(Nat) /\ Len(rowsOut \o frame) = Len(rowsOut) + Len(frame)
      BY <1>4, ConcatProperties
    <3>2. <<>> \in Seq(Nat) /\ Len(<<>>) = 0
      OBVIOUS
    <3> QED
      BY <1>4, <2>1, <3>1, <3>2
  <2>2. CASE UNCHANGED <<rowsOut, frame>>
    BY <1>4, <2>2
  <2> QED
    BY <1>1, <2>1, <2>2
<1>6. Taken' = Taken
  BY <1>3, <1>4, <1>5 DEF Taken
<1>7. TypeOK'
  <2>1. nrows' \in Nat /\ pc' \in {"R", "fetch"}
    BY <1>1 DEF Sound, TypeOK
  <2> QED
    BY <1>1, <1>5, <2>1 DEF Sound, TypeOK
<1>8. Control'
  BY <1>1, <1>2 DEF Sound, TypeOK, Control, Inside
<1>9. Commands' /\ Wire' /\ Order' /\ RowsOfOne'
  BY <1>1, <1>2, <1>3, QueueKept DEF Sound, Commands, Wire
<1>10. Outcome'
  BY <1>1, <1>3 DEF Sound, Outcome
<1>11. Given'
  <2>1. RowAhead' => res'.row = Len(rowsOut') + Len(frame') + 1
    BY <1>1, <1>3, <1>5 DEF Sound, Given
  <2>2. CASE rowsOut' = rowsOut \o frame /\ frame' = <<>>
    <3>1. \A k \in 1..Len(rowsOut') : rowsOut'[k] = k
      BY <1>4, <2>2 DEF Sound, Given
    <3> QED
      BY <2>1, <2>2, <3>1 DEF Given
  <2>3. CASE UNCHANGED <<rowsOut, frame>>
    BY <2>1, <2>3 DEF Sound, Given
  <2> QED
    BY <1>1, <2>2, <2>3
<1>12. Coming'
  BY <1>1, <1>3, <1>6 DEF Sound, Coming
<1>13. Columns'
  BY <1>1, <1>2, <1>3 DEF Sound, Columns
<1> QED
  BY <1>7, <1>8, <1>9, <1>10, <1>11, <1>12, <1>13 DEF Sound

\* What Raise leaves of the call.
Raised ==
  /\ told' = TRUE /\ frame' = <<>>
  /\ pc' = IF caller = "ctor" THEN "unwind" ELSE "R"

\* An exception ends the call and with it every promise about rows.
LEMMA SoundRaise ==
  ASSUME Sound, Raised, pc \in {"step", "advance"}, TypeOK', Wire', Order', RowsOfOne',
         UNCHANGED <<query, caller, ready, group, groups, rowsOut, sends, produced, broken>>
  PROVE  Sound'
<1>1. sends > 0 /\ ready
  BY DEF Sound, Control, Inside
<1>2. Control'
  BY <1>1 DEF Raised, Sound, TypeOK, Control, Inside
<1>3. ~Reading' /\ ~Executing'
  BY DEF Raised, Reading, Executing
<1>4. Commands'
  BY <1>3 DEF Raised, Sound, Commands
<1>5. Outcome' /\ Given' /\ Coming' /\ Columns'
  BY <1>3, NotExecuting DEF Raised
<1> QED
  BY <1>2, <1>4, <1>5 DEF Sound

LEMMA SoundAdvanceInterrupted ==
  ASSUME Sound, AdvanceInterrupted
  PROVE  Sound'
<1>1. /\ UNCHANGED <<query, cols, caller, group, groups, affected, ready, complete, dataReady,
                     res, limit, frameCols, todo, serving, sent, cancelled, inbox,
                     rowsOut, sends, produced, counted, broken>>
      /\ pc = "advance" /\ nrows' = nrows + 1 /\ Raised
  BY DEF AdvanceInterrupted, Raise, Raised, cacheVars, bindVars, flagVars, serverVars
<1>2. TypeOK'
  <2>1. nrows' \in Nat /\ pc' \in {"unwind", "R"} /\ frame' \in Seq(Nat) /\ told' \in BOOLEAN
    BY <1>1 DEF Sound, TypeOK, Raised
  <2> QED
    BY <1>1, <2>1 DEF Sound, TypeOK
<1>3. ready
  BY <1>1 DEF Sound, Control, Inside
<1>4. Wire' /\ Order' /\ RowsOfOne'
  BY <1>1, <1>3, QueueKept DEF Raised, Sound, Wire
<1> QED
  BY <1>1, <1>2, <1>4, SoundRaise

LEMMA SoundInterrupt ==
  ASSUME Sound, Interrupt
  PROVE  Sound'
<1>1. /\ UNCHANGED <<query, cols, caller, group, groups, affected, ready, limit, frameCols, nrows,
                     todo, serving, sent, inbox, rowsOut, sends, produced, counted, broken>>
      /\ pc = "step" /\ Raised /\ cancelled' = TRUE
      /\ res' = NoRow /\ dataReady' = TRUE /\ complete' = TRUE
  BY DEF Interrupt, Raise, Raised, cacheVars, bindVars
<1>2. TypeOK'
  <2>1. /\ pc' \in {"unwind", "R"} /\ frame' \in Seq(Nat) /\ told' \in BOOLEAN
        /\ NoRow \in [row : Nat, cols : AnyCols]
    BY <1>1 DEF Raised, NoRow, AnyCols
  <2> QED
    BY <1>1, <2>1 DEF Sound, TypeOK
<1>3. ready
  BY <1>1 DEF Sound, Control, Inside
<1>4. Wire' /\ Order' /\ RowsOfOne'
  BY <1>1, <1>3, QueueKept DEF Raised, Sound, Wire
<1> QED
  BY <1>1, <1>2, <1>4, SoundRaise

(***************************************************************************)
(* Reading.                                                                *)
(***************************************************************************)

\* What is left of the queue once its first message has been read.
LEMMA QueueRead ==
  ASSUME Sound, inbox # <<>>, inbox' = Tail(inbox), UNCHANGED <<query, todo, serving>>
  PROVE  /\ inbox' \in Seq(Messages) /\ Len(inbox') = Len(inbox) - 1
         /\ Len(inbox) \in Nat /\ Len(inbox) >= 1
         /\ Head(inbox) = inbox[1] /\ inbox[1] \in Messages
         /\ \A i \in 1..(Len(inbox) - 1) : inbox'[i] = inbox[i + 1]
         /\ Order' /\ RowsOfOne' /\ (OnlyReady => OnlyReady')
         /\ inbox[1].kind = "ready" => inbox' = <<>> /\ WireIdle' /\ ~serving
         /\ inbox[1].kind = "error" \/ (inbox[1].kind \in Ends /\ ~query.immediate) => OnlyReady'
<1>1. inbox \in Seq(Messages)
  BY DEF Sound, TypeOK, Messages
<1>2. /\ inbox' \in Seq(Messages) /\ Len(inbox') = Len(inbox) - 1
      /\ Len(inbox) \in Nat /\ Len(inbox) >= 1
      /\ Head(inbox) = inbox[1] /\ inbox[1] \in Messages
      /\ \A i \in 1..(Len(inbox) - 1) : inbox'[i] = inbox[i + 1]
      /\ (Len(inbox) = 1 => inbox' = <<>>)
  BY <1>1, ReadOne
<1>3. \A i \in 1..Len(inbox') : inbox'[i] = inbox[i + 1] /\ i + 1 \in 1..Len(inbox)
  BY <1>2
<1>4. Order'
  <2> SUFFICES ASSUME NEW i \in 1..Len(inbox')
               PROVE  /\ inbox'[i].kind = "ready" => i = Len(inbox') /\ ~serving
                      /\ inbox'[i].kind = "error" \/ (inbox'[i].kind \in Ends /\ ~query.immediate) =>
                           todo = <<>> /\ \A j \in (i + 1)..Len(inbox') : inbox'[j].kind = "ready"
    BY DEF Order
  <2>1. i + 1 \in 1..Len(inbox) /\ inbox'[i] = inbox[i + 1] /\ i \in Nat
    BY <1>2, <1>3
  <2>2. \A j \in (i + 1)..Len(inbox') :
          j + 1 \in (i + 1 + 1)..Len(inbox) /\ inbox'[j] = inbox[j + 1]
    BY <1>2, <1>3
  <2>3. /\ inbox[i + 1].kind = "ready" => i + 1 = Len(inbox) /\ ~serving
        /\ inbox[i + 1].kind = "error" \/ (inbox[i + 1].kind \in Ends /\ ~query.immediate) =>
             todo = <<>> /\ \A j \in (i + 1 + 1)..Len(inbox) : inbox[j].kind = "ready"
    BY <2>1 DEF Sound, Order
  <2>4. ASSUME inbox'[i].kind = "ready"
        PROVE  i = Len(inbox') /\ ~serving
    <3>1. i + 1 = Len(inbox) /\ ~serving
      BY <2>1, <2>3, <2>4
    <3>2. i = Len(inbox) - 1
      BY <2>1, <3>1
    <3>3. Len(inbox') = Len(inbox) - 1
      BY <1>2
    <3> QED
      BY <3>1, <3>2, <3>3
  <2>5. ASSUME inbox'[i].kind = "error" \/ (inbox'[i].kind \in Ends /\ ~query.immediate)
        PROVE  todo = <<>> /\ \A j \in (i + 1)..Len(inbox') : inbox'[j].kind = "ready"
    <3>1. todo = <<>> /\ \A j \in (i + 1 + 1)..Len(inbox) : inbox[j].kind = "ready"
      BY <2>1, <2>3, <2>5
    <3> QED
      BY <2>2, <3>1
  <2> QED
    BY <2>4, <2>5
<1>5. RowsOfOne'
  <2> SUFFICES ASSUME NEW i \in 1..Len(inbox'), inbox'[i].kind = "row"
               PROVE  /\ inbox'[i].cols \in Cols
                      /\ i = Len(inbox') => todo # <<>> /\ Head(todo) = inbox'[i].cols
                      /\ i < Len(inbox') /\ inbox'[i + 1].kind = "row" =>
                           inbox'[i + 1].cols = inbox'[i].cols
    BY DEF RowsOfOne
  <2>1. i + 1 \in 1..Len(inbox) /\ inbox'[i] = inbox[i + 1] /\ i \in Nat
    BY <1>2, <1>3
  <2>2. i < Len(inbox') => i + 1 + 1 \in 1..Len(inbox) /\ inbox'[i + 1] = inbox[i + 1 + 1]
    BY <1>2, <1>3
  <2>3. /\ inbox[i + 1].cols \in Cols
        /\ i + 1 = Len(inbox) => todo # <<>> /\ Head(todo) = inbox[i + 1].cols
        /\ i + 1 < Len(inbox) /\ inbox[i + 1 + 1].kind = "row" =>
             inbox[i + 1 + 1].cols = inbox[i + 1].cols
    BY <2>1 DEF Sound, RowsOfOne
  <2>4. i = Len(inbox') => i + 1 = Len(inbox)
    BY <1>2
  <2>5. i < Len(inbox') => i + 1 < Len(inbox)
    BY <1>2
  <2> QED
    BY <2>1, <2>2, <2>3, <2>4, <2>5
<1>6. OnlyReady => OnlyReady'
  BY <1>2, <1>3 DEF OnlyReady
<1>7. inbox[1].kind = "ready" => inbox' = <<>> /\ WireIdle' /\ ~serving
  <2> SUFFICES ASSUME inbox[1].kind = "ready"
               PROVE  inbox' = <<>> /\ WireIdle' /\ ~serving
    OBVIOUS
  <2>0. 1 \in 1..Len(inbox)
    BY <1>2
  <2>1. 1 = Len(inbox) /\ ~serving
    BY <2>0 DEF Sound, Order
  <2> QED
    BY <1>2, <2>1 DEF WireIdle
<1>8. inbox[1].kind = "error" \/ (inbox[1].kind \in Ends /\ ~query.immediate) => OnlyReady'
  <2> SUFFICES ASSUME inbox[1].kind = "error" \/ (inbox[1].kind \in Ends /\ ~query.immediate)
               PROVE  OnlyReady'
    OBVIOUS
  <2>1. 1 \in 1..Len(inbox)
    BY <1>2
  <2>2. todo = <<>> /\ \A j \in (1 + 1)..Len(inbox) : inbox[j].kind = "ready"
    BY <2>1 DEF Sound, Order
  <2> QED
    BY <1>2, <1>3, <2>2 DEF OnlyReady
<1> QED
  BY <1>2, <1>4, <1>5, <1>6, <1>7, <1>8

LEMMA SoundDrain ==
  ASSUME Sound, Drain
  PROVE  Sound'
<1>1. /\ UNCHANGED <<query, cols, caller, group, groups, affected, ready, complete, dataReady,
                     res, limit, frameCols, frame, nrows, todo, serving, sent, cancelled,
                     rowsOut, told, sends, produced, counted, broken>>
      /\ pc \in {"drain", "unwind", "closing"}
      /\ \/ WireIdle /\ pc' = AfterDrain /\ inbox' = inbox
         \/ /\ inbox # <<>> /\ inbox' = Tail(inbox)
            /\ pc' = IF Head(inbox).kind = "ready" THEN AfterDrain ELSE pc
  BY DEF Drain, cacheVars, bindVars, flagVars, fetchVars, serverVars, pastVars
<1>2. /\ inbox' \in Seq(Messages) /\ Order' /\ RowsOfOne' /\ (OnlyReady => OnlyReady')
      /\ pc' \in {"send", "gone"} => WireIdle'
      /\ \/ pc' = pc
         \/ pc = "drain" /\ pc' = "send"
         \/ pc # "drain" /\ pc' = "gone"
  <2>1. CASE WireIdle /\ pc' = AfterDrain /\ inbox' = inbox
    <3>1. inbox' \in Seq(Messages)
      BY <2>1 DEF Sound, TypeOK, Messages
    <3> QED
      BY <1>1, <2>1, <3>1, QueueKept DEF AfterDrain
  <2>2. CASE /\ inbox # <<>> /\ inbox' = Tail(inbox)
             /\ pc' = IF Head(inbox).kind = "ready" THEN AfterDrain ELSE pc
    BY <1>1, <2>2, QueueRead DEF AfterDrain
  <2> QED
    BY <1>1, <2>1, <2>2
<1>3. TypeOK'
  <2>1. pc' \in {"drain", "unwind", "closing", "send", "gone"}
    BY <1>1, <1>2
  <2> QED
    BY <1>1, <1>2, <2>1 DEF Sound, TypeOK, Messages
<1>4. Control'
  BY <1>1, <1>2 DEF Sound, TypeOK, Control, Inside
<1>5. Commands'
  BY <1>1, <1>2 DEF Sound, Commands, Reading, Inside
<1>6. Wire'
  BY <1>1, <1>2 DEF Sound, Wire
<1>7. Outcome' /\ Given' /\ Coming' /\ Columns'
  <2>1. CASE pc # "drain" \/ sends = 0
    <3>1. frame = <<>>
      BY <1>1, <2>1 DEF Sound, Control, Inside
    <3>2. sends = 0 => ~(sends' > 0)
      BY <1>1
    <3>3. ~Executing'
      BY <1>1, <1>2, <2>1, <3>2 DEF Executing, Inside
    <3> QED
      BY <1>1, <3>1, <3>3, NotExecuting
  <2>2. CASE pc = "drain" /\ sends # 0
    <3>1. Executing /\ ~Reading /\ ~Reading' /\ ~RowAhead /\ ~RowAhead' /\ Taken' = Taken
      BY <1>1, <1>2, <2>2 DEF Sound, TypeOK, Control, Executing, Reading, RowAhead, Taken, Inside
    <3>2. OnlyReady /\ OnlyReady'
      BY <1>1, <1>2, <2>2 DEF Sound, TypeOK, Wire
    <3>3. \A n \in (Taken + 1)..produced : FALSE
      BY <3>1, <3>2 DEF Sound, Coming, OnlyReady
    <3>4. Outcome'
      BY <1>1, <3>1 DEF Sound, Outcome
    <3>5. Given'
      BY <1>1, <3>1 DEF Sound, Given
    <3>6. Coming'
      BY <1>1, <3>1, <3>2, <3>3 DEF Sound, Coming, OnlyReady
    <3>7. Columns'
      BY <1>1, <2>2, <3>1 DEF Sound, Columns
    <3> QED
      BY <3>4, <3>5, <3>6, <3>7
  <2> QED
    BY <2>1, <2>2
<1> QED
  BY <1>2, <1>3, <1>4, <1>5, <1>6, <1>7 DEF Sound

\* step_run() reads a row: it is the next one.
LEMMA NextRow ==
  ASSUME Sound, pc = "step", inbox # <<>>, inbox[1].kind = "row"
  PROVE  /\ Taken = Len(rowsOut) + Len(frame) /\ Taken \in Nat
         /\ inbox[1].row = Taken + 1 /\ inbox[1].row <= produced
         /\ Reading /\ Executing /\ ~complete /\ ~RowAhead
<1>1. Reading /\ Executing /\ ~RowAhead
  BY DEF Sound, Control, Reading, Executing, RowAhead, Inside
<1>2. inbox \in Seq(Messages) /\ Len(inbox) \in Nat /\ Len(inbox) >= 1 /\ inbox[1] \in Messages
  BY ReadOne DEF Sound, TypeOK, Messages
<1>3. ~complete
  BY <1>1, <1>2 DEF Sound, Commands, OnlyReady
<1>4. Taken = Len(rowsOut) + Len(frame) /\ Taken \in Nat /\ produced \in Nat
  BY <1>1 DEF Taken, Sound, TypeOK
<1>5. inbox[1].row \in Nat /\ Taken < inbox[1].row /\ inbox[1].row <= produced
  BY <1>1, <1>2 DEF Sound, Coming, Messages
<1>6. PICK i \in 1..Len(inbox) : inbox[i].kind = "row" /\ inbox[i].row = Taken + 1
  <2>1. Taken + 1 \in (Taken + 1)..produced
    BY <1>4, <1>5
  <2> QED
    BY <1>1, <2>1 DEF Sound, Coming
<1>7. i = 1
  <2>1. i # 1 => i \in (1 + 1)..Len(inbox) /\ 1 \in 1..Len(inbox)
    BY <1>2
  <2>2. i # 1 => inbox[i].row > inbox[1].row
    BY <1>1, <1>6, <2>1 DEF Sound, Coming
  <2> QED
    BY <1>4, <1>5, <1>6, <2>2
<1> QED
  BY <1>1, <1>3, <1>4, <1>5, <1>6, <1>7

\* What is read is gone from the rows to come, if it was the next one.
LEMMA ComingRead ==
  ASSUME Sound, Executing, inbox # <<>>, inbox' = Tail(inbox),
         UNCHANGED <<query, todo, serving, produced>>,
         Taken' = IF inbox[1].kind = "row" THEN Taken + 1 ELSE Taken,
         inbox[1].kind = "row" => pc = "step"
  PROVE  Coming'
<1>1. /\ inbox' \in Seq(Messages) /\ Len(inbox') = Len(inbox) - 1
      /\ Len(inbox) \in Nat /\ Len(inbox) >= 1 /\ inbox \in Seq(Messages)
      /\ \A i \in 1..(Len(inbox) - 1) : inbox'[i] = inbox[i + 1]
  BY QueueRead DEF Sound, TypeOK, Messages
<1>2. produced \in Nat /\ Taken \in Nat /\ Taken' \in Nat
  BY DEF Sound, TypeOK, Taken
<1>3. Taken' <= produced
  BY <1>2, NextRow DEF Sound, Coming
<1>4. \A i \in 1..Len(inbox') : /\ i + 1 \in 1..Len(inbox) /\ inbox'[i] = inbox[i + 1]
                               /\ i + 1 \in (1 + 1)..Len(inbox) /\ i \in Nat
                               /\ inbox[i + 1].row \in Nat
  <2> SUFFICES ASSUME NEW i \in 1..Len(inbox')
               PROVE  /\ i + 1 \in 1..Len(inbox) /\ inbox'[i] = inbox[i + 1]
                      /\ i + 1 \in (1 + 1)..Len(inbox) /\ i \in Nat
                      /\ inbox[i + 1].row \in Nat
    OBVIOUS
  <2>1. /\ i + 1 \in 1..Len(inbox) /\ inbox'[i] = inbox[i + 1]
        /\ i + 1 \in (1 + 1)..Len(inbox) /\ i \in Nat
    BY <1>1
  <2>2. inbox[i + 1] \in Messages
    BY <1>1, <2>1, ElementOfSeq
  <2> QED
    BY <2>1, <2>2 DEF Messages
<1>5. ASSUME NEW i \in 1..Len(inbox'), inbox'[i].kind = "row"
      PROVE  /\ Taken' < inbox'[i].row /\ inbox'[i].row <= produced
             /\ \A j \in (i + 1)..Len(inbox') :
                  inbox'[j].kind = "row" => inbox'[j].row > inbox'[i].row
  <2>1. inbox[i + 1].kind = "row" /\ i + 1 \in 1..Len(inbox) /\ inbox'[i].row = inbox[i + 1].row
    BY <1>4, <1>5
  <2>2. /\ Taken < inbox[i + 1].row /\ inbox[i + 1].row <= produced
        /\ \A j \in (i + 1 + 1)..Len(inbox) :
             inbox[j].kind = "row" => inbox[j].row > inbox[i + 1].row
    BY <2>1 DEF Sound, Coming
  <2>3. inbox[1].kind = "row" => inbox[i + 1].row > inbox[1].row
    <3>1. 1 \in 1..Len(inbox)
      BY <1>1
    <3> QED
      BY <1>4, <2>1, <3>1 DEF Sound, Coming
  <2>4. Taken' < inbox[i + 1].row
    BY <1>2, <1>4, <2>2, <2>3, NextRow
  <2>5. ASSUME NEW j \in (i + 1)..Len(inbox'), inbox'[j].kind = "row"
        PROVE  inbox'[j].row > inbox[i + 1].row
    <3>1. j \in 1..Len(inbox') /\ j + 1 \in (i + 1 + 1)..Len(inbox)
      BY <1>1
    <3>2. inbox'[j] = inbox[j + 1]
      BY <1>4, <3>1
    <3> QED
      BY <2>2, <2>5, <3>1, <3>2
  <2> QED
    BY <2>1, <2>2, <2>4, <2>5
<1>6. ASSUME NEW n \in (Taken' + 1)..produced
      PROVE  \E i \in 1..Len(inbox') : inbox'[i].kind = "row" /\ inbox'[i].row = n
  <2>1. n \in (Taken + 1)..produced
    BY <1>2
  <2>2. PICK k \in 1..Len(inbox) : inbox[k].kind = "row" /\ inbox[k].row = n
    BY <2>1 DEF Sound, Coming
  <2>3. k # 1
    <3>1. inbox[1].kind = "row" => inbox[1].row = Taken + 1
      BY NextRow
    <3> QED
      BY <1>2, <2>2, <3>1
  <2>4. k - 1 \in 1..Len(inbox') /\ inbox'[k - 1] = inbox[k]
    BY <1>1, <2>3
  <2> QED
    BY <2>2, <2>4
<1> QED
  BY <1>3, <1>5, <1>6 DEF Coming

LEMMA SoundStepRow ==
  ASSUME Sound, StepRow
  PROVE  Sound'
<1>1. /\ UNCHANGED <<query, caller, group, groups, affected, ready, complete, limit, frameCols, nrows,
                     todo, serving, sent, cancelled, rowsOut, sends, produced, counted, broken>>
      /\ pc = "step" /\ inbox # <<>> /\ Head(inbox).kind = "row" /\ inbox' = Tail(inbox)
      /\ dataReady' = TRUE /\ res' = [row |-> Head(inbox).row, cols |-> Head(inbox).cols]
      /\ \/ Raised /\ cols' = cols
         \/ /\ ~(~dataReady /\ CacheConflict(Head(inbox).cols))
            /\ pc' = Return
            /\ cols' = IF ~dataReady THEN Head(inbox).cols ELSE cols
            /\ UNCHANGED <<told, frame>>
  BY DEF StepRow, Raise, Raised, Checked, bindVars, serverVars
<1>2. /\ inbox' \in Seq(Messages) /\ Len(inbox') = Len(inbox) - 1
      /\ Len(inbox) \in Nat /\ Len(inbox) >= 1
      /\ Head(inbox) = inbox[1] /\ inbox[1] \in Messages
      /\ \A i \in 1..(Len(inbox) - 1) : inbox'[i] = inbox[i + 1]
      /\ Order' /\ RowsOfOne'
  BY <1>1, QueueRead
<1>3. ready /\ sends > 0 /\ ~told
  BY <1>1 DEF Sound, Control, Inside
<1>4. /\ Taken = Len(rowsOut) + Len(frame) /\ Taken \in Nat
      /\ inbox[1].row = Taken + 1 /\ inbox[1].row <= produced
      /\ Reading /\ Executing /\ ~complete /\ ~RowAhead
  BY <1>1, <1>2, NextRow
<1>5. pc' \in {"unwind", "R", "advance"}
  BY <1>1 DEF Raised, Return
<1>6. inbox[1].cols \in Cols /\ inbox[1].cols # NoCols /\ inbox[1].cols \in AnyCols
  <2>1. 1 \in 1..Len(inbox) /\ inbox[1].kind = "row"
    BY <1>1, <1>2
  <2>2. inbox[1].cols \in Cols
    BY <2>1 DEF Sound, RowsOfOne
  <2> QED
    BY <2>2, ColsAssumption DEF AnyCols
<1>7. TypeOK'
  <2>1. res' \in [row : Nat, cols : AnyCols]
    BY <1>1, <1>2, <1>6 DEF Messages
  <2>2. cols' \in AnyCols
    BY <1>1, <1>2, <1>6 DEF Sound, TypeOK
  <2>3. (frame' = <<>> \/ frame' = frame) /\ told' \in BOOLEAN
    BY <1>1 DEF Raised, Sound, TypeOK
  <2>4. frame' \in Seq(Nat)
    <3>1. <<>> \in Seq(Nat) /\ frame \in Seq(Nat)
      BY DEF Sound, TypeOK
    <3> QED
      BY <2>3, <3>1
  <2> QED
    BY <1>1, <1>2, <1>5, <2>1, <2>2, <2>3, <2>4 DEF Sound, TypeOK, Messages
<1>8. Wire'
  BY <1>1, <1>3, <1>5 DEF Sound, Wire
<1>9. CASE Raised
  BY <1>1, <1>2, <1>7, <1>8, <1>9, SoundRaise
<1>10. CASE /\ ~(~dataReady /\ CacheConflict(Head(inbox).cols))
            /\ pc' = Return
            /\ cols' = IF ~dataReady THEN Head(inbox).cols ELSE cols
            /\ UNCHANGED <<told, frame>>
  <2>1. Reading' /\ Executing' /\ RowAhead'
    BY <1>1, <1>3, <1>4, <1>10 DEF Return, Reading, Executing, RowAhead, Inside
  <2>2. Taken' = Taken + 1
    BY <1>1, <1>4, <1>10, <2>1 DEF Taken
  <2>3. Control'
    <3>1. (pc' = "advance" => caller = "fetch") /\ pc' # "unwind"
      BY <1>10 DEF Return
    <3>2. frame # <<>> => caller = "fetch"
      BY DEF Sound, Control
    <3>3. caller = "fetch" => pc' = "advance"
      BY <1>10 DEF Return
    <3>4. pc' \in {"advance", "R"}
      BY <1>10 DEF Return
    <3>5. ready' /\ sends' > 0 /\ ~told' /\ frame' = frame /\ caller' = caller
      BY <1>1, <1>3, <1>10
    <3>6. sends' \in Nat
      BY <1>1 DEF Sound, TypeOK
    <3> QED
      BY <3>1, <3>2, <3>3, <3>4, <3>5, <3>6 DEF Control, Inside
  <2>4. Commands'
    BY <1>1, <1>4, <2>1 DEF Sound, Commands
  <2>5. Outcome'
    <3>1. \A k \in 1..Len(inbox) : k # 1 => k - 1 \in 1..Len(inbox') /\ inbox'[k - 1] = inbox[k]
      BY <1>2
    <3>2. (\E k \in 1..Len(inbox) : inbox[k].kind = "error") =>
            \E k \in 1..Len(inbox') : inbox'[k].kind = "error"
      BY <1>1, <1>2, <3>1
    <3>3. (\E k \in 1..Len(inbox) : inbox[k].kind \in Ends \cup {"error"}) =>
            \E k \in 1..Len(inbox') : inbox'[k].kind \in Ends \cup {"error"}
      BY <1>1, <1>2, <3>1 DEF Ends
    <3> QED
      BY <1>1, <1>4, <2>1, <3>2, <3>3 DEF Sound, Outcome
  <2>6. Given'
    BY <1>1, <1>2, <1>4, <1>10 DEF Sound, Given
  <2>7. Coming'
    BY <1>1, <1>2, <1>4, <2>2, ComingRead
  <2>8. cols' = inbox[1].cols
    BY <1>1, <1>2, <1>4, <1>10 DEF Sound, Columns
  <2>9. Columns'
    <3>1. caller = "fetch" => frameCols = cols'
      BY <1>1, <1>2, <1>4, <1>6, <1>10, <2>8 DEF Sound, Columns, CacheConflict
    <3>2. inbox' # <<>> /\ inbox'[1].kind = "row" => inbox'[1].cols = inbox[1].cols
      <4> SUFFICES ASSUME inbox' # <<>>, inbox'[1].kind = "row"
                   PROVE  inbox'[1].cols = inbox[1].cols
        OBVIOUS
      <4>1. Len(inbox') \in Nat \ {0}
        BY <1>2, EmptySeq
      <4>2. 1 \in 1..Len(inbox) /\ 1 < Len(inbox) /\ inbox'[1] = inbox[1 + 1]
        BY <1>2, <4>1
      <4> QED
        BY <1>1, <1>2, <4>2 DEF Sound, RowsOfOne
    <3>3. inbox' = <<>> => todo # <<>> /\ Head(todo) = inbox[1].cols
      <4> SUFFICES ASSUME inbox' = <<>>
                   PROVE  todo # <<>> /\ Head(todo) = inbox[1].cols
        OBVIOUS
      <4>1. Len(inbox') = 0
        OBVIOUS
      <4>2. 1 \in 1..Len(inbox) /\ 1 = Len(inbox)
        BY <1>2, <4>1
      <4> QED
        BY <1>1, <1>2, <4>2 DEF Sound, RowsOfOne
    <3> QED
      BY <1>1, <1>2, <1>6, <2>8, <3>1, <3>2, <3>3 DEF Columns
  <2> QED
    BY <1>2, <1>7, <1>8, <2>3, <2>4, <2>5, <2>6, <2>7, <2>9 DEF Sound
<1> QED
  BY <1>1, <1>9, <1>10

LEMMA SoundStepError ==
  ASSUME Sound, StepError
  PROVE  Sound'
<1>1. /\ UNCHANGED <<query, cols, caller, group, groups, affected, ready, complete, limit, frameCols,
                     nrows, todo, serving, sent, cancelled, rowsOut, sends, produced, counted, broken>>
      /\ pc = "step" /\ inbox # <<>> /\ inbox' = Tail(inbox) /\ Raised
      /\ dataReady' = TRUE /\ res' = NoRow
  BY DEF StepError, Raise, Raised, cacheVars, bindVars, serverVars
<1>2. inbox' \in Seq(Messages) /\ Order' /\ RowsOfOne'
  BY <1>1, QueueRead
<1>3. TypeOK'
  <2>1. /\ pc' \in {"unwind", "R"} /\ frame' \in Seq(Nat) /\ told' \in BOOLEAN
        /\ NoRow \in [row : Nat, cols : AnyCols]
    BY <1>1 DEF Raised, NoRow, AnyCols
  <2> QED
    BY <1>1, <1>2, <2>1 DEF Sound, TypeOK, Messages
<1>4. ready
  BY <1>1 DEF Sound, Control, Inside
<1>5. Wire'
  BY <1>1, <1>4 DEF Raised, Sound, Wire
<1> QED
  BY <1>1, <1>2, <1>3, <1>5, SoundRaise

\* The end of a statement or of all: nothing is read ahead.
LEMMA Ending ==
  ASSUME Sound, pc = "step"
  PROVE  /\ Reading /\ Executing /\ ~RowAhead
         /\ ready /\ ~told /\ sends > 0
         /\ sends \in Nat /\ group \in Nat /\ groups \in Nat
         /\ query.immediate \in BOOLEAN
         /\ frame # <<>> => caller = "fetch"
<1>1. ready /\ ~told /\ sends > 0 /\ (frame # <<>> => caller = "fetch")
  BY DEF Sound, Control, Inside
<1> QED
  BY <1>1, QueryTypes DEF Sound, TypeOK, Reading, Executing, RowAhead, Inside

LEMMA SoundStepDone ==
  ASSUME Sound, StepDone
  PROVE  Sound'
<1>1. /\ UNCHANGED <<query, cols, caller, groups, ready, limit, frameCols, frame, nrows,
                     todo, serving, sent, cancelled, rowsOut, told, sends, produced, counted, broken>>
      /\ pc = "step" /\ inbox # <<>> /\ Head(inbox).kind \in Ends /\ inbox' = Tail(inbox)
      /\ res' = NoRow /\ dataReady' = FALSE
      /\ affected' = affected + Head(inbox).count /\ group' = group + 1
      /\ complete' = (complete \/ (~(group + 1 < groups) /\ ~query.immediate))
      /\ pc' = IF group + 1 < groups THEN "drain"
               ELSE IF query.immediate \/ Head(inbox).kind = "tuples_ok" THEN "step"
               ELSE IF caller = "fetch" THEN "advance" ELSE "R"
  BY DEF StepDone, CountAffected, MoreGroups, MoreStatements, Return, Ends,
         cacheVars, fetchVars, serverVars, pastVars
<1>2. /\ inbox' \in Seq(Messages) /\ Len(inbox') = Len(inbox) - 1
      /\ Len(inbox) \in Nat /\ Len(inbox) >= 1
      /\ Head(inbox) = inbox[1] /\ inbox[1] \in Messages
      /\ \A i \in 1..(Len(inbox) - 1) : inbox'[i] = inbox[i + 1]
      /\ Order' /\ RowsOfOne'
      /\ ~query.immediate => OnlyReady'
  BY <1>1, QueueRead
<1>3. /\ Reading /\ Executing /\ ~RowAhead
      /\ ready /\ ~told /\ sends > 0
      /\ sends \in Nat /\ group \in Nat /\ groups \in Nat
      /\ query.immediate \in BOOLEAN
      /\ frame # <<>> => caller = "fetch"
  BY <1>1, Ending
<1>4. 1 \in 1..Len(inbox) /\ inbox[1].kind \in Ends
  BY <1>1, <1>2
<1>5. ~complete
  BY <1>3, <1>4 DEF Ends, Sound, Commands, OnlyReady
<1>6. query.immediate => groups = 1 /\ sends = 1 /\ ~(group + 1 < groups)
  BY <1>1, <1>3 DEF Sound, Commands
<1>7. ~query.immediate => sends = group + 1 /\ group < groups
  BY <1>3, <1>5 DEF Sound, Commands
<1>8. ~query.immediate => ~broken
  <2> SUFFICES ASSUME ~query.immediate, broken
               PROVE  FALSE
    BY DEF Sound, TypeOK
  <2>1. PICK k \in 1..Len(inbox) : inbox[k].kind = "error"
    BY <1>3 DEF Sound, Outcome
  <2>2. k # 1
    BY <1>4, <2>1 DEF Ends
  <2>3. k \in (1 + 1)..Len(inbox)
    BY <2>2
  <2>4. \A j \in (1 + 1)..Len(inbox) : inbox[j].kind = "ready"
    BY <1>4 DEF Sound, Order
  <2> QED
    BY <2>1, <2>3, <2>4
<1>9. complete' = (~(group + 1 < groups) /\ ~query.immediate)
  BY <1>1, <1>5
<1>10. ~RowAhead' /\ Executing'
  BY <1>1, <1>3, <1>9 DEF RowAhead, Reading, Executing, Inside
<1>11. Taken' = Taken
  BY <1>1, <1>3, <1>10 DEF Taken
<1>12. TypeOK'
  <2>1. /\ pc' \in {"drain", "step", "advance", "R"} /\ complete' \in BOOLEAN
        /\ group' \in Nat /\ affected' \in Nat
        /\ NoRow \in [row : Nat, cols : AnyCols]
    BY <1>1, <1>2, <1>3, <1>9 DEF Sound, TypeOK, Messages, NoRow, AnyCols
  <2>2. query.params => group' <= groups
    <3>1. query.params => ~query.immediate
      BY QueryTypes DEF Sound, TypeOK
    <3> QED
      BY <1>1, <1>3, <1>7, <3>1
  <2> QED
    BY <1>1, <1>2, <2>1, <2>2 DEF Sound, TypeOK, Messages
<1>13. Control'
  <2>1. CASE group + 1 < groups
    BY <1>1, <1>3, <1>5, <1>6, <1>7, <1>9, <2>1 DEF Sound, Control, Inside
  <2>2. CASE ~(group + 1 < groups)
    BY <1>1, <1>3, <1>5, <1>9, <2>2 DEF Sound, Control, Inside
  <2> QED
    BY <2>1, <2>2
<1>14. Commands'
  <2>1. query.immediate => groups = 1 /\ sends \in {0, 1}
    BY <1>6
  <2>2. Reading' => query.immediate \/ complete'
    BY <1>1, <1>9 DEF Reading, Inside
  <2>3. ASSUME complete'
        PROVE  sends = groups /\ OnlyReady'
    <3>1. ~query.immediate /\ ~(group + 1 < groups)
      BY <1>9, <2>3
    <3>2. sends = group + 1 /\ group < groups
      BY <1>7, <3>1
    <3> QED
      BY <1>2, <1>3, <3>1, <3>2
  <2> QED
    BY <1>1, <2>1, <2>2, <2>3 DEF Commands
<1>15. Wire'
  <2>1. pc' \notin {"gone", "send"} /\ ready'
    BY <1>1, <1>3
  <2>2. pc' = "drain" => OnlyReady'
    BY <1>1, <1>2, <1>6
  <2> QED
    BY <1>1, <2>1, <2>2 DEF Sound, Wire
<1>16. Outcome'
  <2>1. Reading' => query.immediate \/ complete'
    BY <1>1, <1>9 DEF Reading, Inside
  <2>2. CASE query.immediate
    <3>1. Reading'
      BY <1>1, <1>3, <1>6, <2>2 DEF Reading, Inside
    <3>2. \A k \in 1..Len(inbox) : k # 1 => k - 1 \in 1..Len(inbox') /\ inbox'[k - 1] = inbox[k]
      BY <1>2
    <3>3. (\E k \in 1..Len(inbox) : inbox[k].kind = "error") =>
            \E k \in 1..Len(inbox') : inbox'[k].kind = "error"
      BY <1>4, <3>2 DEF Ends
    <3> QED
      BY <1>1, <1>3, <2>2, <3>1, <3>3 DEF Sound, Outcome
  <2>3. CASE ~query.immediate
    BY <1>1, <1>8, <2>1, <2>3 DEF Outcome
  <2> QED
    BY <2>2, <2>3
<1>17. Given'
  BY <1>1, <1>10 DEF Sound, Given
<1>18. Coming'
  BY <1>1, <1>2, <1>3, <1>4, <1>11, ComingRead DEF Ends
<1>19. Columns'
  <2>1. caller = "fetch" => frameCols = cols /\ cols # NoCols
    BY <1>1, <1>3 DEF Sound, Columns
  <2> QED
    BY <1>1, <1>10, <2>1 DEF Columns
<1> QED
  BY <1>2, <1>12, <1>13, <1>14, <1>15, <1>16, <1>17, <1>18, <1>19 DEF Sound

LEMMA SoundStepEnd ==
  ASSUME Sound, StepEnd
  PROVE  Sound'
<1>1. /\ UNCHANGED <<query, cols, caller, group, groups, affected, ready, limit, frameCols, frame, nrows,
                     todo, serving, sent, cancelled, rowsOut, told, sends, produced, counted, broken>>
      /\ pc = "step" /\ res' = NoRow /\ dataReady' = TRUE /\ complete' = TRUE
      /\ pc' = IF caller = "fetch" THEN "advance" ELSE "R"
      /\ \/ inbox # <<>> /\ Head(inbox).kind = "ready" /\ inbox' = Tail(inbox)
         \/ WireIdle /\ inbox' = inbox
  BY DEF StepEnd, Return, cacheVars, bindVars, fetchVars, serverVars, pastVars
<1>2. /\ inbox' = <<>> /\ ~serving /\ Order' /\ RowsOfOne'
      /\ \A i \in 1..Len(inbox) : inbox[i].kind = "ready"
  <2>1. CASE inbox # <<>> /\ Head(inbox).kind = "ready" /\ inbox' = Tail(inbox)
    <3>1. /\ inbox' = <<>> /\ ~serving /\ Order' /\ RowsOfOne'
          /\ Head(inbox) = inbox[1] /\ Len(inbox') = Len(inbox) - 1 /\ Len(inbox) \in Nat
      BY <1>1, <2>1, QueueRead
    <3>2. Len(inbox) = 1
      BY <3>1
    <3> QED
      BY <2>1, <3>1, <3>2
  <2>2. CASE WireIdle /\ inbox' = inbox
    BY <1>1, <2>2, QueueKept DEF WireIdle
  <2> QED
    BY <1>1, <2>1, <2>2
<1>3. /\ Reading /\ Executing /\ ~RowAhead
      /\ ready /\ ~told /\ sends > 0
      /\ sends \in Nat /\ group \in Nat /\ groups \in Nat
      /\ query.immediate \in BOOLEAN
      /\ frame # <<>> => caller = "fetch"
  BY <1>1, Ending
<1>4. todo = <<>> /\ OnlyReady'
  BY <1>1, <1>2 DEF Sound, Wire, OnlyReady
<1>5. sends = groups
  <2>1. CASE query.immediate
    BY <1>1, <1>3, <2>1 DEF Sound, Commands
  <2>2. CASE ~query.immediate
    <3>1. complete
      BY <1>2, <1>3, <1>4, <2>2 DEF Sound, TypeOK, Outcome, Ends
    <3> QED
      BY <1>3, <3>1 DEF Sound, Commands
  <2> QED
    BY <2>1, <2>2
<1>6. ~broken
  BY <1>2, <1>3 DEF Sound, Outcome
<1>7. Reading' /\ Executing' /\ ~RowAhead'
  BY <1>1, <1>3 DEF Reading, Executing, RowAhead, Inside
<1>8. TypeOK'
  <2>1. /\ pc' \in {"advance", "R"} /\ inbox' \in Seq(Messages)
        /\ NoRow \in [row : Nat, cols : AnyCols]
    BY <1>1, <1>2 DEF NoRow, AnyCols
  <2> QED
    BY <1>1, <2>1 DEF Sound, TypeOK, Messages
<1>9. Control'
  BY <1>1, <1>3 DEF Sound, Control, Inside
<1>10. Commands'
  BY <1>1, <1>3, <1>4, <1>5 DEF Sound, Commands
<1>11. Wire'
  BY <1>1, <1>3 DEF Sound, Wire
<1>12. Outcome'
  BY <1>1, <1>6 DEF Outcome
<1>13. Given'
  BY <1>1, <1>7 DEF Sound, Given
<1>14. Coming'
  <2>1. Taken' = Taken
    BY <1>1, <1>3, <1>7 DEF Taken
  <2>2. Taken <= produced /\ \A n \in (Taken + 1)..produced : FALSE
    BY <1>2, <1>3 DEF Sound, Coming
  <2>3. Len(inbox') = 0
    BY <1>2
  <2> QED
    BY <1>1, <2>1, <2>2, <2>3 DEF Coming
<1>15. Columns'
  BY <1>1, <1>3, <1>7 DEF Sound, Columns
<1> QED
  BY <1>2, <1>8, <1>9, <1>10, <1>11, <1>12, <1>13, <1>14, <1>15 DEF Sound

(***************************************************************************)
(* All of it.                                                              *)
(***************************************************************************)

LEMMA SoundStutter ==
  ASSUME Sound, UNCHANGED vars
  PROVE  Sound'
<1>1. UNCHANGED <<query, pc, caller, ready, complete, dataReady, group, groups, nrows, affected,
                  res, cols, limit, frameCols, frame, todo, serving, sent, cancelled, inbox,
                  rowsOut, told, sends, produced, counted, broken>>
  BY DEF vars, cacheVars, bindVars, flagVars, fetchVars, serverVars, pastVars
<1>2. /\ Reading' = Reading /\ Executing' = Executing
      /\ WireIdle' = WireIdle /\ OnlyReady' = OnlyReady
  BY <1>1 DEF Reading, Executing, WireIdle, OnlyReady
<1>3. RowAhead' = RowAhead
  BY <1>1, <1>2 DEF RowAhead
<1>4. Taken' = Taken
  BY <1>1, <1>3 DEF Taken
<1>5. TypeOK' /\ Control' /\ Commands' /\ Wire'
  BY <1>1, <1>2 DEF Sound, TypeOK, Control, Commands, Wire
<1>6. Order' /\ RowsOfOne'
  BY <1>1, QueueKept
<1>7. Outcome' /\ Given' /\ Columns'
  BY <1>1, <1>2, <1>3 DEF Sound, Outcome, Given, Columns
<1>8. Coming'
  BY <1>1, <1>2, <1>4 DEF Sound, Coming
<1> QED
  BY <1>5, <1>6, <1>7, <1>8 DEF Sound

LEMMA SoundNext ==
  ASSUME FetchAfterError = FALSE, Sound, [Next]_vars
  PROVE  Sound'
<1>1. CASE Server
  BY <1>1, SoundSendRow, SoundFinishStatement, SoundFailStatement, SoundEndCommand DEF Server
<1>2. CASE Client
  BY <1>2, SoundDrain, SoundSend, SoundStepRow, SoundStepDone, SoundStepEnd, SoundStepError,
     SoundCopyRow, SoundAdvance DEF Client, Step
<1>3. CASE User
  BY <1>3, SoundCreate, SoundBind, SoundBindNothing, SoundBeginFetch, SoundClose,
     SoundInterrupt, SoundAdvanceInterrupted DEF User
<1> QED
  BY <1>1, <1>2, <1>3, SoundStutter DEF Next

LEMMA AlwaysSound == FetchAfterError = FALSE => (Spec => []Sound)
<1> SUFFICES ASSUME FetchAfterError = FALSE
             PROVE  Spec => []Sound
  OBVIOUS
<1>1. Sound /\ [Next]_vars => Sound'
  BY SoundNext
<1> QED
  BY <1>1, SoundInit, PTL DEF Spec

\* Every variable of QueryStream keeps its type, for any queries, parameter
\* rows, row counts and windows, if nobody fetches after an error.
THEOREM TypeCorrect == FetchAfterError = FALSE => (Spec => []TypeOK)
<1>1. Sound => TypeOK
  BY DEF Sound
<1> QED
  BY <1>1, AlwaysSound, PTL

\* The first rows and the next ones make the first rows.
LEMMA GivenInOrder ==
  ASSUME NEW s \in Seq(Nat), NEW t \in Seq(Nat),
         \A k \in 1..Len(s) : s[k] = k, \A k \in 1..Len(t) : t[k] = Len(s) + k
  PROVE  IsPrefixOfNat(s \o t)
<1>1. /\ s \o t \in Seq(Nat) /\ Len(s \o t) = Len(s) + Len(t)
      /\ Len(s) \in Nat /\ Len(t) \in Nat
      /\ \A i \in 1..(Len(s) + Len(t)) :
           (s \o t)[i] = IF i <= Len(s) THEN s[i] ELSE t[i - Len(s)]
  BY ConcatProperties, LenProperties
<1>2. DOMAIN (s \o t) = 1..(Len(s) + Len(t))
  BY <1>1, LenProperties
<1>3. ASSUME NEW i \in 1..(Len(s) + Len(t))
      PROVE  (s \o t)[i] = i
  <2>1. CASE i <= Len(s)
    BY <1>1, <2>1
  <2>2. CASE ~(i <= Len(s))
    <3>1. i - Len(s) \in 1..Len(t)
      BY <1>1, <2>2
    <3>2. (s \o t)[i] = t[i - Len(s)] /\ t[i - Len(s)] = Len(s) + (i - Len(s))
      BY <1>1, <2>2, <3>1
    <3> QED
      BY <1>1, <3>2
  <2> QED
    BY <2>1, <2>2
<1> QED
  BY <1>2, <1>3 DEF IsPrefixOfNat

\* R is given the rows that the server has produced, in order, each once, none
\* left out and none invented, in a data frame made for their columns.
THEOREM RowsAreInOrder == FetchAfterError = FALSE => (Spec => []RowsInOrder)
<1>1. Sound => RowsInOrder
  <2> SUFFICES ASSUME Sound
               PROVE  RowsInOrder
    OBVIOUS
  <2>a. /\ rowsOut \in Seq(Nat) /\ frame \in Seq(Nat)
        /\ \A k \in 1..Len(rowsOut) : rowsOut[k] = k
        /\ \A k \in 1..Len(frame) : frame[k] = Len(rowsOut) + k
    BY DEF Sound, TypeOK, Given
  <2>1. IsPrefixOfNat(rowsOut \o frame)
    BY <2>a, GivenInOrder
  <2>2. pc = "fetch" => res.cols = frameCols
    <3> SUFFICES ASSUME pc = "fetch"
                 PROVE  res.cols = frameCols
      OBVIOUS
    <3>1. RowAhead /\ Executing /\ caller = "fetch"
      BY DEF Sound, Control, RowAhead, Reading, Executing, Inside
    <3> QED
      BY <3>1 DEF Sound, Columns
  <2> QED
    BY <2>1, <2>2 DEF RowsInOrder
<1> QED
  BY <1>1, AlwaysSound, PTL

\* In a call that has ended, a complete result without an error has all rows.
LEMMA WholeResult ==
  ASSUME Sound, pc = "R", ready, complete, ~told
  PROVE  /\ Len(rowsOut) = produced /\ sends = groups
         /\ sends > 0 => todo = <<>> /\ ~broken
<1>1. frame = <<>> /\ sends \in Nat /\ groups \in Nat /\ produced \in Nat /\ Len(rowsOut) \in Nat
  BY DEF Sound, TypeOK, Control, Inside
<1>2. CASE sends = 0
  BY <1>1, <1>2 DEF Sound, Control
<1>3. CASE sends # 0
  <2>1. Reading /\ Executing /\ ~RowAhead
    BY <1>1, <1>3 DEF Reading, Executing, RowAhead, Inside
  <2>2. sends = groups /\ OnlyReady
    BY <2>1 DEF Sound, Commands
  <2>3. Taken = Len(rowsOut)
    BY <1>1, <2>1 DEF Taken
  <2>4. Taken <= produced /\ \A n \in (Taken + 1)..produced : FALSE
    BY <2>1, <2>2 DEF Sound, Coming, OnlyReady
  <2>5. ~broken
    BY <2>1, <2>2 DEF Sound, Outcome, OnlyReady
  <2> QED
    BY <1>1, <2>2, <2>3, <2>4, <2>5 DEF OnlyReady
<1> QED
  BY <1>2, <1>3

\* dbHasCompleted() is TRUE only when R has every row of every parameter row
\* and every statement, unless an error was raised.
THEOREM CompletionIsWhole == FetchAfterError = FALSE => (Spec => []CompleteMeansAll)
<1>1. Sound => CompleteMeansAll
  BY WholeResult DEF CompleteMeansAll
<1> QED
  BY <1>1, AlwaysSound, PTL

(***************************************************************************)
(* The counts.  CountsAreExact is not inductive: what has been counted and *)
(* what R will be told are a queue apart.                                  *)
(***************************************************************************)

\* What a message adds to the rows affected.
Gain(m) == IF m.kind = "command_ok" THEN m.count ELSE 0

\* From a to b by the messages of the queue q, one partial sum after the other.
Leads(a, q, b) ==
  \E s \in [0..Len(q) -> Nat] :
    /\ s[0] = a /\ s[Len(q)] = b
    /\ \A i \in 1..Len(q) : s[i] = s[i - 1] + Gain(q[i])

\* The row in the data frame that nrows_ has not counted yet.
Uncounted == caller = "fetch" /\ pc \in {"step", "advance", "drain", "send"}

NothingSent ==
  sends = 0 =>
    /\ counted = 0
    /\ pc \in {"drain", "send", "R"} => affected = 0
    /\ pc = "R" => nrows = 0 \/ ~ready

RowsCounted ==
  Executing => nrows = Len(rowsOut) + Len(frame) - (IF Uncounted THEN 1 ELSE 0)

\* R has seen no columns: then whatever ends with a count of rows is behind one.
NoRowYet ==
  Executing /\ cols = NoCols =>
    /\ \A i \in 1..Len(inbox) : inbox[i].kind = "tuples_ok" /\ inbox[i].count > 0 =>
         \E j \in 1..(i - 1) : inbox[j].kind = "row"
    /\ sent > 0 => \E j \in 1..Len(inbox) : inbox[j].kind = "row"

AffectedCounted == Executing /\ cols = NoCols => Leads(affected, inbox, counted)

Counting == NothingSent /\ RowsCounted /\ NoRowYet /\ AffectedCounted

LEMMA LeadsNowhere ==
  ASSUME NEW a \in Nat, NEW q \in Seq(Messages), Len(q) = 0
  PROVE  Leads(a, q, a)
<1> DEFINE s == [i \in 0..Len(q) |-> a]
<1>1. s \in [0..Len(q) -> Nat] /\ s[0] = a /\ s[Len(q)] = a
  OBVIOUS
<1>2. \A i \in 1..Len(q) : FALSE
  OBVIOUS
<1> QED
  BY <1>1, <1>2 DEF Leads

LEMMA LeadsOn ==
  ASSUME NEW a \in Nat, NEW b \in Nat, NEW q \in Seq(Messages), NEW m \in Messages,
         Leads(a, q, b)
  PROVE  Leads(a, Append(q, m), b + Gain(m))
<1>1. PICK s \in [0..Len(q) -> Nat] :
        /\ s[0] = a /\ s[Len(q)] = b
        /\ \A i \in 1..Len(q) : s[i] = s[i - 1] + Gain(q[i])
  BY DEF Leads
<1>2. Gain(m) \in Nat /\ Len(q) \in Nat
  BY DEF Gain, Messages
<1> DEFINE p == Append(q, m)
           t == [i \in 0..(Len(q) + 1) |-> IF i <= Len(q) THEN s[i] ELSE b + Gain(m)]
<1>3. /\ Len(p) = Len(q) + 1 /\ p[Len(q) + 1] = m
      /\ \A i \in 1..Len(q) : p[i] = q[i]
  BY SendOne
<1>4. t \in [0..Len(p) -> Nat] /\ t[0] = a /\ t[Len(p)] = b + Gain(m)
  BY <1>1, <1>2, <1>3
<1>5. ASSUME NEW i \in 1..Len(p)
      PROVE  t[i] = t[i - 1] + Gain(p[i])
  <2>1. CASE i = Len(q) + 1
    BY <1>1, <1>2, <1>3, <2>1
  <2>2. CASE i # Len(q) + 1
    <3>1. i \in 1..Len(q) /\ i - 1 \in 0..Len(q)
      BY <1>2, <1>3, <2>2
    <3> QED
      BY <1>1, <1>2, <1>3, <3>1
  <2> QED
    BY <2>1, <2>2
<1> QED
  BY <1>4, <1>5, Zenon DEF Leads

LEMMA LeadsAfter ==
  ASSUME NEW a \in Nat, NEW b \in Nat, NEW q \in Seq(Messages), q # <<>>,
         Leads(a, q, b)
  PROVE  Leads(a + Gain(Head(q)), Tail(q), b)
<1>1. PICK s \in [0..Len(q) -> Nat] :
        /\ s[0] = a /\ s[Len(q)] = b
        /\ \A i \in 1..Len(q) : s[i] = s[i - 1] + Gain(q[i])
  BY DEF Leads
<1> DEFINE p == Tail(q)
           t == [i \in 0..(Len(q) - 1) |-> s[i + 1]]
<1>2. /\ Len(q) \in Nat /\ Len(q) >= 1 /\ Len(p) = Len(q) - 1 /\ Head(q) = q[1]
      /\ \A i \in 1..(Len(q) - 1) : p[i] = q[i + 1]
  BY ReadOne
<1>3. t \in [0..Len(p) -> Nat] /\ t[Len(p)] = b
  BY <1>1, <1>2
<1>4. t[0] = a + Gain(Head(q))
  <2>1. 1 \in 1..Len(q) /\ t[0] = s[1]
    BY <1>2
  <2> QED
    BY <1>1, <1>2, <2>1
<1>5. ASSUME NEW i \in 1..Len(p)
      PROVE  t[i] = t[i - 1] + Gain(p[i])
  <2>1. /\ i + 1 \in 1..Len(q) /\ t[i] = s[i + 1] /\ t[i - 1] = s[i]
        /\ p[i] = q[i + 1]
    BY <1>2
  <2>2. s[i + 1] = s[(i + 1) - 1] + Gain(q[i + 1])
    BY <1>1, <2>1
  <2> QED
    BY <2>1, <2>2
<1> QED
  BY <1>3, <1>4, <1>5, Zenon DEF Leads

\* Nothing but ReadyForQuery changes nothing.
LEMMA LeadsToItself ==
  ASSUME NEW a \in Nat, NEW b \in Nat, NEW q \in Seq(Messages), Leads(a, q, b),
         Len(q) <= 1, \A i \in 1..Len(q) : q[i].kind = "ready"
  PROVE  a = b
<1>1. PICK s \in [0..Len(q) -> Nat] :
        /\ s[0] = a /\ s[Len(q)] = b
        /\ \A i \in 1..Len(q) : s[i] = s[i - 1] + Gain(q[i])
  BY DEF Leads
<1>2. Len(q) \in Nat
  OBVIOUS
<1>3. CASE Len(q) = 0
  BY <1>1, <1>3
<1>4. CASE Len(q) = 1
  <2>1. s[1] = s[0] + Gain(q[1]) /\ q[1].kind = "ready" /\ s[0] \in Nat
    BY <1>1, <1>4
  <2> QED
    BY <1>1, <1>4, <2>1 DEF Gain
<1> QED
  BY <1>2, <1>3, <1>4

LEMMA CountingInit == Init => Counting
BY DEF Init, Counting, NothingSent, RowsCounted, NoRowYet, AffectedCounted, Executing

\* An execution that has not begun, or is over for R.
LEMMA CountingStarts ==
  ASSUME ~Executing',
         sends' = 0 => /\ counted' = 0
                       /\ pc' \in {"drain", "send", "R"} => affected' = 0
                       /\ pc' = "R" => nrows' = 0 \/ ~ready'
  PROVE  Counting'
BY DEF Counting, NothingSent, RowsCounted, NoRowYet, AffectedCounted

\* A call that fails, or that closes the result.
LEMMA CountingStops ==
  ASSUME Sound, Counting, ~Executing', sends' = sends, counted' = counted,
         pc' \in {"R", "drain", "send"} => pc \in Inside
  PROVE  Counting'
<1>1. pc \in Inside => sends > 0
  BY DEF Sound, Control
<1>2. sends' = 0 => /\ counted' = 0
                    /\ pc' \in {"drain", "send", "R"} => affected' = 0
                    /\ pc' = "R" => nrows' = 0 \/ ~ready'
  BY <1>1 DEF Counting, NothingSent
<1> QED
  BY <1>2, CountingStarts, Zenon

\* A step that leaves the queue and the server alone.
LEMMA CountingKept ==
  ASSUME Counting, Executing, Executing', UNCHANGED <<inbox, sent, counted, affected, cols>>,
         sends' > 0, RowsCounted'
  PROVE  Counting'
<1>1. NothingSent'
  BY DEF NothingSent
<1>2. NoRowYet' /\ AffectedCounted'
  BY DEF Counting, NoRowYet, AffectedCounted
<1> QED
  BY <1>1, <1>2 DEF Counting

(***************************************************************************)
(* The server.                                                             *)
(***************************************************************************)

\* The server sends a message: nrows_ and what R has are not its business.
LEMMA CountingServer ==
  ASSUME Sound, Counting, ClientIdle, NEW m \in Messages, inbox' = Append(inbox, m),
         counted' = IF Counts THEN counted + Gain(m) ELSE counted,
         m.kind = "tuples_ok" => m.count <= sent,
         m.kind = "row" \/ sent' = 0 \/ sent' = sent,
         sent' \in Nat
  PROVE  Counting'
<1>1. /\ UNCHANGED <<pc, caller, affected, ready, nrows, cols, frame, rowsOut, told, sends>>
      /\ Executing' = Executing /\ Uncounted' = Uncounted
  BY DEF ClientIdle, cacheVars, bindVars, flagVars, fetchVars, Executing, Uncounted
<1>2. /\ inbox \in Seq(Messages) /\ affected \in Nat /\ counted \in Nat /\ sent \in Nat
      /\ sends \in Nat
  BY BoundsAssumption DEF Sound, TypeOK, Messages
<1>3. /\ Len(inbox') = Len(inbox) + 1 /\ Len(inbox) \in Nat
      /\ \A i \in 1..Len(inbox) : inbox'[i] = inbox[i]
      /\ inbox'[Len(inbox) + 1] = m
  BY <1>2, SendOne
<1>4. NothingSent'
  BY <1>1 DEF Counting, NothingSent, Counts
<1>5. RowsCounted'
  BY <1>1 DEF Counting, RowsCounted
<1>6. NoRowYet'
  <2> SUFFICES ASSUME Executing, cols = NoCols
               PROVE  /\ \A i \in 1..Len(inbox') :
                           inbox'[i].kind = "tuples_ok" /\ inbox'[i].count > 0 =>
                             \E j \in 1..(i - 1) : inbox'[j].kind = "row"
                      /\ sent' > 0 => \E j \in 1..Len(inbox') : inbox'[j].kind = "row"
    BY <1>1 DEF NoRowYet
  <2>1. /\ \A i \in 1..Len(inbox) : inbox[i].kind = "tuples_ok" /\ inbox[i].count > 0 =>
             \E j \in 1..(i - 1) : inbox[j].kind = "row"
        /\ sent > 0 => \E j \in 1..Len(inbox) : inbox[j].kind = "row"
    BY DEF Counting, NoRowYet
  <2>2. ASSUME NEW i \in 1..Len(inbox'), inbox'[i].kind = "tuples_ok", inbox'[i].count > 0
        PROVE  \E j \in 1..(i - 1) : inbox'[j].kind = "row"
    <3>1. CASE i = Len(inbox) + 1
      <4>1. m.count \in Nat /\ sent > 0
        BY <1>2, <1>3, <2>2, <3>1 DEF Messages
      <4> QED
        BY <1>3, <2>1, <3>1, <4>1
    <3>2. CASE i # Len(inbox) + 1
      <4>1. i \in 1..Len(inbox) /\ inbox'[i] = inbox[i]
        BY <1>3, <3>2
      <4>2. PICK j \in 1..(i - 1) : inbox[j].kind = "row"
        BY <2>1, <2>2, <4>1
      <4> QED
        BY <1>3, <4>1, <4>2
    <3> QED
      BY <3>1, <3>2
  <2>3. ASSUME sent' > 0
        PROVE  \E j \in 1..Len(inbox') : inbox'[j].kind = "row"
    <3>1. CASE m.kind = "row"
      BY <1>3, <3>1
    <3>2. CASE m.kind # "row"
      <4>1. PICK j \in 1..Len(inbox) : inbox[j].kind = "row"
        BY <2>1, <2>3, <3>2
      <4> QED
        BY <1>3, <4>1
    <3> QED
      BY <3>1, <3>2
  <2> QED
    BY <2>2, <2>3
<1>7. AffectedCounted'
  <2> SUFFICES ASSUME Executing, cols = NoCols
               PROVE  Leads(affected, inbox', counted')
    BY <1>1 DEF AffectedCounted
  <2>1. Leads(affected, inbox, counted) /\ counted' = counted + Gain(m)
    BY DEF Counting, AffectedCounted, Executing, Counts
  <2> QED
    BY <1>2, <2>1, LeadsOn
<1> QED
  BY <1>4, <1>5, <1>6, <1>7 DEF Counting

LEMMA CountingServes ==
  ASSUME Sound, Counting, Server
  PROVE  Counting'
<1>1. /\ todo \in Seq(AnyCols) /\ sent \in Nat /\ counted \in Nat /\ produced \in Nat
      /\ sent \in 0..MaxRows /\ MaxRows \in Nat
  BY BoundsAssumption DEF Sound, TypeOK
<1>2. ClientIdle
  BY DEF Server, SendRow, FinishStatement, FailStatement, EndCommand, ClientIdle, pastVars
<1>3. CASE SendRow
  <2> DEFINE m == Message("row", produced', Head(todo), 0)
  <2>1. m \in Messages /\ m.kind = "row" /\ inbox' = Append(inbox, m) /\ Gain(m) = 0
    BY <1>1, <1>3 DEF SendRow, Message, Messages, MsgKinds, AnyCols, Gain
  <2>2. counted' = counted /\ sent' \in Nat
    BY <1>1, <1>3 DEF SendRow
  <2> HIDE DEF m
  <2>3. counted' = IF Counts THEN counted + Gain(m) ELSE counted
    BY <1>1, <2>1, <2>2
  <2> QED
    BY <1>2, <2>1, <2>2, <2>3, CountingServer
<1>4. CASE FinishStatement
  <2>1. sent' = 0
    BY <1>4 DEF FinishStatement
  <2>2. CASE Head(todo) # NoCols
    <3> DEFINE m == Message("tuples_ok", 0, Head(todo), sent)
    <3>1. m \in Messages /\ inbox' = Append(inbox, m) /\ Gain(m) = 0 /\ m.count = sent
      BY <1>1, <1>4, <2>2 DEF FinishStatement, Message, Messages, MsgKinds, AnyCols, Gain
    <3>2. counted' = counted
      BY <1>4, <2>2 DEF FinishStatement
    <3> HIDE DEF m
    <3>3. counted' = IF Counts THEN counted + Gain(m) ELSE counted
      BY <1>1, <3>1, <3>2
    <3> QED
      BY <1>1, <1>2, <2>1, <3>1, <3>3, CountingServer
  <2>3. CASE Head(todo) = NoCols
    <3>1. PICK n \in 0..MaxRows :
            /\ inbox' = Append(inbox, Message("command_ok", 0, NoCols, n))
            /\ counted' = IF Counts THEN counted + n ELSE counted
      BY <1>4, <2>3 DEF FinishStatement
    <3> DEFINE m == Message("command_ok", 0, NoCols, n)
    <3>2. m \in Messages /\ Gain(m) = n /\ m.kind # "tuples_ok"
      BY <1>1 DEF Message, Messages, MsgKinds, AnyCols, Gain
    <3>3. inbox' = Append(inbox, m)
      BY <3>1
    <3> HIDE DEF m
    <3> QED
      BY <1>1, <1>2, <2>1, <3>1, <3>2, <3>3, CountingServer
  <2> QED
    BY <2>2, <2>3
<1>5. CASE FailStatement
  <2> DEFINE m == Message("error", 0, NoCols, 0)
  <2>1. m \in Messages /\ inbox' = Append(inbox, m) /\ Gain(m) = 0 /\ m.kind # "tuples_ok"
    BY <1>5 DEF FailStatement, Message, Messages, MsgKinds, AnyCols, Gain
  <2>2. counted' = counted /\ sent' = 0
    BY <1>5 DEF FailStatement
  <2> HIDE DEF m
  <2>3. counted' = IF Counts THEN counted + Gain(m) ELSE counted
    BY <1>1, <2>1, <2>2
  <2> QED
    BY <1>2, <2>1, <2>2, <2>3, CountingServer
<1>6. CASE EndCommand
  <2> DEFINE m == Message("ready", 0, NoCols, 0)
  <2>1. m \in Messages /\ inbox' = Append(inbox, m) /\ Gain(m) = 0 /\ m.kind # "tuples_ok"
    BY <1>6 DEF EndCommand, Message, Messages, MsgKinds, AnyCols, Gain
  <2>2. counted' = counted /\ sent' = sent
    BY <1>6 DEF EndCommand, pastVars
  <2> HIDE DEF m
  <2>3. counted' = IF Counts THEN counted + Gain(m) ELSE counted
    BY <1>1, <2>1, <2>2
  <2> QED
    BY <1>1, <1>2, <2>1, <2>2, <2>3, CountingServer
<1> QED
  BY <1>3, <1>4, <1>5, <1>6 DEF Server

(***************************************************************************)
(* The client.                                                             *)
(***************************************************************************)

\* A message is read.
LEMMA CountingReads ==
  ASSUME Sound, Counting, Executing, Executing', inbox # <<>>, inbox' = Tail(inbox),
         UNCHANGED <<sent, counted, sends>>, RowsCounted',
         cols' = NoCols => /\ cols = NoCols /\ Head(inbox).kind # "row"
                           /\ affected' = affected + Gain(Head(inbox))
  PROVE  Counting'
<1>1. inbox \in Seq(Messages) /\ affected \in Nat /\ counted \in Nat
  BY DEF Sound, TypeOK, Messages
<1>2. /\ Len(inbox) \in Nat /\ Len(inbox) >= 1 /\ Len(inbox') = Len(inbox) - 1
      /\ Head(inbox) = inbox[1]
      /\ \A i \in 1..(Len(inbox) - 1) : inbox'[i] = inbox[i + 1]
  BY <1>1, ReadOne
<1>3. NothingSent'
  BY DEF NothingSent, Executing
<1>4. NoRowYet'
  <2> SUFFICES ASSUME cols' = NoCols
               PROVE  /\ \A i \in 1..Len(inbox') :
                           inbox'[i].kind = "tuples_ok" /\ inbox'[i].count > 0 =>
                             \E j \in 1..(i - 1) : inbox'[j].kind = "row"
                      /\ sent' > 0 => \E j \in 1..Len(inbox') : inbox'[j].kind = "row"
    BY DEF NoRowYet
  <2>1. /\ \A i \in 1..Len(inbox) : inbox[i].kind = "tuples_ok" /\ inbox[i].count > 0 =>
             \E j \in 1..(i - 1) : inbox[j].kind = "row"
        /\ sent > 0 => \E j \in 1..Len(inbox) : inbox[j].kind = "row"
        /\ inbox[1].kind # "row"
    BY <1>2 DEF Counting, NoRowYet
  <2>2. ASSUME NEW i \in 1..Len(inbox'), inbox'[i].kind = "tuples_ok", inbox'[i].count > 0
        PROVE  \E j \in 1..(i - 1) : inbox'[j].kind = "row"
    <3>1. i + 1 \in 1..Len(inbox) /\ inbox'[i] = inbox[i + 1]
      BY <1>2
    <3>2. PICK j \in 1..((i + 1) - 1) : inbox[j].kind = "row"
      BY <2>1, <2>2, <3>1
    <3>3. j - 1 \in 1..(i - 1) /\ inbox'[j - 1] = inbox[j]
      BY <1>2, <2>1, <3>1, <3>2
    <3> QED
      BY <3>2, <3>3
  <2>3. ASSUME sent' > 0
        PROVE  \E j \in 1..Len(inbox') : inbox'[j].kind = "row"
    <3>1. PICK j \in 1..Len(inbox) : inbox[j].kind = "row"
      BY <2>1, <2>3
    <3>2. j - 1 \in 1..Len(inbox') /\ inbox'[j - 1] = inbox[j]
      BY <1>2, <2>1, <3>1
    <3> QED
      BY <3>1, <3>2
  <2> QED
    BY <2>2, <2>3
<1>5. AffectedCounted'
  <2> SUFFICES ASSUME cols' = NoCols
               PROVE  Leads(affected', inbox', counted')
    BY DEF AffectedCounted
  <2>1. Leads(affected, inbox, counted) /\ affected' = affected + Gain(Head(inbox))
    BY DEF Counting, AffectedCounted
  <2> QED
    BY <1>1, <2>1, LeadsAfter
<1> QED
  BY <1>3, <1>4, <1>5 DEF Counting

LEMMA CountingDrain ==
  ASSUME Sound, Counting, Drain
  PROVE  Counting'
<1>1. /\ UNCHANGED <<caller, affected, ready, nrows, cols, frame, rowsOut, told, sends,
                     sent, counted, todo, serving>>
      /\ pc \in {"drain", "unwind", "closing"}
  BY DEF Drain, cacheVars, bindVars, flagVars, fetchVars, serverVars, pastVars
<1>2. CASE pc \in {"unwind", "closing"}
  <2>1. pc' \in {pc, "gone"}
    BY <1>2 DEF Drain, AfterDrain
  <2>2. ~Executing'
    BY <1>2, <2>1 DEF Executing, Inside
  <2> QED
    BY <1>1, <1>2, <2>1, <2>2, CountingStops
<1>3. CASE pc = "drain"
  <2>1. pc' \in {"drain", "send"} /\ ~told
    BY <1>3 DEF Drain, AfterDrain, Sound, Control
  <2>2. CASE sends = 0
    <3>1. ~Executing'
      BY <1>1, <2>2 DEF Executing
    <3>2. counted' = 0 /\ affected' = 0
      BY <1>1, <1>3, <2>2 DEF Counting, NothingSent
    <3> QED
      BY <2>1, <3>1, <3>2, CountingStarts
  <2>3. CASE sends # 0
    <3>1. sends > 0
      BY <2>3 DEF Sound, TypeOK
    <3>2. Executing /\ Executing' /\ Uncounted' = Uncounted
      BY <1>1, <1>3, <2>1, <3>1 DEF Executing, Uncounted
    <3>3. RowsCounted'
      BY <1>1, <3>2 DEF Counting, RowsCounted
    <3>4. CASE UNCHANGED inbox
      BY <1>1, <3>1, <3>2, <3>3, <3>4, CountingKept
    <3>5. CASE inbox # <<>> /\ inbox' = Tail(inbox)
      <4>1. Head(inbox).kind = "ready"
        <5>1. Len(inbox) >= 1 /\ Head(inbox) = inbox[1] /\ Len(inbox) \in Nat
          BY <3>5, ReadOne DEF Sound, TypeOK, Messages
        <5> QED
          BY <1>3, <3>1, <5>1 DEF Sound, Wire, OnlyReady
      <4>2. affected' = affected + Gain(Head(inbox))
        BY <1>1, <4>1 DEF Gain, Sound, TypeOK
      <4> QED
        BY <1>1, <3>2, <3>3, <3>5, <4>1, <4>2, CountingReads
    <3> QED
      BY <1>3, <3>4, <3>5 DEF Drain
  <2> QED
    BY <2>2, <2>3
<1> QED
  BY <1>1, <1>2, <1>3

LEMMA CountingSend ==
  ASSUME Sound, Sound', Counting, Send
  PROVE  Counting'
<1>1. /\ UNCHANGED <<caller, affected, cols, frame, rowsOut, told, counted, inbox>>
      /\ pc = "send" /\ pc' = "step" /\ sends' = sends + 1 /\ sent' = 0 /\ inbox = <<>>
      /\ group = 0 => nrows' = 0
      /\ group # 0 => nrows' = nrows
  BY DEF Send, cacheVars, bindVars, WireIdle, InitResult
<1>2. /\ ~told /\ sends = group /\ sends \in Nat
      /\ affected \in Nat /\ counted \in Nat /\ inbox \in Seq(Messages)
  BY <1>1 DEF Sound, TypeOK, Control, Messages
<1>3. Executing' /\ sends' > 0 /\ Uncounted' = Uncounted
  BY <1>1, <1>2 DEF Executing, Uncounted, Inside
<1>4. NothingSent'
  BY <1>3 DEF NothingSent
<1>5. NoRowYet'
  BY <1>1 DEF NoRowYet
<1>6. CASE sends = 0
  <2>1. /\ counted = 0 /\ affected = 0 /\ ~Uncounted
        /\ rowsOut = <<>> /\ frame = <<>>
    BY <1>1, <1>6 DEF Counting, NothingSent, Sound, Control, Uncounted
  <2>2. RowsCounted'
    BY <1>1, <1>2, <1>3, <1>6, <2>1 DEF RowsCounted
  <2>3. Leads(affected, inbox, counted)
    BY <1>1, <1>2, <2>1, LeadsNowhere
  <2>4. AffectedCounted'
    BY <1>1, <2>3 DEF AffectedCounted
  <2> QED
    BY <1>4, <1>5, <2>2, <2>4 DEF Counting
<1>7. CASE sends # 0
  <2>1. Executing
    BY <1>1, <1>2, <1>7 DEF Executing
  <2>2. RowsCounted'
    BY <1>1, <1>2, <1>3, <1>7, <2>1 DEF Counting, RowsCounted
  <2>3. AffectedCounted'
    BY <1>1, <2>1 DEF Counting, AffectedCounted
  <2> QED
    BY <1>4, <1>5, <2>2, <2>3 DEF Counting
<1> QED
  BY <1>6, <1>7

\* step_run() goes on, or returns.
LEMMA UncountedStep ==
  ASSUME pc = "step", pc' \in {"step", "drain", Return}, caller' = caller,
         UNCHANGED <<nrows, frame, rowsOut>>, Executing, Counting
  PROVE  RowsCounted'
<1>1. Uncounted' = Uncounted
  BY DEF Uncounted, Return
<1> QED
  BY <1>1 DEF Counting, RowsCounted

LEMMA CountingStep ==
  ASSUME Sound, Counting, Step
  PROVE  Counting'
<1>1. /\ pc = "step" /\ pc \in Inside
      /\ UNCHANGED <<caller, nrows, sent, counted, sends, rowsOut>>
  BY DEF Step, StepRow, StepDone, StepEnd, StepError, bindVars, fetchVars, serverVars,
         pastVars, Inside
<1>2. /\ Executing /\ Reading /\ sends > 0 /\ ~told
      /\ affected \in Nat /\ cols \in AnyCols
  BY <1>1, Ending DEF Sound, TypeOK
<1>3. CASE told'
  <2>1. ~Executing'
    BY <1>3 DEF Executing
  <2> QED
    BY <1>1, <2>1, CountingStops
<1>4. CASE ~told'
  <2>1. /\ pc' \in {"step", "drain", Return} /\ frame' = frame
    BY <1>4 DEF Step, StepRow, StepDone, StepEnd, StepError, Raise, fetchVars
  <2>2. Executing'
    BY <1>1, <1>2, <1>4, <2>1 DEF Executing, Return, Inside
  <2>3. RowsCounted'
    BY <1>1, <1>2, <2>1, UncountedStep
  <2>4. inbox # <<>> => /\ inbox[1] \in Messages /\ Head(inbox) = inbox[1]
                        /\ Len(inbox) \in Nat /\ Len(inbox) >= 1
    BY ReadOne DEF Sound, TypeOK, Messages
  <2>5. CASE StepRow
    <3>1. inbox # <<>> /\ inbox' = Tail(inbox) /\ inbox[1].kind = "row"
      BY <2>4, <2>5 DEF StepRow
    <3>2. inbox[1].cols \in Cols /\ inbox[1].cols # NoCols /\ ~complete
      BY <1>1, <2>4, <3>1, ColsAssumption, NextRow DEF Sound, RowsOfOne
    <3>3. cols' # NoCols
      <4>1. CASE dataReady
        BY <1>2, <1>4, <2>5, <3>1, <3>2, <4>1 DEF StepRow, Checked, Raise, Sound, Columns
      <4>2. CASE ~dataReady
        BY <1>4, <2>4, <2>5, <3>2, <4>2 DEF StepRow, Checked, Raise
      <4> QED
        BY <4>1, <4>2
    <3> QED
      BY <1>1, <1>2, <2>2, <2>3, <3>1, <3>3, CountingReads
  <2>6. CASE StepDone
    <3>1. /\ inbox # <<>> /\ inbox' = Tail(inbox) /\ Head(inbox).kind \in Ends
          /\ affected' = affected + Head(inbox).count /\ cols' = cols
      BY <2>6 DEF StepDone, CountAffected, Ends, cacheVars
    <3>2. cols = NoCols => Gain(Head(inbox)) = Head(inbox).count
      <4> SUFFICES ASSUME cols = NoCols, Head(inbox).kind = "tuples_ok"
                   PROVE  Head(inbox).count = 0
        BY <3>1 DEF Gain, Ends
      <4>1. Head(inbox).count \in Nat /\ 1 \in 1..Len(inbox)
        BY <2>4, <3>1 DEF Messages
      <4>2. ~(inbox[1].count > 0)
        BY <1>2, <2>4, <3>1, <4>1 DEF Counting, NoRowYet
      <4> QED
        BY <2>4, <3>1, <4>1, <4>2
    <3>3. Head(inbox).kind # "row"
      BY <3>1 DEF Ends
    <3> QED
      BY <1>1, <1>2, <2>2, <2>3, <3>1, <3>2, <3>3, CountingReads
  <2>7. CASE StepEnd
    <3>1. UNCHANGED <<cols, affected>>
      BY <2>7 DEF StepEnd, cacheVars, bindVars
    <3>2. CASE UNCHANGED inbox
      BY <1>1, <1>2, <2>2, <2>3, <3>1, <3>2, CountingKept
    <3>3. CASE inbox # <<>> /\ Head(inbox).kind = "ready" /\ inbox' = Tail(inbox)
      <4>1. affected' = affected + Gain(Head(inbox))
        BY <1>2, <3>1, <3>3 DEF Gain
      <4> QED
        BY <1>1, <1>2, <2>2, <2>3, <3>1, <3>3, <4>1, CountingReads
    <3> QED
      BY <2>7, <3>2, <3>3 DEF StepEnd
  <2>8. CASE StepError
    BY <1>4, <2>8 DEF StepError, Raise
  <2> QED
    BY <2>5, <2>6, <2>7, <2>8 DEF Step
<1> QED
  BY <1>3, <1>4

LEMMA CountingFetch ==
  ASSUME Sound, Sound', Counting, (\E n \in {-1, 1, 2} : BeginFetch(n)) \/ CopyRow \/ Advance
  PROVE  Counting'
<1>1. UNCHANGED <<sent, counted, sends, inbox, affected, cols, told>>
  BY DEF BeginFetch, CopyRow, Advance, cacheVars, bindVars, serverVars, pastVars
<1>2. /\ nrows \in Nat /\ rowsOut \in Seq(Nat) /\ frame \in Seq(Nat) /\ sends \in Nat
      /\ Len(rowsOut) \in Nat /\ Len(frame) \in Nat /\ pc' # "gone"
  BY LenProperties DEF Sound, TypeOK, BeginFetch, CopyRow, Advance
<1>3. CASE \E n \in {-1, 1, 2} : BeginFetch(n)
  <2>1. /\ pc = "R" /\ pc' = "fetch" /\ frame' = <<>> /\ ready /\ ~complete
        /\ UNCHANGED <<nrows, rowsOut>>
    BY <1>3 DEF BeginFetch, pastVars
  <2>2. frame = <<>> /\ sends > 0 /\ ~told
    BY <1>1, <2>1 DEF Sound, Control, Inside
  <2>3. Executing /\ Executing' /\ ~Uncounted /\ ~Uncounted'
    BY <1>1, <2>1, <2>2 DEF Executing, Uncounted, Inside
  <2>4. RowsCounted'
    BY <2>1, <2>2, <2>3 DEF Counting, RowsCounted
  <2> QED
    BY <1>1, <2>2, <2>3, <2>4, CountingKept
<1>4. CASE CopyRow
  <2>1. /\ pc = "fetch" /\ pc' = "step" /\ frame' = Append(frame, res.row)
        /\ UNCHANGED <<nrows, rowsOut, caller>> /\ res.row \in Nat
    BY <1>4 DEF CopyRow, pastVars, Sound, TypeOK
  <2>2. caller = "fetch" /\ sends > 0 /\ ~told
    BY <2>1 DEF Sound, Control, Inside
  <2>3. Executing /\ Executing' /\ ~Uncounted /\ Uncounted'
    BY <1>1, <2>1, <2>2 DEF Executing, Uncounted, Inside
  <2>4. Len(frame') = Len(frame) + 1
    BY <1>2, <2>1, AppendProperties
  <2>5. RowsCounted'
    BY <1>2, <2>1, <2>3, <2>4 DEF Counting, RowsCounted
  <2> QED
    BY <1>1, <2>2, <2>3, <2>5, CountingKept
<1>5. CASE Advance
  <2>1. /\ pc = "advance" /\ pc' \in {"R", "fetch"} /\ nrows' = nrows + 1 /\ caller' = caller
        /\ \/ rowsOut' = rowsOut \o frame /\ frame' = <<>>
           \/ UNCHANGED <<rowsOut, frame>>
    BY <1>5 DEF Advance
  <2>2. caller = "fetch" /\ sends > 0 /\ ~told
    BY <2>1 DEF Sound, Control, Inside
  <2>3. Executing /\ Executing' /\ Uncounted /\ ~Uncounted'
    BY <1>1, <2>1, <2>2 DEF Executing, Uncounted, Inside
  <2>4. Len(rowsOut') + Len(frame') = Len(rowsOut) + Len(frame)
    <3>1. CASE rowsOut' = rowsOut \o frame /\ frame' = <<>>
      <4>1. Len(rowsOut \o frame) = Len(rowsOut) + Len(frame)
        BY <1>2, ConcatProperties
      <4> QED
        BY <1>2, <3>1, <4>1
    <3>2. CASE UNCHANGED <<rowsOut, frame>>
      BY <3>2
    <3> QED
      BY <2>1, <3>1, <3>2
  <2>5. RowsCounted'
    BY <1>2, <2>1, <2>3, <2>4 DEF Counting, RowsCounted
  <2> QED
    BY <1>1, <2>2, <2>3, <2>5, CountingKept
<1> QED
  BY <1>3, <1>4, <1>5

(***************************************************************************)
(* The other calls, and all of it.                                         *)
(***************************************************************************)

LEMMA CountingUser ==
  ASSUME Sound, Sound', Counting, User
  PROVE  Counting'
<1>1. CASE \E q \in Queries : Create(q)
  <2>1. sends' = 0 /\ counted' = 0 /\ affected' = 0 /\ nrows' = 0
    BY <1>1 DEF Create, Forget
  <2> QED
    BY <2>1, CountingStarts DEF Executing
<1>2. CASE \E n \in Groups : Bind(n)
  <2>1. sends' = 0 /\ counted' = 0 /\ affected' = 0 /\ pc' # "R"
    BY <1>2 DEF Bind, Forget
  <2> QED
    BY <2>1, CountingStarts DEF Executing
<1>3. CASE BindNothing
  <2>1. sends' = 0 /\ counted' = 0 /\ affected' = 0 /\ nrows' = 0
    BY <1>3 DEF BindNothing, Forget
  <2> QED
    BY <2>1, CountingStarts DEF Executing
<1>4. CASE \E n \in {-1, 1, 2} : BeginFetch(n)
  BY <1>4, CountingFetch
<1>5. CASE Close
  <2>1. pc' = "closing" /\ UNCHANGED <<sends, counted>>
    BY <1>5 DEF Close, pastVars
  <2> QED
    BY <2>1, CountingStops DEF Executing, Inside
<1>6. CASE Interrupt \/ AdvanceInterrupted
  <2>1. told' /\ pc \in Inside /\ UNCHANGED <<sends, counted>>
    BY <1>6 DEF Interrupt, AdvanceInterrupted, Raise, Inside
  <2> QED
    BY <2>1, CountingStops DEF Executing
<1> QED
  BY <1>1, <1>2, <1>3, <1>4, <1>5, <1>6 DEF User

LEMMA CountingStutter ==
  ASSUME Counting, UNCHANGED vars
  PROVE  Counting'
<1>1. UNCHANGED <<pc, caller, ready, nrows, affected, cols, frame, sent, inbox, rowsOut, told,
                  sends, counted>>
  BY DEF vars, cacheVars, bindVars, flagVars, fetchVars, serverVars, pastVars
<1>2. Executing' = Executing /\ Uncounted' = Uncounted
  BY <1>1 DEF Executing, Uncounted
<1> QED
  BY <1>1, <1>2 DEF Counting, NothingSent, RowsCounted, NoRowYet, AffectedCounted

LEMMA CountingNext ==
  ASSUME FetchAfterError = FALSE, Sound, Counting, [Next]_vars
  PROVE  Counting'
<1>1. Sound'
  BY SoundNext
<1>2. CASE Server
  BY <1>2, CountingServes
<1>3. CASE Client
  BY <1>1, <1>3, CountingDrain, CountingSend, CountingStep, CountingFetch DEF Client
<1>4. CASE User
  BY <1>1, <1>4, CountingUser
<1> QED
  BY <1>2, <1>3, <1>4, CountingStutter DEF Next

LEMMA CountsExact ==
  ASSUME Sound, Counting
  PROVE  CountsAreExact
<1> SUFFICES ASSUME pc = "R", ready, ~told
             PROVE  /\ nrows = Len(rowsOut)
                    /\ complete /\ cols = NoCols => RowsAffected = counted
  BY DEF CountsAreExact
<1>1. /\ frame = <<>> /\ sends \in Nat /\ affected \in Nat /\ counted \in Nat
      /\ inbox \in Seq(Messages) /\ Len(rowsOut) \in Nat
  BY LenProperties DEF Sound, TypeOK, Control, Inside, Messages
<1>2. CASE sends = 0
  <2>1. rowsOut = <<>> /\ nrows = 0 /\ affected = 0 /\ counted = 0
    BY <1>2 DEF Sound, Control, Counting, NothingSent
  <2> QED
    BY <2>1 DEF RowsAffected
<1>3. CASE sends # 0
  <2>1. Executing /\ Reading /\ ~Uncounted
    BY <1>1, <1>3 DEF Executing, Reading, Uncounted, Inside
  <2>2. nrows = Len(rowsOut)
    BY <1>1, <2>1 DEF Counting, RowsCounted
  <2>3. ASSUME complete, cols = NoCols
        PROVE  RowsAffected = counted
    <3>1. \A i \in 1..Len(inbox) : inbox[i].kind = "ready" /\ i = Len(inbox)
      BY <2>1, <2>3 DEF Sound, Commands, OnlyReady, Order
    <3>2. Len(inbox) <= 1
      <4>1. Len(inbox) \in Nat
        BY <1>1
      <4>2. Len(inbox) > 1 => 1 \in 1..Len(inbox)
        BY <4>1
      <4> QED
        BY <3>1, <4>1, <4>2
    <3>3. Leads(affected, inbox, counted)
      BY <2>1, <2>3 DEF Counting, AffectedCounted
    <3>4. affected = counted
      BY <1>1, <3>1, <3>2, <3>3, LeadsToItself
    <3> QED
      BY <2>3, <3>4 DEF RowsAffected
  <2> QED
    BY <2>2, <2>3
<1> QED
  BY <1>2, <1>3

\* dbGetRowCount() is the number of rows R was given, and dbGetRowsAffected()
\* the rows that all statements and parameter rows have affected, however many
\* there are and however far the server is ahead.
THEOREM CountsStayExact == FetchAfterError = FALSE => (Spec => []CountsAreExact)
<1> SUFFICES ASSUME FetchAfterError = FALSE
             PROVE  Spec => []CountsAreExact
  OBVIOUS
<1>1. Sound /\ Counting /\ [Next]_vars => Counting'
  BY CountingNext
<1>2. Sound /\ Counting => CountsAreExact
  BY CountsExact
<1>3. Spec => []Sound
  BY AlwaysSound
<1> QED
  BY <1>1, <1>2, <1>3, CountingInit, PTL DEF Spec

-----------------------------------------------------------------------------
(* PqResultImpl implements the abstract result set.                        *)

\* What RowStream sees of a step that gives R nothing.
OutcomeKept == UNCHANGED <<rowsOut, produced, sends, groups, todo, broken>>

Allowed == Stream!Next \/ UNCHANGED Stream!vars

\* The operators of RowStream, on the variables of QueryStream.
LEMMA StreamActions ==
  /\ Stream!vars = <<produced, Over, rowsOut, Status>>
  /\ Over \in BOOLEAN
  /\ Over = (sends = groups /\ (sends > 0 => todo = <<>> /\ ~broken))
BY DEF Stream!vars, Over

LEMMA OverKept ==
  ASSUME OutcomeKept
  PROVE  Over' = Over /\ produced' = produced /\ rowsOut' = rowsOut
BY DEF OutcomeKept, Over

LEMMA StatusKept ==
  ASSUME UNCHANGED <<rowsOut, produced>>, Over' = Over, Status' = Status
  PROVE  Allowed
BY StreamActions DEF Allowed, Stream!vars

LEMMA Failing ==
  ASSUME OutcomeKept, ~told, pc \in Inside, told'
  PROVE  Allowed
<1>1. Status = "open" /\ Status' = "failed"
  BY DEF Status, Inside
<1>2. Stream!Fail
  BY <1>1, OverKept DEF Stream!Fail
<1> QED
  BY <1>2 DEF Allowed, Stream!Next

Whole ==
  Sound /\ pc = "R" /\ ready /\ complete /\ ~told =>
    /\ Len(rowsOut) = produced /\ sends = groups
    /\ sends > 0 => todo = <<>> /\ ~broken

\* WholeResult of the next state.
LEMMA WholeNext == Whole'
<1>1. Whole
  BY WholeResult DEF Whole
<1> QED
  BY <1>1, PTL

\* A call ends, or goes on, and nothing is given to R.
LEMMA Ended ==
  ASSUME Sound, Sound', OutcomeKept, pc \in Inside, ~told, ~told',
         pc' \in Inside \cup {"R", "drain"}
  PROVE  Allowed
<1>1. Status = "open"
  BY DEF Status, Inside
<1>2. CASE pc' = "R" /\ ready' /\ complete'
  <2>1. Status' = "complete"
    BY <1>2 DEF Status
  <2>2. Len(rowsOut') = produced' /\ Over'
    BY <1>2, WholeNext DEF Over, Whole
  <2>3. rowsOut \in Seq(Nat) /\ produced \in Nat
    BY DEF Sound, TypeOK
  <2>4. Over /\ Len(rowsOut) = produced /\ UNCHANGED <<rowsOut, produced, Over>>
    BY <2>2, OverKept
  <2>5. rowsOut = rowsOut \o [i \in 1..0 |-> Len(rowsOut) + i]
    <3>1. [i \in 1..0 |-> Len(rowsOut) + i] = <<>>
      OBVIOUS
    <3> QED
      BY <2>3, <3>1, ConcatEmptySeq
  <2>6. 0 \in 0..(produced - Len(rowsOut)) /\ Len(rowsOut) + 0 = produced
    BY <2>3, <2>4
  <2>7. Stream!Give
    BY <1>1, <2>1, <2>4, <2>5, <2>6 DEF Stream!Give
  <2> QED
    BY <2>7 DEF Allowed, Stream!Next
<1>3. CASE ~(pc' = "R" /\ ready' /\ complete')
  <2>1. Status' = "open"
    BY <1>3 DEF Status, Inside
  <2> QED
    BY <1>1, <2>1, OverKept, StatusKept
<1> QED
  BY <1>2, <1>3

(***************************************************************************)
(* The server.                                                             *)
(***************************************************************************)

LEMMA ServerAllowed ==
  ASSUME Sound, Server
  PROVE  Allowed
<1>1. UNCHANGED <<sends, groups, rowsOut>> /\ Status' = Status
  BY DEF Server, SendRow, FinishStatement, FailStatement, EndCommand, Status,
         bindVars, flagVars, pastVars
<1>2. sends \in Nat /\ broken \in BOOLEAN /\ todo \in Seq(AnyCols) /\ produced \in Nat
  BY DEF Sound, TypeOK
<1>3. CASE SendRow
  <2>1. UNCHANGED <<todo, broken>> /\ todo # <<>>
    BY <1>3 DEF SendRow
  <2>2. Over' = Over
    BY <1>1, <2>1 DEF Over
  <2>3. CASE Counts
    <3>1. ~Over /\ produced' = produced + 1
      BY <1>3, <2>1, <2>3 DEF SendRow, Counts, Over
    <3>2. Stream!Make
      BY <1>1, <2>2, <3>1 DEF Stream!Make
    <3> QED
      BY <3>2 DEF Allowed, Stream!Next
  <2>4. CASE ~Counts
    <3>1. produced' = produced
      BY <1>3, <2>4 DEF SendRow
    <3> QED
      BY <1>1, <2>2, <3>1, StatusKept
  <2> QED
    BY <2>3, <2>4
<1>4. CASE FinishStatement
  <2>1. todo # <<>> /\ UNCHANGED <<produced, broken>>
    BY <1>4 DEF FinishStatement
  <2>2. CASE Counts
    <3>1. ~Over /\ Over' \in BOOLEAN
      BY <2>1, <2>2 DEF Counts, Over
    <3>2. CASE Over'
      <4>1. Stream!Make
        BY <1>1, <2>1, <3>1, <3>2 DEF Stream!Make
      <4> QED
        BY <4>1 DEF Allowed, Stream!Next
    <3>3. CASE ~Over'
      <4>1. Over' = Over
        BY <3>1, <3>3, StreamActions
      <4> QED
        BY <1>1, <2>1, <4>1, StatusKept
    <3> QED
      BY <3>2, <3>3
  <2>3. CASE ~Counts
    <3>1. Over' = Over
      BY <1>1, <2>3 DEF Over, Counts
    <3> QED
      BY <1>1, <2>1, <3>1, StatusKept
  <2> QED
    BY <2>2, <2>3
<1>5. CASE FailStatement
  <2>1. todo # <<>> /\ UNCHANGED produced /\ broken' = (broken \/ Counts)
    BY <1>5 DEF FailStatement
  <2>2. Over' = Over
    BY <1>1, <2>1 DEF Over, Counts
  <2> QED
    BY <1>1, <2>1, <2>2, StatusKept
<1>6. CASE EndCommand
  <2>1. OutcomeKept
    BY <1>6 DEF EndCommand, OutcomeKept, pastVars, bindVars
  <2> QED
    BY <1>1, <2>1, OverKept, StatusKept
<1> QED
  BY <1>3, <1>4, <1>5, <1>6 DEF Server

(***************************************************************************)
(* The user.                                                               *)
(***************************************************************************)

LEMMA StartAllowed ==
  ASSUME Sound, (\E q \in Queries : Create(q)) \/ (\E n \in Groups : Bind(n)) \/ BindNothing
  PROVE  Allowed
<1>1. produced' = 0 /\ rowsOut' = <<>> /\ sends' = 0 /\ ~told' /\ Over' \in BOOLEAN
  BY DEF Create, Bind, BindNothing, Forget, Over
<1>2. CASE (\E q \in Queries : Create(q)) \/ (\E n \in Groups : Bind(n))
  <2>1. Status' = "open"
    BY <1>1, <1>2 DEF Create, Bind, Status
  <2>2. Stream!Start
    BY <1>1, <2>1 DEF Stream!Start
  <2> QED
    BY <2>2 DEF Allowed, Stream!Next
<1>3. CASE BindNothing
  <2>1. Over'
    BY <1>1, <1>3 DEF BindNothing, Over
  <2>2. Status' = "complete"
    BY <1>1, <1>3 DEF BindNothing, Status
  <2>3. Stream!Start
    BY <1>1, <2>1, <2>2 DEF Stream!Start
  <2> QED
    BY <2>3 DEF Allowed, Stream!Next
<1> QED
  BY <1>2, <1>3

LEMMA UserAllowed ==
  ASSUME FetchAfterError = FALSE, Sound, User
  PROVE  Allowed
<1>1. CASE (\E q \in Queries : Create(q)) \/ (\E n \in Groups : Bind(n)) \/ BindNothing
  BY <1>1, StartAllowed
<1>2. ASSUME NEW n \in {-1, 1, 2}, BeginFetch(n)
      PROVE  Allowed
  <2>1. OutcomeKept
    BY <1>2 DEF BeginFetch, OutcomeKept, serverVars, pastVars, bindVars
  <2>2. Status' = Status
    BY <1>2 DEF BeginFetch, Status, flagVars, pastVars
  <2> QED
    BY <2>1, <2>2, OverKept, StatusKept
<1>3. CASE Close
  <2>1. OutcomeKept
    BY <1>3 DEF Close, OutcomeKept, pastVars, bindVars
  <2>2. Status' = Status
    BY <1>3 DEF Close, Status, flagVars, pastVars
  <2> QED
    BY <2>1, <2>2, OverKept, StatusKept
<1>4. CASE Interrupt
  <2>1. OutcomeKept /\ told' /\ pc \in Inside
    BY <1>4 DEF Interrupt, Raise, OutcomeKept, bindVars, Inside
  <2> QED
    BY <2>1, Failing DEF Sound, Control
<1>5. CASE AdvanceInterrupted
  <2>1. OutcomeKept /\ told' /\ pc \in Inside
    BY <1>5 DEF AdvanceInterrupted, Raise, OutcomeKept, bindVars, serverVars, Inside
  <2> QED
    BY <2>1, Failing DEF Sound, Control
<1> QED
  BY <1>1, <1>2, <1>3, <1>4, <1>5 DEF User

(***************************************************************************)
(* The client.                                                             *)
(***************************************************************************)

LEMMA DrainAllowed ==
  ASSUME Sound, Drain
  PROVE  Allowed
<1>1. OutcomeKept
  BY DEF Drain, OutcomeKept, bindVars, serverVars, pastVars
<1>2. pc = "drain" => pc' \in {"drain", "send"}
  BY DEF Drain, AfterDrain
<1>3. pc \in {"unwind", "closing"} => pc' \in {pc, "gone"}
  BY DEF Drain, AfterDrain
<1>4. UNCHANGED <<told, ready, complete>> /\ pc \in {"drain", "unwind", "closing"}
  BY DEF Drain, flagVars, pastVars
<1>5. pc = "unwind" => told
  BY DEF Sound, Control
<1>6. Status' = Status
  BY <1>2, <1>3, <1>4, <1>5 DEF Status
<1> QED
  BY <1>1, <1>6, OverKept, StatusKept

LEMMA SendAllowed ==
  ASSUME Sound, Send
  PROVE  Allowed
<1>1. /\ pc = "send" /\ pc' = "step" /\ sends' = sends + 1 /\ todo' = query.stmts
      /\ UNCHANGED <<groups, group, rowsOut, told, produced, broken>>
  BY DEF Send, bindVars
<1>2. sends \in Nat /\ groups \in Nat /\ query \in Queries
  BY DEF Sound, TypeOK
<1>3. sends = group /\ group < groups
  BY <1>1 DEF Sound, Control
<1>4. ~Over
  BY <1>2, <1>3 DEF Over
<1>5. query.stmts # <<>>
  BY <1>2, QueriesAssumption
<1>6. ~Over'
  BY <1>1, <1>2, <1>5 DEF Over
<1>7. Status' = Status
  BY <1>1 DEF Status
<1>8. Over \in BOOLEAN /\ Over' \in BOOLEAN
  BY DEF Over
<1> QED
  BY <1>1, <1>4, <1>6, <1>7, <1>8, StatusKept

LEMMA StepAllowed ==
  ASSUME Sound, Sound', Step
  PROVE  Allowed
<1>1. OutcomeKept
  BY DEF Step, StepRow, StepDone, StepEnd, StepError, OutcomeKept, bindVars, serverVars, pastVars
<1>2. pc = "step" /\ pc \in Inside /\ ~told
  BY DEF Step, StepRow, StepDone, StepEnd, StepError, Inside, Sound, Control
<1>3. CASE told'
  BY <1>1, <1>2, <1>3, Failing
<1>4. CASE ~told'
  <2>1. pc' \in Inside \cup {"R", "drain"}
    BY <1>4 DEF Step, StepRow, StepDone, StepEnd, StepError, Raise, Return, Inside
  <2> QED
    BY <1>1, <1>2, <1>4, <2>1, Ended
<1> QED
  BY <1>3, <1>4

LEMMA CopyRowAllowed ==
  ASSUME Sound, CopyRow
  PROVE  Allowed
<1>1. OutcomeKept
  BY DEF CopyRow, OutcomeKept, bindVars, serverVars, pastVars
<1>2. Status' = Status
  BY DEF CopyRow, Status, flagVars, pastVars
<1> QED
  BY <1>1, <1>2, OverKept, StatusKept

\* The rows of a frame are the next ones.
LEMMA FrameIsNext ==
  ASSUME Sound
  PROVE  frame = [i \in 1..Len(frame) |-> Len(rowsOut) + i]
<1>1. frame \in Seq(Nat) /\ \A k \in 1..Len(frame) : frame[k] = Len(rowsOut) + k
  BY DEF Sound, TypeOK, Given
<1>2. frame \in [1..Len(frame) -> Nat]
  BY <1>1, LenProperties
<1> QED
  BY <1>1, <1>2

LEMMA AdvanceAllowed ==
  ASSUME Sound, Sound', Advance
  PROVE  Allowed
<1>1. /\ pc = "advance" /\ pc \in Inside
      /\ UNCHANGED <<produced, sends, groups, todo, broken, told, ready, complete>>
  BY DEF Advance, bindVars, flagVars, serverVars, Inside
<1>2. ~told /\ sends > 0 /\ Status = "open"
  BY <1>1 DEF Sound, Control, Status
<1>3. Over' = Over
  BY <1>1 DEF Over
<1>4. /\ rowsOut \in Seq(Nat) /\ frame \in Seq(Nat) /\ produced \in Nat
      /\ Len(rowsOut) \in Nat /\ Len(frame) \in Nat
  BY LenProperties DEF Sound, TypeOK
<1>5. CASE complete \/ FrameFull
  <2>1. rowsOut' = rowsOut \o frame /\ pc' = "R"
    BY <1>5 DEF Advance
  <2>2. rowsOut' = rowsOut \o [i \in 1..Len(frame) |-> Len(rowsOut) + i]
    BY <2>1, FrameIsNext
  <2>3. Len(rowsOut') = Len(rowsOut) + Len(frame)
    BY <1>4, <2>1, ConcatProperties
  <2>4. Executing
    BY <1>1, <1>2 DEF Executing
  <2>5. Len(frame) \in 0..(produced - Len(rowsOut))
    BY <1>4, <2>4 DEF Sound, Coming, Taken
  <2>6. \/ Status' = "open"
        \/ Status' = "complete" /\ Over /\ Len(rowsOut) + Len(frame) = produced
    <3>1. CASE ready' /\ complete'
      <4>1. Len(rowsOut') = produced' /\ Over'
        BY <1>1, <1>2, <2>1, <3>1, WholeNext DEF Over, Whole
      <4>2. Status' = "complete"
        BY <1>1, <1>2, <2>1, <3>1 DEF Status
      <4> QED
        BY <1>1, <1>3, <2>3, <4>1, <4>2
    <3>2. CASE ~(ready' /\ complete')
      BY <1>1, <1>2, <3>2 DEF Status
    <3> QED
      BY <3>1, <3>2
  <2>7. Stream!Give
    BY <1>1, <1>2, <1>3, <2>2, <2>5, <2>6 DEF Stream!Give
  <2> QED
    BY <2>7 DEF Allowed, Stream!Next
<1>6. CASE ~(complete \/ FrameFull)
  <2>1. pc' = "fetch" /\ rowsOut' = rowsOut
    BY <1>6 DEF Advance
  <2>2. Status' = Status
    BY <1>1, <1>2, <2>1 DEF Status
  <2> QED
    BY <1>1, <1>3, <2>1, <2>2, StatusKept
<1> QED
  BY <1>5, <1>6

(***************************************************************************)
(* The refinement.                                                         *)
(***************************************************************************)

LEMMA StreamInit ==
  ASSUME Init
  PROVE  Stream!Init
<1>1. Status = "open" /\ Over = TRUE
  BY DEF Init, Status, Over
<1> QED
  BY <1>1 DEF Init, Stream!Init

LEMMA StreamNext ==
  ASSUME FetchAfterError = FALSE, Sound, [Next]_vars
  PROVE  [Stream!Next]_(Stream!vars)
<1>1. Sound'
  BY SoundNext
<1>2. CASE Server
  BY <1>2, ServerAllowed DEF Allowed
<1>3. CASE User
  BY <1>3, UserAllowed DEF Allowed
<1>4. CASE Client
  BY <1>1, <1>4, DrainAllowed, SendAllowed, StepAllowed, CopyRowAllowed, AdvanceAllowed
     DEF Client, Allowed
<1>5. CASE UNCHANGED vars
  <2>1. OutcomeKept /\ Status' = Status
    BY <1>5 DEF vars, OutcomeKept, Status, bindVars, flagVars, serverVars, pastVars
  <2> QED
    BY <2>1, OverKept, StatusKept DEF Allowed
<1> QED
  BY <1>2, <1>3, <1>4, <1>5 DEF Next

\* A result of RPostgres behaves as the abstract result set RowStream: rows
\* made by the server are given in order, each once; it is complete only when
\* the server is over and everything has been given; a failure is final.
THEOREM ResultIsRowStream == FetchAfterError = FALSE => (Spec => RefinesRowStream)
<1> SUFFICES ASSUME FetchAfterError = FALSE
             PROVE  Spec => RefinesRowStream
  OBVIOUS
<1>1. Init => Stream!Init
  BY StreamInit
<1>2. Sound /\ [Next]_vars => [Stream!Next]_(Stream!vars)
  BY StreamNext
<1>3. Spec => []Sound
  BY AlwaysSound
<1> QED
  BY <1>1, <1>2, <1>3, PTL DEF Spec, RefinesRowStream, Stream!Spec

=============================================================================
