------------------------------- MODULE Backend -------------------------------
(***************************************************************************)
(* What the backend keeps for one PqConnection and the package does not:   *)
(* the settings that dbConnect() makes step by step, and the LISTEN        *)
(* registration with the notifications on their way to R.                  *)
(*                                                                         *)
(* A notification is held by the backend while a transaction is open, then *)
(* lies in the pipe (the socket and libpq's input buffer) until libpq      *)
(* parses it, with any other message, and queues it.  PQreset() begins     *)
(* with a fresh backend and forgets all of this.                           *)
(***************************************************************************)
EXTENDS Naturals, Sequences

CONSTANTS
  MaxSent,     \* bound on the notifications of the other sessions
  Asked,       \* values of the argument timezone of dbConnect()
  None,        \* NULL as that argument
  ServerZones, \* time zones that the server knows
  RZones,      \* time zones that R knows
  ServerZone,  \* the server's default
  Local        \* "", R's local time

ASSUME BackendAssumption ==
  /\ MaxSent \in Nat
  /\ None \notin ServerZones
  /\ ServerZone \in ServerZones
  /\ Local \notin ServerZones \cup RZones \cup Asked

VARIABLES
  server,   \* the server accepts connections
  link,     \* the backend behind pConn_ is alive
  conn,     \* PQstatus(pConn_): "none", "ok", "bad"; "finished" after PQfinish
  setup,    \* how far dbConnect() is; "open", "failed", "lost" or "closed" at its end
  ask,      \* the argument timezone
  slot,     \* conn@timezone
  sess,     \* the backend's settings, LISTEN registration and transaction
  rows,     \* rows of an open result are outstanding
  held,     \* notifications that the backend has not sent
  pipe,     \* those that it has sent and libpq not parsed
  noise,    \* messages of other kinds are among them
  inbox,    \* libpq's queue of notifications
  wait,     \* "idle", or "select" within wait_for_notify()
  sent,     \* notifications so far, numbered
  heard,    \* the last one that R was given
  told,     \* R has seen an error that says that the backend is lost
  hidden    \* where such an error was discarded

mail == <<held, pipe, noise, inbox>>
arrived == <<pipe, noise>>
history == <<sent, heard, told, hidden>>
connect == <<setup, ask, slot>>
vars == <<server, link, conn, connect, sess, rows, mail, wait, history>>

Stages == {"start", "created", "guarded", "dated", "zoned"}

Sessions == [iso : BOOLEAN, zone : ServerZones, ear : BOOLEAN, tx : BOOLEAN]

\* What the mail holds is the subject of Mailbox.
TypeOK ==
  /\ server \in BOOLEAN /\ link \in BOOLEAN /\ rows \in BOOLEAN
  /\ noise \in BOOLEAN /\ told \in BOOLEAN
  /\ conn \in {"none", "ok", "bad", "finished"}
  /\ setup \in Stages \cup {"open", "failed", "lost", "closed"}
  /\ ask \in Asked /\ slot \in RZones \cup {Local, None}
  /\ sess \in Sessions
  /\ wait \in {"idle", "select"}
  /\ sent \in 0..MaxSent
  /\ hidden \subseteq {"clear", "typnames"}

\* A new backend.
Fresh == [iso |-> FALSE, zone |-> ServerZone, ear |-> FALSE, tx |-> FALSE]

Init ==
  /\ server \in BOOLEAN /\ link = FALSE /\ conn = "none"
  /\ setup = "start" /\ ask \in Asked /\ slot = None
  /\ sess = Fresh /\ rows = FALSE
  /\ held = <<>> /\ pipe = <<>> /\ noise = FALSE /\ inbox = <<>>
  /\ wait = "idle"
  /\ sent = 0 /\ heard = 0 /\ told = FALSE /\ hidden = {}

-----------------------------------------------------------------------------
(* dbConnect()                                                             *)

\* PQconnectdbParams() in the constructor of DbConnection, which frees a
\* connection that failed before it throws.
Create ==
  /\ setup = "start"
  /\ \/ server /\ link' = TRUE /\ conn' = "ok" /\ setup' = "created"
     \/ ~server /\ conn' = "finished" /\ setup' = "failed" /\ UNCHANGED link
  /\ UNCHANGED <<server, ask, slot, sess, rows, mail, wait, history>>

\* on.exit(dbDisconnect(conn))
Guard ==
  /\ setup = "created" /\ setup' = "guarded"
  /\ UNCHANGED <<server, link, conn, ask, slot, sess, rows, mail, wait, history>>

\* A statement fails, or the user interrupts: on.exit() disconnects.
ConnectFails ==
  /\ setup \in {"guarded", "dated", "zoned"}
  /\ setup' = "failed" /\ conn' = "finished" /\ link' = FALSE
  /\ UNCHANGED <<server, ask, slot, sess, rows, mail, wait, history>>

\* The user interrupts before on.exit(): nobody can reach the connection, and
\* the finalizer of its external pointer frees it when R collects garbage.
Abandon ==
  /\ setup = "created" /\ setup' = "lost"
  /\ UNCHANGED <<server, link, conn, ask, slot, sess, rows, mail, wait, history>>

Collect ==
  /\ setup = "lost" /\ conn # "finished"
  /\ conn' = "finished" /\ link' = FALSE
  /\ UNCHANGED <<server, connect, sess, rows, mail, wait, history>>

SetDatestyle ==
  /\ setup = "guarded" /\ link
  /\ setup' = "dated" /\ sess' = [sess EXCEPT !.iso = TRUE]
  /\ UNCHANGED <<server, link, conn, ask, slot, rows, mail, wait, history>>

\* check_tz(): local time, with a warning, when R does not know the zone.
CheckTz(z) == IF z \in RZones THEN z ELSE Local

\* Mutant of SetTimezone: the session keeps the zone of the server.
SlotOnly ==
  /\ setup = "dated" /\ link
  /\ ask \in ServerZones \cup {None}
  /\ slot' = CheckTz(IF ask = None THEN sess.zone ELSE ask)
  /\ setup' = "zoned"
  /\ UNCHANGED <<server, link, conn, ask, sess, rows, mail, wait, history>>

\* SET TIMEZONE, which the server refuses for a zone it does not know, or SHOW
\* timezone, and check_tz().
SetTimezone ==
  /\ setup = "dated" /\ link
  /\ ask \in ServerZones \cup {None}
  /\ sess' = IF ask = None THEN sess ELSE [sess EXCEPT !.zone = ask]
  /\ slot' = CheckTz(sess'.zone)
  /\ setup' = "zoned"
  /\ UNCHANGED <<server, link, conn, ask, rows, mail, wait, history>>

\* The query of the type names is in tryCatch(): dbConnect() returns even when
\* the backend dies under it.
TypeNames ==
  /\ setup = "zoned" /\ setup' = "open"
  /\ \/ link /\ UNCHANGED <<conn, hidden>>
     \/ ~link /\ conn' = "bad" /\ hidden' = hidden \cup {"typnames"}
  /\ UNCHANGED <<server, link, ask, slot, sess, rows, mail, wait, sent, heard, told>>

-----------------------------------------------------------------------------
(* Statements on the open connection.                                      *)

Idle == setup = "open" /\ wait = "idle"

\* pqParseInput(): every message of the pipe is taken, only notifications are
\* queued.
Parsed == inbox \o pipe
Emptied == pipe' = <<>> /\ noise' = FALSE

\* check_connection() with a bad connection and a server: PQreset().  The
\* statement then runs, and makes of the fresh session what next says.
OnNewBackend(next) ==
  /\ conn = "bad" /\ server
  /\ link' = TRUE /\ conn' = "ok"
  /\ sess' = next /\ held' = <<>> /\ Emptied /\ inbox' = <<>>
  /\ UNCHANGED told

\* The connection cannot be reset, or the dead backend is noticed while the
\* statement is sent or its result read.
StatementFails ==
  /\ (conn = "bad" /\ ~server) \/ (conn = "ok" /\ ~link)
  /\ conn' = "bad" /\ told' = TRUE
  /\ inbox' = Parsed /\ Emptied
  /\ UNCHANGED <<link, sess, held>>

\* A statement that the backend runs.  When that ends outside a transaction,
\* the backend sends the notifications it holds before it is ready again, and
\* libpq queues them while it reads the result.
StatementRuns(next) ==
  /\ conn = "ok" /\ link
  /\ sess' = next
  /\ IF next.tx
     THEN inbox' = Parsed /\ UNCHANGED held
     ELSE inbox' = Parsed \o held /\ held' = <<>>
  /\ Emptied
  /\ UNCHANGED <<link, conn, told>>

\* dbExecute() of a statement that makes next of the session, or renewed of a
\* fresh one: a result that is open is closed by the new one.
Execute(next, renewed) ==
  /\ Idle
  /\ StatementRuns(next) \/ StatementFails \/ OnNewBackend(renewed)
  /\ rows' = FALSE
  /\ UNCHANGED <<server, connect, wait, sent, heard, hidden>>

\* A LISTEN in a transaction would count from its end only.
Listen == ~sess.tx /\ Execute([sess EXCEPT !.ear = TRUE], [Fresh EXCEPT !.ear = TRUE])
Begin == ~sess.tx /\ Execute([sess EXCEPT !.tx = TRUE], [Fresh EXCEPT !.tx = TRUE])
End == sess.tx /\ Execute([sess EXCEPT !.tx = FALSE], Fresh)

\* dbSendQuery(): rows stay outstanding, and with them whatever comes after.
OpenResult ==
  /\ Idle /\ ~rows
  /\ \/ /\ conn = "ok" /\ link
        /\ rows' = TRUE /\ inbox' = Parsed /\ Emptied
        /\ UNCHANGED <<link, conn, sess, held, told>>
     \/ StatementFails /\ UNCHANGED rows
     \/ OnNewBackend(Fresh) /\ rows' = TRUE
  /\ UNCHANGED <<server, connect, wait, sent, heard, hidden>>

\* dbFetch() to the end.
ReadRows ==
  /\ Idle /\ rows /\ conn # "bad"
  /\ StatementRuns(sess) \/ StatementFails
  /\ rows' = FALSE
  /\ UNCHANGED <<server, connect, wait, sent, heard, hidden>>

\* dbClearResult() with rows outstanding: cancel_query() and finish_query(),
\* which discards the error of a dead backend.  On a bad connection the reset
\* is tried; its failure is swallowed.
ClearResult ==
  /\ Idle /\ rows
  /\ \/ StatementRuns(sess) /\ UNCHANGED hidden
     \/ /\ conn = "ok" /\ ~link
        /\ conn' = "bad" /\ hidden' = hidden \cup {"clear"}
        /\ inbox' = Parsed /\ Emptied
        /\ UNCHANGED <<link, sess, held, told>>
     \/ OnNewBackend(Fresh) /\ UNCHANGED hidden
     \/ conn = "bad" /\ ~server /\ UNCHANGED <<link, conn, sess, mail, told, hidden>>
  /\ rows' = FALSE
  /\ UNCHANGED <<server, connect, wait, sent, heard>>

Disconnect ==
  /\ Idle
  /\ setup' = "closed" /\ conn' = "finished" /\ link' = FALSE /\ rows' = FALSE
  /\ held' = <<>> /\ Emptied /\ inbox' = <<>>
  /\ UNCHANGED <<server, ask, slot, sess, wait, history>>

-----------------------------------------------------------------------------
(* wait_for_notify(): PQconsumeInput, PQnotifies, select, and once more.   *)

\* What PQnotifies can find: nothing behind the rows of an open result.
Consumable == IF rows THEN inbox ELSE Parsed
Consume == IF rows THEN UNCHANGED arrived ELSE Emptied

\* There is something to read.
Data == pipe # <<>> \/ noise

\* Mutant of ConsumeFails: the return value of PQconsumeInput() is ignored.
ConsumeIgnored ==
  /\ conn = "bad" \/ (~link /\ (~Data \/ rows))
  /\ conn' = "bad" /\ wait' = "idle"
  /\ UNCHANGED <<mail, heard, told>>

\* PQconsumeInput() fails; the notifications that are queued already are not
\* looked at.
ConsumeFails ==
  /\ conn = "bad" \/ (~link /\ (~Data \/ rows))
  /\ conn' = "bad" /\ told' = TRUE /\ wait' = "idle"
  /\ UNCHANGED <<mail, heard>>

Consumed == conn = "ok" /\ (link \/ (Data /\ ~rows))

\* Mutant of GiveOne: the last notification is given, the queue forgotten.
GiveLast ==
  /\ Consumed /\ Consumable # <<>>
  /\ heard' = Consumable[Len(Consumable)] /\ inbox' = <<>>
  /\ Consume /\ wait' = "idle"
  /\ UNCHANGED <<conn, held, told>>

GiveOne ==
  /\ Consumed /\ Consumable # <<>>
  /\ heard' = Head(Consumable) /\ inbox' = Tail(Consumable)
  /\ Consume /\ wait' = "idle"
  /\ UNCHANGED <<conn, held, told>>

\* Nothing yet: select() in the first round, NULL in the second one.
GiveNone(next) ==
  /\ Consumed /\ Consumable = <<>>
  /\ Consume /\ wait' = next
  /\ UNCHANGED <<conn, held, inbox, heard, told>>

WaitForNotify ==
  /\ Idle
  /\ ConsumeFails \/ GiveOne \/ GiveNone("select")
  /\ UNCHANGED <<server, link, connect, sess, rows, sent, hidden>>

\* Data of any kind or the timeout ends select(); so does a signal, with an
\* error.
Selected ==
  /\ wait = "select"
  /\ ConsumeFails \/ GiveOne \/ GiveNone("idle")
  /\ UNCHANGED <<server, link, connect, sess, rows, sent, hidden>>

Interrupted ==
  /\ wait = "select" /\ wait' = "idle"
  /\ UNCHANGED <<server, link, conn, connect, sess, rows, mail, history>>

-----------------------------------------------------------------------------
(* The server and the other sessions.                                      *)

Notify ==
  /\ link /\ sess.ear /\ sent < MaxSent
  /\ sent' = sent + 1 /\ held' = Append(held, sent + 1)
  /\ UNCHANGED <<server, link, conn, connect, sess, rows, arrived, inbox, wait, heard, told, hidden>>

Deliver ==
  /\ link /\ ~sess.tx /\ held # <<>>
  /\ pipe' = Append(pipe, Head(held)) /\ held' = Tail(held)
  /\ UNCHANGED <<server, link, conn, connect, sess, rows, noise, inbox, wait, history>>

\* A notice or a changed setting.
OtherMessage ==
  /\ link /\ setup = "open" /\ noise' = TRUE
  /\ UNCHANGED <<server, link, conn, connect, sess, rows, held, pipe, inbox, wait, history>>

\* What has been sent may still arrive.
BackendDies ==
  /\ link /\ link' = FALSE
  /\ held' = <<>> /\ (UNCHANGED arrived \/ Emptied)
  /\ UNCHANGED <<server, conn, connect, sess, rows, inbox, wait, history>>

ServerToggles ==
  /\ server' = ~server
  /\ UNCHANGED <<link, conn, connect, sess, rows, mail, wait, history>>

Connecting ==
  \/ Create \/ Guard \/ ConnectFails \/ Abandon \/ Collect
  \/ SetDatestyle \/ SetTimezone \/ TypeNames
Using == Listen \/ Begin \/ End \/ OpenResult \/ ReadRows \/ ClearResult \/ Disconnect
Waiting == WaitForNotify \/ Selected \/ Interrupted
Environment == Notify \/ Deliver \/ OtherMessage \/ BackendDies \/ ServerToggles

Next == Connecting \/ Using \/ Waiting \/ Environment

\* The user calls postgresWaitForNotify() in a loop; a timeout ends select();
\* the backend sends what it may.
Fairness == WF_vars(WaitForNotify) /\ WF_vars(Selected) /\ WF_vars(Deliver)

Spec == Init /\ [][Next]_vars /\ Fairness

-----------------------------------------------------------------------------
(* What the rest of the package relies on.                                 *)

\* The loss of the backend has been reported, or discarded where it may be.
LossIsKnown == told \/ hidden # {}

\* dbConnect() is all or nothing: when it fails, the connection is closed, and
\* the connection it returns has the ISO datestyle that the parsers of dates
\* rely on and the zone in which R reads times, for as long as no loss of the
\* backend has been reported or hidden.
ConnectIsWhole ==
  /\ setup = "failed" => conn = "finished" /\ ~link
  /\ (setup = "open" /\ conn = "ok" /\ ~LossIsKnown) =>
        sess.iso /\ (slot = sess.zone \/ (slot = Local /\ sess.zone \notin RZones))

Promise == INSTANCE Mailbox WITH box <- Parsed \o held, got <- heard, up <- link

\* wait_for_notify(), and every query that reads the socket by the way, keep
\* the promise of Mailbox.
RefinesMailbox == Promise!Spec

\* A notification sent to a listening connection is heard, if the user waits in
\* a loop (PqConnection.R:135) with neither a transaction nor a result open
\* for ever, unless the connection is closed or its loss known.
Heard ==
  [](<>(~sess.tx /\ ~rows)) =>
    \A n \in 1..MaxSent : (sent >= n) ~> (heard >= n \/ LossIsKnown \/ setup = "closed")

=============================================================================
