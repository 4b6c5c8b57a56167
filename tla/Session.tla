------------------------------- MODULE Session -------------------------------
(***************************************************************************)
(* One DbConnection and the DbResult objects created on it: who owns the   *)
(* current-result pointer, the unnamed prepared statement of the backend   *)
(* and the results still outstanding on the wire, while results are        *)
(* created, bound, fetched, released by hand or by R's garbage collector,  *)
(* and while the backend dies and the server goes away and comes back.     *)
(*                                                                         *)
(* R runs one thread.  An R call that libpq answers in one go is one       *)
(* action; the construction of a result and COPY are several, because R    *)
(* may collect garbage (and so destroy another DbResult) in the middle.    *)
(* A call that raises an error and changes nothing is a stuttering step.   *)
(***************************************************************************)
EXTENDS Integers

CONSTANTS
  Results,      \* the addresses at which DbResult objects are allocated
  None,         \* NULL: no result, no statement, nothing on the wire
  CopyIn,       \* on the wire: the server waits for COPY data
  CopyTail,     \* on the wire: a failed COPY whose end nobody has read
  MaxRows,      \* bound on the rows of one statement
  Faults        \* which of FaultKinds the environment and the user produce

FaultKinds == {
  "outage",      \* the server refuses new connections for a while
  "stale_bind",  \* dbBind() on a result that is no longer current
  "late_use",    \* dbFetch() or dbBind() after dbDisconnect()
  "busy_call",   \* COPY, large objects or notifications with a result open
  "copy_error"}  \* COPY fails in the server or while a row is encoded

ASSUME RowsAssumption == MaxRows \in Nat
ASSUME FaultsAssumption == Faults \subseteq FaultKinds
ASSUME NamesAssumption ==
  /\ {None, CopyIn, CopyTail} \cap Results = {}
  /\ None # CopyIn /\ None # CopyTail /\ CopyIn # CopyTail

Kinds == {"immediate",   \* PQsendQuery, no parameters
          "plain",       \* prepared, without parameters
          "params"}      \* prepared, executed by dbBind()

VARIABLES
  server,     \* the server accepts connections
  link,       \* the backend behind pConn_ is alive
  conn,       \* PQstatus(pConn_), or "finished" after PQfinish
  conPtr,     \* R's external pointer still owns a reference to DbConnection
  current,    \* pCurrentResult_
  heap,       \* heap[r]: no DbResult here, one being constructed, a whole one
  kind,       \* kind[r]: how the statement is sent
  ready,      \* ready[r]: PqResultImpl::ready_
  complete,   \* complete[r]: DbResult::complete(), TRUE while impl is NULL
  owed,       \* owed[r]: rows of the statement that R has not been given
  told,       \* told[r]: R has seen an error of the current execution of r
  ran,        \* ran[r]: whose statement the last execution of r ran
  stmt,       \* whose statement the backend holds as unnamed statement
  wire,       \* whose results libpq has not read to the end
  call,       \* where the R call in progress is
  thread      \* "running", "spinning" in a loop that cannot end, "undefined"

linkVars == <<server, link>>
connVars == <<conn, stmt, wire>>
resVars  == <<kind, ready, complete, owed, told, ran>>
vars == <<linkVars, connVars, resVars, conPtr, current, heap, call, thread>>

TypeOK ==
  /\ server \in BOOLEAN /\ link \in BOOLEAN /\ conPtr \in BOOLEAN
  /\ conn \in {"ok", "bad", "finished"}
  /\ current \in Results \cup {None}
  /\ heap \in [Results -> {"free", "ctor", "live"}]
  /\ kind \in [Results -> Kinds]
  /\ ready \in [Results -> BOOLEAN]
  /\ complete \in [Results -> BOOLEAN]
  /\ owed \in [Results -> 0..MaxRows]
  /\ told \in [Results -> BOOLEAN]
  /\ ran \in [Results -> Results \cup {None}]
  /\ stmt \in Results \cup {None}
  /\ wire \in Results \cup {None, CopyIn, CopyTail}
  /\ call \in {"idle", "set_current", "prepare", "execute", "copy"}
  /\ thread \in {"running", "spinning", "undefined"}

Init ==
  /\ server = TRUE /\ link = TRUE /\ conPtr = TRUE
  /\ conn = "ok"
  /\ current = None
  /\ heap = [r \in Results |-> "free"]
  /\ kind = [r \in Results |-> "plain"]
  /\ ready = [r \in Results |-> FALSE]
  /\ complete = [r \in Results |-> TRUE]
  /\ owed = [r \in Results |-> 0]
  /\ told = [r \in Results |-> FALSE]
  /\ ran = [r \in Results |-> None]
  /\ stmt = None /\ wire = None
  /\ call = "idle" /\ thread = "running"

-----------------------------------------------------------------------------
(* What the DbConnection methods do with pConn_.                           *)

\* check_connection(): a bad connection is reset; it throws when that fails.
CheckThrows == conn = "finished" \/ (conn = "bad" /\ ~server)

\* PQreset: a new backend, with no statement and nothing outstanding.
Reset ==
  /\ conn' = "ok" /\ link' = TRUE
  /\ stmt' = None /\ wire' = None

CheckConnection ==
  \/ conn = "ok" /\ UNCHANGED <<link, connVars>>
  \/ conn = "bad" /\ server /\ Reset

\* finish_query(): reads the wire to its end and learns of a dead backend.
FinishQuery ==
  /\ wire' = None
  /\ conn' = IF wire # None /\ ~link THEN "bad" ELSE conn
  /\ UNCHANGED <<link, stmt>>

\* Mutant of ResetCurrent: the pointer is left in place.
KeepCurrent == UNCHANGED current

\* reset_current_result() after the clean-up.
ResetCurrent == current' = None

\* While libpq is in COPY_IN, PQgetResult returns a result every time.
FinishSpins == wire = CopyIn /\ conn = "ok"

\* Mutant of CleanupThrows: cancel_query() without check_connection().
CleanupThrowsWhenBad == conn = "bad" /\ ~complete[current]

\* cleanup_query(): cancel_query() runs only for an incomplete result, and it
\* is cancel_query() that calls check_connection().
CleanupThrows == conn # "finished" /\ ~complete[current] /\ CheckThrows
CleanupSpins == FinishSpins
\* Mutant of CleanupQuery: a complete result needs no clean-up.
CleanupIncomplete ==
  \/ conn = "finished" /\ UNCHANGED <<link, connVars>>
  \/ conn # "finished" /\ complete[current] /\ UNCHANGED <<link, connVars>>
  \/ conn = "bad" /\ ~complete[current] /\ server /\ Reset
  \/ conn = "ok" /\ ~complete[current] /\ FinishQuery

CleanupQuery ==
  \/ conn = "finished" /\ UNCHANGED <<link, connVars>>
  \/ conn = "bad" /\ ~complete[current] /\ server /\ Reset
  \/ /\ conn = "ok" \/ (conn = "bad" /\ complete[current])
     /\ ~FinishSpins
     /\ FinishQuery

\* The synchronous libpq calls (PQexec, PQprepare) first discard what is on
\* the wire and end a COPY; a dead backend makes them fail.
SyncFails == ~link \/ conn # "ok"
SyncLost == conn' = "bad" /\ wire' = None /\ UNCHANGED stmt
SyncCall == IF SyncFails THEN SyncLost
            ELSE stmt' = None /\ wire' = None /\ UNCHANGED conn

-----------------------------------------------------------------------------
(* The environment.                                                        *)

BackendDies ==
  /\ link /\ conn # "finished"
  /\ link' = FALSE
  /\ UNCHANGED <<server, connVars, resVars, conPtr, current, heap, call, thread>>

ServerGoes ==
  /\ "outage" \in Faults /\ server /\ conn # "finished"
  /\ server' = FALSE /\ link' = FALSE
  /\ UNCHANGED <<connVars, resVars, conPtr, current, heap, call, thread>>

ServerReturns ==
  /\ ~server
  /\ server' = TRUE
  /\ UNCHANGED <<link, connVars, resVars, conPtr, current, heap, call, thread>>

-----------------------------------------------------------------------------
(* dbSendQuery(): result_create() and the constructors it runs.            *)

\* result_create() and DbResult::DbResult() up to set_current_result(); the
\* memory may be that of an earlier result.
BeginCreate(r, k) ==
  /\ thread = "running" /\ call = "idle" /\ conPtr
  /\ heap[r] = "free"
  /\ CheckConnection
  /\ heap' = [heap EXCEPT ![r] = "ctor"]
  /\ kind' = [kind EXCEPT ![r] = k]
  /\ ready' = [ready EXCEPT ![r] = FALSE]
  /\ complete' = [complete EXCEPT ![r] = TRUE]
  /\ owed' = [owed EXCEPT ![r] = 0]
  /\ told' = [told EXCEPT ![r] = FALSE]
  /\ ran' = [ran EXCEPT ![r] = None]
  /\ call' = "set_current"
  /\ UNCHANGED <<server, conPtr, current, thread>>

\* set_current_result(): clean up after the previous result, then take over.
SetCurrentResult(r) ==
  /\ thread = "running" /\ call = "set_current" /\ heap[r] = "ctor"
  /\ \/ current \in {None, r} /\ UNCHANGED <<link, connVars>>
     \/ current \notin {None, r} /\ heap[current] = "live" /\ CleanupQuery
  /\ current' = r
  /\ call' = IF kind[r] = "immediate" THEN "execute" ELSE "prepare"
  /\ UNCHANGED <<server, resVars, conPtr, heap, thread>>

SetCurrentSpins(r) ==
  /\ thread = "running" /\ call = "set_current" /\ heap[r] = "ctor"
  /\ current \notin {None, r} /\ heap[current] = "live" /\ CleanupSpins
  /\ thread' = "spinning"
  /\ UNCHANGED <<linkVars, connVars, resVars, conPtr, current, heap, call>>

\* pCurrentResult_->complete() on an object that is gone.
SetCurrentDangles(r) ==
  /\ thread = "running" /\ call = "set_current" /\ heap[r] = "ctor"
  /\ current \notin {None, r} /\ heap[current] = "free"
  /\ thread' = "undefined"
  /\ UNCHANGED <<linkVars, connVars, resVars, conPtr, current, heap, call>>

\* Mutant of PrepareUnnamed: an existing statement is not replaced.
PrepareOnce(r) == stmt' = (IF stmt = None THEN r ELSE stmt) /\ wire' = None

\* PQprepare("") replaces the unnamed statement, after discarding the wire.
PrepareUnnamed(r) == stmt' = r /\ wire' = None

\* prepare(): PQprepare and PQdescribePrepared.  A statement with parameters
\* is done here; one without goes on to bind() in the same constructor.
Prepare(r) ==
  /\ thread = "running" /\ call = "prepare" /\ heap[r] = "ctor"
  /\ ~SyncFails
  /\ PrepareUnnamed(r)
  /\ \/ /\ kind[r] = "plain"
        /\ call' = "execute"
        /\ UNCHANGED <<heap, complete>>
     \/ /\ kind[r] = "params"
        /\ call' = "idle"
        /\ heap' = [heap EXCEPT ![r] = "live"]
        /\ complete' = [complete EXCEPT ![r] = FALSE]
  /\ UNCHANGED <<linkVars, conn, conPtr, current, thread,
                 kind, ready, owed, told, ran>>

\* bind_row(), after_bind() and the first step(): the statement is sent and
\* its first row is read ahead.  A statement that returns rows is read to its
\* end with its last row; an immediate one always is; the ReadyForQuery after
\* any other command stays on the wire.
StartStatement(r) ==
  \E rows \in 0..MaxRows, query \in BOOLEAN :
    /\ rows > 0 => query
    /\ ready' = [ready EXCEPT ![r] = TRUE]
    /\ complete' = [complete EXCEPT ![r] = (rows = 0)]
    /\ owed' = [owed EXCEPT ![r] = rows]
    /\ told' = [told EXCEPT ![r] = FALSE]
    /\ ran' = [ran EXCEPT ![r] = IF kind[r] = "immediate" THEN r ELSE stmt]
    /\ stmt' = IF kind[r] = "immediate" THEN None ELSE stmt
    /\ wire' = IF rows > 0 \/ (~query /\ kind[r] # "immediate") THEN r ELSE None

\* PQsendQuery is refused while the wire is not idle.
Execute(r) ==
  /\ thread = "running" /\ call = "execute" /\ heap[r] = "ctor"
  /\ conn = "ok" /\ link /\ wire = None
  /\ StartStatement(r)
  /\ heap' = [heap EXCEPT ![r] = "live"]
  /\ call' = "idle"
  /\ UNCHANGED <<linkVars, conn, conPtr, current, thread, kind>>

\* An error or an interrupt in the constructor: ~DbResult finds itself
\* current and, its impl being NULL, finishes the query without cancelling.
ConstructorFails(r) ==
  /\ thread = "running" /\ call \in {"prepare", "execute"} /\ heap[r] = "ctor"
  /\ call = "execute" => ~FinishSpins
  /\ wire' = None
  /\ conn' = IF ~link THEN "bad" ELSE conn
  /\ stmt' = IF call = "execute" /\ (kind[r] = "plain" \/ wire # None)
               THEN stmt ELSE None
  /\ ResetCurrent
  /\ heap' = [heap EXCEPT ![r] = "free"]
  /\ call' = "idle"
  /\ UNCHANGED <<linkVars, resVars, conPtr, thread>>

ConstructorSpins(r) ==
  /\ thread = "running" /\ call = "execute" /\ heap[r] = "ctor"
  /\ FinishSpins
  /\ thread' = "spinning"
  /\ UNCHANGED <<linkVars, connVars, resVars, conPtr, current, heap, call>>

-----------------------------------------------------------------------------
(* dbClearResult(), or the finalizer of an unreachable result, which runs  *)
(* whenever R allocates, in the middle of another call too: ~DbResult.     *)

\* Mutant of LastOwner: a cycle of references keeps the DbConnection alive.
LastOwnerNever(r) == heap[r] = "free"

\* The last owner of the DbConnection runs ~DbConnection, which PQfinishes.
LastOwner(r) == ~conPtr /\ \A q \in Results \ {r} : heap[q] \notin {"ctor", "live"}
Finish == conn' = "finished" /\ stmt' = None /\ wire' = None /\ UNCHANGED link

ReleaseInactive(r) ==
  /\ thread = "running" /\ heap[r] = "live"
  /\ current # r
  /\ IF LastOwner(r) THEN Finish ELSE UNCHANGED <<link, connVars>>
  /\ heap' = [heap EXCEPT ![r] = "free"]
  /\ UNCHANGED <<server, resVars, conPtr, current, call, thread>>

\* reset_current_result() returned.
ReleaseActive(r) ==
  /\ thread = "running" /\ heap[r] = "live"
  /\ current = r /\ ~CleanupThrows
  /\ IF LastOwner(r) THEN ~CleanupSpins /\ Finish ELSE CleanupQuery
  /\ ResetCurrent
  /\ heap' = [heap EXCEPT ![r] = "free"]
  /\ UNCHANGED <<server, resVars, conPtr, call, thread>>

\* reset_current_result() threw and ~DbResult swallowed it.
ReleaseSwallows(r) ==
  /\ thread = "running" /\ heap[r] = "live"
  /\ current = r /\ CleanupThrows
  /\ IF LastOwner(r) THEN Finish ELSE UNCHANGED <<link, connVars>>
  /\ heap' = [heap EXCEPT ![r] = "free"]
  /\ UNCHANGED <<server, resVars, conPtr, current, call, thread>>

ReleaseSpins(r) ==
  /\ thread = "running" /\ heap[r] = "live"
  /\ current = r /\ CleanupSpins
  /\ thread' = "spinning"
  /\ UNCHANGED <<linkVars, connVars, resVars, conPtr, current, heap, call>>

-----------------------------------------------------------------------------
(* dbFetch(), one row at a time: the row read ahead is handed over and the *)
(* next one is read.  DbResult::fetch() stops for a result that is not     *)
(* current, PqResultImpl::fetch() for one that is not bound.               *)

\* Mutant of Fetching: DbResult::fetch() without is_active().
FetchingAnyResult(r) ==
  /\ thread = "running" /\ call = "idle" /\ heap[r] = "live"
  /\ ready[r] /\ ~complete[r]

Fetching(r) ==
  /\ thread = "running" /\ call = "idle" /\ heap[r] = "live"
  /\ current = r /\ ready[r] /\ ~complete[r]

\* Mutant of HandOver: the phantom row after an error is counted too.
HandOverAlways(r) == owed' = [owed EXCEPT ![r] = @ - 1]

HandOver(r) == owed' = [owed EXCEPT ![r] = IF @ > 0 THEN @ - 1 ELSE 0]

FetchRow(r) ==
  /\ Fetching(r) /\ conn # "finished"
  /\ wire = r /\ ~told[r] /\ owed[r] > 1
  /\ HandOver(r)
  /\ UNCHANGED <<linkVars, connVars, conPtr, current, heap, call, thread,
                 kind, ready, complete, told, ran>>

\* Mutant of AtEnd: PGRES_FATAL_ERROR is taken for the end of the rows.
AtEndOnError(r) == wire \in {r, None, CopyTail}

\* PQgetResult returns NULL next: the statement has no more rows, it failed
\* before, or another call has drained the wire.
AtEnd(r) ==
  \/ wire = r /\ (told[r] \/ owed[r] = 1)
  \/ wire \in {None, CopyTail}

FetchToEnd(r) ==
  /\ Fetching(r) /\ conn # "finished" /\ AtEnd(r)
  /\ HandOver(r)
  /\ complete' = [complete EXCEPT ![r] = TRUE]
  /\ wire' = None
  /\ UNCHANGED <<linkVars, conn, stmt, conPtr, current, heap, call, thread,
                 kind, ready, told, ran>>

\* PGRES_FATAL_ERROR: complete_ stays FALSE, and what follows the error stays
\* on the wire unless the backend is gone.
FetchFails(r) ==
  /\ Fetching(r) /\ conn # "finished"
  /\ wire = r /\ ~told[r]
  /\ told' = [told EXCEPT ![r] = TRUE]
  /\ \/ link /\ UNCHANGED <<conn, wire>>
     \/ ~link /\ conn' = "bad" /\ wire' = None
  /\ UNCHANGED <<linkVars, stmt, conPtr, current, heap, call, thread,
                 kind, ready, complete, owed, ran>>

\* PGRES_COPY_IN left by a failed COPY: bind_row() ends a prepared statement,
\* and keeps an immediate one asking for more.
FetchFindsCopy(r) ==
  /\ Fetching(r) /\ wire = CopyIn /\ conn = "ok"
  /\ \/ /\ kind[r] = "immediate"
        /\ thread' = "spinning"
        /\ UNCHANGED <<owed, complete>>
     \/ /\ kind[r] # "immediate"
        /\ HandOver(r)
        /\ complete' = [complete EXCEPT ![r] = TRUE]
        /\ UNCHANGED thread
  /\ UNCHANGED <<linkVars, connVars, conPtr, current, heap, call,
                 kind, ready, told, ran>>

\* The rows of an execution that another result has started.
FetchForeign(r) ==
  /\ Fetching(r) /\ wire \in Results \ {r}
  /\ HandOver(r)
  /\ ran' = [ran EXCEPT ![r] = ran[wire]]
  /\ UNCHANGED <<linkVars, connVars, conPtr, current, heap, call, thread,
                 kind, ready, complete, told>>

\* step_run() on a PGconn that dbDisconnect() has freed.
FetchLate(r) ==
  /\ "late_use" \in Faults
  /\ Fetching(r) /\ conn = "finished"
  /\ thread' = "undefined"
  /\ UNCHANGED <<linkVars, connVars, resVars, conPtr, current, heap, call>>

-----------------------------------------------------------------------------
(* dbBind(): DbResult::bind() does not ask whether the result is current.  *)

Binding(r) ==
  /\ thread = "running" /\ call = "idle" /\ heap[r] = "live"
  /\ kind[r] = "params"
  /\ current = r \/ "stale_bind" \in Faults

\* bind_row() finishes the previous execution of this result only.
Sendable(r) == conn = "ok" /\ IF ready[r] THEN ~FinishSpins ELSE wire = None

Bind(r) ==
  /\ Binding(r) /\ Sendable(r) /\ link /\ stmt # None
  /\ StartStatement(r)
  /\ UNCHANGED <<linkVars, conn, conPtr, current, heap, call, thread, kind>>

\* The send is refused, or the server has no unnamed statement, or it reports
\* an error, or the user interrupts (cancel_query(), complete_ = TRUE).
BindFails(r) ==
  /\ Binding(r) /\ conn # "finished"
  /\ told' = [told EXCEPT ![r] = TRUE]
  /\ \/ /\ ~Sendable(r) /\ ~(ready[r] /\ FinishSpins)
        /\ wire' = IF ready[r] THEN None ELSE wire
        /\ UNCHANGED <<conn, ready, complete, owed>>
     \/ /\ Sendable(r) /\ link
        /\ ready' = [ready EXCEPT ![r] = TRUE]
        /\ \E interrupt \in BOOLEAN : complete' = [complete EXCEPT ![r] = interrupt]
        /\ owed' = [owed EXCEPT ![r] = 0]
        /\ wire' = r
        /\ UNCHANGED conn
     \/ /\ Sendable(r) /\ ~link
        /\ ready' = [ready EXCEPT ![r] = TRUE]
        /\ complete' = [complete EXCEPT ![r] = FALSE]
        /\ owed' = [owed EXCEPT ![r] = 0]
        /\ conn' = "bad" /\ wire' = None
  /\ UNCHANGED <<linkVars, stmt, conPtr, current, heap, call, thread, kind, ran>>

BindSpins(r) ==
  /\ Binding(r) /\ ready[r] /\ FinishSpins
  /\ thread' = "spinning"
  /\ UNCHANGED <<linkVars, connVars, resVars, conPtr, current, heap, call>>

BindLate(r) ==
  /\ "late_use" \in Faults
  /\ Binding(r) /\ conn = "finished"
  /\ thread' = "undefined"
  /\ UNCHANGED <<linkVars, connVars, resVars, conPtr, current, heap, call>>

\* Parameters of length zero: groups_ is 0, nothing is sent or drained.
BindNothing(r) ==
  /\ Binding(r)
  /\ ready' = [ready EXCEPT ![r] = TRUE]
  /\ complete' = [complete EXCEPT ![r] = TRUE]
  /\ owed' = [owed EXCEPT ![r] = 0]
  /\ told' = [told EXCEPT ![r] = FALSE]
  /\ UNCHANGED <<linkVars, connVars, conPtr, current, heap, call, thread, kind, ran>>

-----------------------------------------------------------------------------
(* Calls that use the connection without a DbResult.                       *)

MayCall ==
  /\ thread = "running" /\ call = "idle" /\ conPtr
  /\ "busy_call" \in Faults \/ current = None

\* copy_data() up to PGRES_COPY_IN.
CopyBegin ==
  /\ MayCall /\ ~SyncFails
  /\ stmt' = None /\ wire' = CopyIn
  /\ call' = "copy"
  /\ UNCHANGED <<linkVars, conn, resVars, conPtr, current, heap, thread>>

\* "Failed to initialise COPY".
CopyRefused ==
  /\ MayCall /\ SyncCall
  /\ UNCHANGED <<linkVars, resVars, conPtr, current, heap, call, thread>>

\* Mutant of EndCopy: PQputCopyEnd() is forgotten.
EndCopyForgotten == UNCHANGED wire

\* PQputCopyEnd, PGRES_COMMAND_OK and finish_query().
EndCopy == wire' = None

CopyDone ==
  /\ thread = "running" /\ call = "copy" /\ link /\ wire = CopyIn
  /\ EndCopy
  /\ call' = "idle"
  /\ UNCHANGED <<linkVars, conn, stmt, resVars, conPtr, current, heap, thread>>

\* "Failed to put data", "Failed to finish COPY".
CopyLost ==
  /\ thread = "running" /\ call = "copy" /\ ~link
  /\ conn' = "bad" /\ wire' = None
  /\ call' = "idle"
  /\ UNCHANGED <<linkVars, stmt, resVars, conPtr, current, heap, thread>>

\* "COPY returned error" leaves the end of the COPY unread; an error from
\* encode_row_in_buffer() does not even end it.
CopyFails ==
  /\ "copy_error" \in Faults
  /\ thread = "running" /\ call = "copy" /\ link /\ wire = CopyIn
  /\ wire' \in {CopyTail, CopyIn}
  /\ call' = "idle"
  /\ UNCHANGED <<linkVars, conn, stmt, resVars, conPtr, current, heap, thread>>

\* lo_import and lo_export: the first one on a connection runs PQexec, later
\* ones are refused unless the wire is idle (an error, and no change).
LargeObject ==
  /\ MayCall /\ SyncCall
  /\ UNCHANGED <<linkVars, resVars, conPtr, current, heap, call, thread>>

\* wait_for_notify(): PQconsumeInput notices that the backend is gone.
WaitForNotify ==
  /\ MayCall /\ conn = "ok" /\ ~link
  /\ conn' = "bad"
  /\ UNCHANGED <<linkVars, stmt, wire, resVars, conPtr, current, heap, call, thread>>

\* dbGetInfo(), dbQuoteString(), dbQuoteIdentifier(): check_connection().
CheckCall ==
  /\ thread = "running" /\ call = "idle" /\ conPtr
  /\ conn = "bad" /\ server /\ Reset
  /\ UNCHANGED <<server, resVars, conPtr, current, heap, call, thread>>

\* connection_release(): a warning when has_query(), and PQfinish at once.
Disconnect ==
  /\ thread = "running" /\ call = "idle" /\ conPtr
  /\ Finish
  /\ conPtr' = FALSE
  /\ UNCHANGED <<server, resVars, current, heap, call, thread>>

\* The finalizer of an unreachable connection drops its reference.
CollectConnection ==
  /\ thread = "running" /\ call = "idle" /\ conPtr
  /\ conPtr' = FALSE
  /\ IF \E r \in Results : heap[r] \in {"ctor", "live"}
       THEN UNCHANGED <<link, connVars>> ELSE Finish
  /\ UNCHANGED <<server, resVars, current, heap, call, thread>>

-----------------------------------------------------------------------------
Constructor(r) ==
  \/ SetCurrentResult(r) \/ SetCurrentSpins(r) \/ SetCurrentDangles(r)
  \/ Prepare(r) \/ Execute(r) \/ ConstructorFails(r) \/ ConstructorSpins(r)

Release(r) ==
  \/ ReleaseInactive(r) \/ ReleaseActive(r)
  \/ ReleaseSwallows(r) \/ ReleaseSpins(r)

Fetch(r) ==
  \/ FetchRow(r) \/ FetchToEnd(r) \/ FetchFails(r)
  \/ FetchFindsCopy(r) \/ FetchForeign(r) \/ FetchLate(r)

BindCall(r) ==
  \/ Bind(r) \/ BindFails(r) \/ BindSpins(r) \/ BindLate(r) \/ BindNothing(r)

Copy == CopyBegin \/ CopyRefused \/ CopyDone \/ CopyLost \/ CopyFails

Connection ==
  \/ Copy \/ LargeObject \/ WaitForNotify \/ CheckCall
  \/ Disconnect \/ CollectConnection

Environment == BackendDies \/ ServerGoes \/ ServerReturns

Next ==
  \/ \E r \in Results, k \in Kinds : BeginCreate(r, k)
  \/ \E r \in Results : Constructor(r) \/ Release(r) \/ Fetch(r) \/ BindCall(r)
  \/ Connection
  \/ Environment

Spec == Init /\ [][Next]_vars

\* R's thread never stops in the middle of a call; the user, the garbage
\* collector and the server owe nothing.
Fairness ==
  /\ WF_vars(\E r \in Results : Constructor(r))
  /\ WF_vars(CopyDone \/ CopyLost \/ CopyFails)

FairSpec == Spec /\ Fairness

-----------------------------------------------------------------------------
(* What makes a session correct.                                           *)

\* pCurrentResult_ never points to a DbResult that has been destroyed: the
\* next dbSendQuery() and every dbIsValid() dereference or compare it
\* ("the destructor will remove the current result set", DbResult.cpp:11).
CurrentIsAllocated == current # None => heap[current] # "free"

\* All prepared results share the one unnamed statement of the backend.  As
\* long as it exists it is the statement of the current prepared result, so
\* that binding the current result executes the SQL it was created with.
ActiveOwnsStatement ==
  (stmt # None /\ current # None /\ call = "idle" /\ kind[current] # "immediate")
    => stmt = current

\* No result has ever handed out, or executed, another result's statement.
RunsOwnStatement == \A r \in Results : ran[r] \in {None, r}

\* Rows waiting on the wire are those of the current result: whatever the
\* order of releases, rebinds and failures, nobody can read foreign rows
\* ("only ever one active result set", PqResult.h:33).
WireBelongsToCurrent == wire \in Results => wire = current

\* A result that says it is complete, and whose user saw no error, has handed
\* over every row ("If less than zero returns all rows", dbFetch_PqResult.R:3).
NoSilentTruncation ==
  \A r \in Results :
    heap[r] = "live" /\ ready[r] /\ complete[r] /\ ~told[r] => owed[r] = 0

\* When the constructor of a result sends its statement, libpq is idle: the
\* statement is never refused with "another command is already in progress".
SendFindsIdleWire == call = "execute" => wire = None

\* finish_query() always ends: libpq is never asked to finish a COPY that
\* nobody will end.
NeverSpins == thread # "spinning"

\* No call works on a destroyed DbResult or on a PGconn that has been freed.
NeverDangles == thread # "undefined"

\* The PGconn is finished when its last owner goes: R's handle or, if that
\* was collected first, the last result of the connection.
ConnectionIsReleased ==
  (~conPtr /\ \A r \in Results : heap[r] \notin {"ctor", "live"})
    => conn = "finished"

\* A result that has been replaced stays replaced: it neither becomes current
\* again, nor hands out a row, nor executes anything.
InactiveIsFinal ==
  [][\A r \in Results :
       heap[r] = "live" /\ current # r =>
         current' # r /\ owed'[r] = owed[r] /\ ran'[r] = ran[r]]_vars

\* Every call returns to R, whatever the server does in the meantime, unless
\* it works on a destroyed object.
CallsReturn == (call # "idle") ~> (call = "idle" \/ thread = "undefined")

=============================================================================
