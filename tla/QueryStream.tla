----------------------------- MODULE QueryStream -----------------------------
(***************************************************************************)
(* PqResultImpl: one statement after another is sent to the server, and    *)
(* the results come back in single-row mode, one PGresult per row, with    *)
(* one row always read ahead.  The module has the client's step machine    *)
(* (bind_row, step_run, step_done, fetch_rows), the server that executes   *)
(* the statements at its own pace, and the messages between the two.       *)
(*                                                                         *)
(* The connection itself does not break here (Session has that).  A call   *)
(* that raises an error and changes nothing is a stuttering step.          *)
(***************************************************************************)
EXTENDS Integers, Sequences

CONSTANTS
  Queries,      \* what dbSendQuery() is called with, see QueriesAssumption
  Cols,         \* column lists: names and types
  NoCols,       \* the empty one, of a statement that returns no rows
  MaxRows,      \* bound on the rows, or affected rows, of a statement
  Groups,       \* the lengths of the parameter vectors given to dbBind()
  Window,       \* bound on the messages the server is ahead of the client
  CheckEvery,   \* rows between two checks for interrupts (1024 in the code)
  CheckInterrupts,  \* dbConnect(check_interrupts = )
  FetchAfterError   \* the user goes on fetching from a result that failed

ASSUME BoundsAssumption ==
  /\ MaxRows \in Nat /\ Window \in Nat \ {0} /\ CheckEvery \in Nat \ {0}
  /\ Groups \subseteq Nat
  /\ CheckInterrupts \in BOOLEAN /\ FetchAfterError \in BOOLEAN

\* stmts has the columns of each statement; only an immediate query can have
\* several statements, only a prepared one can have parameters.
ASSUME QueriesAssumption ==
  \A q \in Queries :
    /\ q.immediate \in BOOLEAN /\ q.params \in BOOLEAN
    /\ q.stmts \in Seq(Cols \cup {NoCols}) /\ q.stmts # <<>>
    /\ ~q.immediate => Len(q.stmts) = 1
    /\ q.immediate => ~q.params

ASSUME ColsAssumption == NoCols \notin Cols

NoRow == [row |-> 0, cols |-> NoCols]   \* pRes_ is NULL or holds no row

VARIABLES
  query,       \* the sql_ and immediate_ of this result
  pc,          \* where the client is; "R" between calls, "gone" without result
  caller,      \* the call that runs step(): "ctor", "bind" or "fetch"
  ready,       \* ready_
  complete,    \* complete_
  dataReady,   \* data_ready_
  group,       \* group_: parameter rows executed
  groups,      \* groups_: parameter rows bound
  nrows,       \* nrows_
  affected,    \* rows_affected_
  res,         \* pRes_: the row read ahead
  cols,        \* cache.names_, cache.oids_
  limit,       \* n_max of the dbFetch() in progress
  frameCols,   \* the columns its data frame was created with
  frame,       \* the rows gathered in it
  todo,        \* server: statements of the current command still to finish
  serving,     \* server: a command is being executed
  sent,        \* server: rows sent for the first statement of todo
  cancelled,   \* server: PQcancel() has reached it during this command
  inbox,       \* messages the client has not read
  rowsOut,     \* history: rows R was given since the last dbBind()
  told,        \* history: R has seen an error since then
  sends,       \* history: commands sent since then
  produced,    \* history: rows the server has produced for these commands
  counted,     \* history: rows these commands have affected
  broken       \* history: one of these commands has failed in the server

cacheVars  == <<query, cols>>
bindVars   == <<group, groups, affected>>
flagVars   == <<ready, complete, dataReady>>
fetchVars  == <<limit, frameCols, frame, nrows>>
serverVars == <<todo, serving, sent, cancelled>>
pastVars   == <<rowsOut, told, sends, produced, counted, broken>>
vars == <<cacheVars, pc, caller, bindVars, flagVars, res, fetchVars,
          serverVars, inbox, pastVars>>

AnyCols == Cols \cup {NoCols}

Message(kind, row, c, n) == [kind |-> kind, row |-> row, cols |-> c, count |-> n]

MsgKinds == {"row",         \* PGRES_SINGLE_TUPLE
             "tuples_ok",   \* PGRES_TUPLES_OK, the end of the rows
             "command_ok",  \* PGRES_COMMAND_OK
             "error",       \* PGRES_FATAL_ERROR
             "ready"}       \* ReadyForQuery: PQgetResult returns NULL

TypeOK ==
  /\ query \in Queries
  /\ pc \in {"gone", "R", "drain", "unwind", "closing", "send", "step", "fetch", "advance"}
  /\ caller \in {"ctor", "bind", "fetch"}
  /\ ready \in BOOLEAN /\ complete \in BOOLEAN /\ dataReady \in BOOLEAN
  /\ group \in Nat /\ groups \in Nat /\ (query.params => group <= groups)
  /\ nrows \in Nat /\ affected \in Nat
  /\ res \in [row : Nat, cols : AnyCols] /\ cols \in AnyCols
  /\ limit \in Int /\ frameCols \in AnyCols /\ frame \in Seq(Nat)
  /\ todo \in Seq(AnyCols) /\ serving \in BOOLEAN /\ sent \in 0..MaxRows
  /\ cancelled \in BOOLEAN
  /\ inbox \in Seq([kind : MsgKinds, row : Nat, cols : AnyCols, count : Nat])
  /\ rowsOut \in Seq(Nat) /\ told \in BOOLEAN
  /\ sends \in Nat /\ produced \in Nat /\ counted \in Nat /\ broken \in BOOLEAN

Init ==
  /\ query \in Queries
  /\ pc = "gone" /\ caller = "ctor"
  /\ ready = FALSE /\ complete = FALSE /\ dataReady = FALSE
  /\ group = 0 /\ groups = 0 /\ nrows = 0 /\ affected = 0
  /\ res = NoRow /\ cols = NoCols
  /\ limit = 0 /\ frameCols = NoCols /\ frame = <<>>
  /\ todo = <<>> /\ serving = FALSE /\ sent = 0 /\ cancelled = FALSE
  /\ inbox = <<>>
  /\ rowsOut = <<>> /\ told = FALSE
  /\ sends = 0 /\ produced = 0 /\ counted = 0 /\ broken = FALSE

-----------------------------------------------------------------------------
(* The server.  What it does for the commands of an earlier dbBind() does  *)
(* not enter the history: such a row has number 0.                         *)

Counts == sends > 0

SendRow ==
  /\ todo # <<>> /\ Head(todo) # NoCols
  /\ sent < MaxRows /\ Len(inbox) < Window
  /\ sent' = sent + 1
  /\ produced' = IF Counts THEN produced + 1 ELSE produced
  /\ inbox' = Append(inbox, Message("row", produced', Head(todo), 0))
  /\ UNCHANGED <<cacheVars, pc, caller, bindVars, flagVars, res, fetchVars,
                 todo, serving, cancelled, rowsOut, told, sends, counted, broken>>

\* The command tag has the number of rows: PQcmdTuples.
FinishStatement ==
  /\ todo # <<>> /\ Len(inbox) < Window
  /\ \/ /\ Head(todo) # NoCols
        /\ inbox' = Append(inbox, Message("tuples_ok", 0, Head(todo), sent))
        /\ UNCHANGED counted
     \/ /\ Head(todo) = NoCols
        /\ \E n \in 0..MaxRows :
             /\ inbox' = Append(inbox, Message("command_ok", 0, NoCols, n))
             /\ counted' = IF Counts THEN counted + n ELSE counted
  /\ todo' = Tail(todo) /\ sent' = 0
  /\ UNCHANGED <<cacheVars, pc, caller, bindVars, flagVars, res, fetchVars,
                 serving, cancelled, rowsOut, told, sends, produced, broken>>

\* A statement fails, by itself or because it was cancelled: the rest of the
\* command is skipped.
FailStatement ==
  /\ todo # <<>> /\ Len(inbox) < Window
  /\ inbox' = Append(inbox, Message("error", 0, NoCols, 0))
  /\ todo' = <<>> /\ sent' = 0
  /\ broken' = (broken \/ Counts)
  /\ UNCHANGED <<cacheVars, pc, caller, bindVars, flagVars, res, fetchVars,
                 serving, cancelled, rowsOut, told, sends, produced, counted>>

EndCommand ==
  /\ serving /\ todo = <<>> /\ Len(inbox) < Window
  /\ inbox' = Append(inbox, Message("ready", 0, NoCols, 0))
  /\ serving' = FALSE /\ cancelled' = FALSE
  /\ UNCHANGED <<cacheVars, pc, caller, bindVars, flagVars, res, fetchVars,
                 todo, sent, pastVars>>

Server == SendRow \/ FinishStatement \/ FailStatement \/ EndCommand

-----------------------------------------------------------------------------
(* Sending: the constructor, dbBind(), bind_row().                         *)

\* The history starts again.
Forget ==
  /\ rowsOut' = <<>> /\ told' = FALSE
  /\ sends' = 0 /\ produced' = 0 /\ counted' = 0 /\ broken' = FALSE

\* PQgetResult would return NULL at once.
WireIdle == inbox = <<>> /\ ~serving

\* PqResultImpl::PqResultImpl.  prepare() has described a prepared statement;
\* an immediate one shows its columns with its first row.
Create(q) ==
  /\ pc = "gone"
  /\ query' = q
  /\ cols' = IF q.immediate THEN NoCols ELSE Head(q.stmts)
  /\ caller' = "ctor"
  /\ pc' = IF q.params THEN "R" ELSE "send"
  /\ ready' = FALSE /\ complete' = FALSE /\ dataReady' = FALSE
  /\ group' = 0 /\ groups' = (IF q.params THEN 0 ELSE 1) /\ affected' = 0
  /\ nrows' = 0 /\ res' = NoRow
  /\ Forget
  /\ UNCHANGED <<limit, frameCols, frame, serverVars, inbox>>

\* bind_row() calls finish_query() unless nothing has been sent yet.
DrainFirst == ready

\* bind() with at least one parameter row.
Bind(n) ==
  /\ pc = "R" /\ query.params /\ n > 0
  /\ groups' = n /\ group' = 0 /\ affected' = 0
  /\ caller' = "bind"
  /\ pc' = IF DrainFirst THEN "drain" ELSE "send"
  /\ Forget
  /\ UNCHANGED <<cacheVars, flagVars, res, fetchVars, serverVars, inbox>>

\* Parameters of length zero: bind_row() returns FALSE before it drains.
BindNothing ==
  /\ pc = "R" /\ query.params /\ 0 \in Groups
  /\ groups' = 0 /\ group' = 0 /\ affected' = 0
  /\ ready' = TRUE /\ nrows' = 0 /\ complete' = TRUE
  /\ Forget
  /\ UNCHANGED <<cacheVars, pc, caller, dataReady, res, limit, frameCols, frame,
                 serverVars, inbox>>

\* Mutant of AfterDrain: finish_query() does not stop at NULL.
DrainForEver == pc

\* finish_query(): PQgetResult until it returns NULL.
AfterDrain == IF pc = "drain" THEN "send" ELSE "gone"

Drain ==
  /\ pc \in {"drain", "unwind", "closing"}
  /\ \/ WireIdle /\ pc' = AfterDrain /\ UNCHANGED inbox
     \/ /\ inbox # <<>>
        /\ inbox' = Tail(inbox)
        /\ pc' = IF Head(inbox).kind = "ready" THEN AfterDrain ELSE pc
  /\ UNCHANGED <<cacheVars, caller, bindVars, flagVars, res, fetchVars,
                 serverVars, pastVars>>

\* init()
InitResult == ready' = TRUE /\ nrows' = 0 /\ complete' = FALSE

\* PQsendQuery or PQsendQueryPrepared, PQsetSingleRowMode; the first one of an
\* execution goes on to after_bind(), init() and the first step().
Send ==
  /\ pc = "send" /\ WireIdle
  /\ todo' = query.stmts /\ serving' = TRUE /\ sent' = 0 /\ cancelled' = FALSE
  /\ dataReady' = FALSE
  /\ pc' = "step"
  /\ IF group = 0 THEN InitResult ELSE UNCHANGED <<ready, nrows, complete>>
  /\ sends' = sends + 1
  /\ UNCHANGED <<cacheVars, caller, bindVars, res, limit, frameCols, frame, inbox,
                 rowsOut, told, produced, counted, broken>>

-----------------------------------------------------------------------------
(* step_run(): read one PGresult.                                          *)

\* step() returns: to R from bind(), to fetch_rows() from dbFetch().
Return == IF caller = "fetch" THEN "advance" ELSE "R"

\* Mutant of Raise: the error is reported as a warning only.
RaiseQuietly ==
  /\ told' = FALSE
  /\ pc' = IF caller = "ctor" THEN "unwind" ELSE "R"
  /\ frame' = <<>>

\* An exception: ~DbResult cleans up behind a constructor without cancelling,
\* because impl is still NULL; a data frame under construction is lost.
Raise ==
  /\ told' = TRUE
  /\ pc' = IF caller = "ctor" THEN "unwind" ELSE "R"
  /\ frame' = <<>>

\* cache.set(): an empty column list never conflicts and is never cached.
CacheConflict(c) == cols # NoCols /\ c # NoCols /\ c # cols

\* The first message after a send is checked against the cache, unless it is
\* PGRES_TUPLES_OK or an error.
Checked == ~dataReady

StepRow ==
  /\ pc = "step" /\ inbox # <<>> /\ Head(inbox).kind = "row"
  /\ inbox' = Tail(inbox)
  /\ dataReady' = TRUE
  /\ res' = [row |-> Head(inbox).row, cols |-> Head(inbox).cols]
  /\ IF Checked /\ CacheConflict(Head(inbox).cols)
       THEN Raise /\ UNCHANGED cols
       ELSE /\ pc' = Return
            /\ cols' = IF Checked THEN Head(inbox).cols ELSE cols
            /\ UNCHANGED <<told, frame>>
  /\ UNCHANGED <<query, caller, bindVars, ready, complete, limit, frameCols, nrows,
                 serverVars, rowsOut, sends, produced, counted, broken>>

\* Mutant of MoreStatements: an immediate query ends with its first statement.
MoreStatementsNever == FALSE

\* Mutant of CountAffected: the last parameter row or statement overwrites.
CountLast(n) == affected' = n

\* Mutant of MoreGroups: only the first row is executed.
MoreGroupsNever == FALSE

\* step_done(): count, and go on to the next parameter row if there is one.
\* bind_row() returns TRUE for an immediate query, which may have another
\* statement, and step_run() returns TRUE after PGRES_TUPLES_OK in any case.
MoreGroups == group + 1 < groups
MoreStatements == query.immediate

CountAffected(n) == affected' = affected + n

StepDone ==
  /\ pc = "step" /\ inbox # <<>> /\ Head(inbox).kind \in {"tuples_ok", "command_ok"}
  /\ inbox' = Tail(inbox)
  /\ res' = NoRow
  /\ CountAffected(Head(inbox).count)
  /\ group' = group + 1
  /\ dataReady' = FALSE
  /\ complete' = (complete \/ (~MoreGroups /\ ~MoreStatements))
  /\ pc' = IF MoreGroups THEN "drain"
           ELSE IF MoreStatements \/ Head(inbox).kind = "tuples_ok" THEN "step"
           ELSE Return
  /\ UNCHANGED <<cacheVars, caller, groups, ready, fetchVars, serverVars, pastVars>>

\* PQgetResult returns NULL.
StepEnd ==
  /\ pc = "step"
  /\ \/ inbox # <<>> /\ Head(inbox).kind = "ready" /\ inbox' = Tail(inbox)
     \/ WireIdle /\ UNCHANGED inbox
  /\ res' = NoRow
  /\ dataReady' = TRUE
  /\ complete' = TRUE
  /\ pc' = Return
  /\ UNCHANGED <<cacheVars, caller, bindVars, ready, fetchVars, serverVars, pastVars>>

StepError ==
  /\ pc = "step" /\ inbox # <<>> /\ Head(inbox).kind = "error"
  /\ inbox' = Tail(inbox)
  /\ res' = NoRow
  /\ dataReady' = TRUE
  /\ Raise
  /\ UNCHANGED <<cacheVars, caller, bindVars, ready, complete, limit, frameCols, nrows,
                 serverVars, rowsOut, sends, produced, counted, broken>>

\* wait_for_data() returns FALSE: the user interrupts while nothing is there.
Interrupt ==
  /\ CheckInterrupts
  /\ pc = "step" /\ ~dataReady /\ inbox = <<>> /\ serving
  /\ cancelled' = TRUE
  /\ res' = NoRow
  /\ dataReady' = TRUE /\ complete' = TRUE
  /\ Raise
  /\ UNCHANGED <<cacheVars, caller, bindVars, ready, limit, frameCols, nrows,
                 todo, serving, sent, inbox, rowsOut, sends, produced, counted, broken>>

-----------------------------------------------------------------------------
(* dbFetch(): fetch_rows() and the PqDataFrame it fills.                   *)

BeginFetch(n) ==
  /\ pc = "R" /\ ready /\ ~complete
  /\ told => FetchAfterError
  /\ caller' = "fetch" /\ limit' = n
  /\ frameCols' = cols /\ frame' = <<>>
  /\ pc' = "fetch"
  /\ UNCHANGED <<cacheVars, bindVars, flagVars, res, nrows, serverVars, inbox, pastVars>>

\* set_col_values() copies the row read ahead; without one every column is
\* taken for NULL, and the row is row 0.
CopyRow ==
  /\ pc = "fetch"
  /\ frame' = Append(frame, res.row)
  /\ pc' = "step"
  /\ UNCHANGED <<cacheVars, caller, bindVars, flagVars, res, limit, frameCols, nrows,
                 serverVars, inbox, pastVars>>

FrameFull == limit >= 0 /\ Len(frame) >= limit

\* nrows_++ and DbDataFrame::advance().
Advance ==
  /\ pc = "advance"
  /\ nrows' = nrows + 1
  /\ IF complete \/ FrameFull
       THEN /\ rowsOut' = rowsOut \o frame
            /\ frame' = <<>>
            /\ pc' = "R"
       ELSE pc' = "fetch" /\ UNCHANGED <<rowsOut, frame>>
  /\ UNCHANGED <<cacheVars, caller, bindVars, flagVars, res, limit, frameCols,
                 serverVars, inbox, told, sends, produced, counted, broken>>

\* advance() checks for an interrupt every CheckEvery rows.
AdvanceInterrupted ==
  /\ pc = "advance" /\ Len(frame) % CheckEvery = 0
  /\ nrows' = nrows + 1
  /\ Raise
  /\ UNCHANGED <<cacheVars, caller, bindVars, flagVars, res, limit, frameCols,
                 serverVars, inbox, rowsOut, sends, produced, counted, broken>>

-----------------------------------------------------------------------------
(* dbClearResult(): ~DbResult, cleanup_query().                            *)

\* Mutant of CancelNeeded: the statement is left to run.
CancelNever == FALSE

CancelNeeded == ~complete

Close ==
  /\ pc = "R"
  /\ cancelled' = (cancelled \/ (CancelNeeded /\ serving))
  /\ pc' = "closing"
  /\ UNCHANGED <<cacheVars, caller, bindVars, flagVars, res, fetchVars,
                 todo, serving, sent, inbox, pastVars>>

-----------------------------------------------------------------------------
Step == StepRow \/ StepDone \/ StepEnd \/ StepError

Client == Drain \/ Send \/ Step \/ CopyRow \/ Advance

User ==
  \/ \E q \in Queries : Create(q)
  \/ \E n \in Groups : Bind(n)
  \/ BindNothing
  \/ \E n \in {-1, 1, 2} : BeginFetch(n)
  \/ Close
  \/ Interrupt \/ AdvanceInterrupted

Next == User \/ Client \/ Server

Spec == Init /\ [][Next]_vars

\* R's thread does not stop inside a call, and the server ends its command
\* once it has been cancelled or every statement is done; it may otherwise
\* work on a statement for ever.
Fairness ==
  /\ WF_vars(Client)
  /\ WF_vars(EndCommand) /\ WF_vars(cancelled /\ FailStatement)

FairSpec == Spec /\ Fairness

-----------------------------------------------------------------------------
(* What makes a result correct.                                            *)

IsPrefixOfNat(s) == \A i \in DOMAIN s : s[i] = i

\* dbFetch() hands over the rows of the execution in the order in which the
\* server produced them, from the first one on, none twice, none left out and
\* none invented, however many parameter rows or statements they come from, and
\* each in a data frame that was created for the columns it has.
RowsInOrder ==
  /\ IsPrefixOfNat(rowsOut \o frame)
  /\ pc = "fetch" => res.cols = frameCols

\* A result that is complete and has raised no error has handed over every
\* row that the server produced, for all parameter rows and all statements.
CompleteMeansAll ==
  (pc = "R" /\ ready /\ complete /\ ~told) =>
    /\ Len(rowsOut) = produced
    /\ sends = groups
    /\ sends > 0 => todo = <<>> /\ ~broken

\* n_rows_affected()
RowsAffected == IF cols # NoCols THEN 0 ELSE affected

\* dbGetRowCount() is the number of rows R was given, and dbGetRowsAffected() of a
\* completed command without columns the sum over all its statements and
\* parameter rows.
CountsAreExact ==
  (pc = "R" /\ ready /\ ~told) =>
    /\ nrows = Len(rowsOut)
    /\ complete /\ cols = NoCols => RowsAffected = counted

\* Every call returns to R as long as the server works on its statements.
CallsReturn == WF_vars(Server) => (pc \notin {"R", "gone"} ~> pc \in {"R", "gone"})

\* Destroying a result, by dbClearResult() or behind a constructor that failed,
\* ends although the statement would run for ever: whatever is still running
\* has been cancelled ("Closing open result set, cancelling previous query",
\* DbConnection.cpp:70).  A bind of no parameter rows at all marks an execution
\* complete that still runs, and is left out.
ClearReturns ==
  (pc \in {"closing", "unwind"} /\ (groups > 0 \/ ~ready)) ~> (pc = "gone")

\* The abstract result set.
Status ==
  IF told THEN "failed"
  ELSE IF ready /\ complete /\ pc \in {"R", "closing", "gone"} THEN "complete"
  ELSE "open"

Over == sends = groups /\ (sends > 0 => todo = <<>> /\ ~broken)

Stream == INSTANCE RowStream WITH
  given <- rowsOut, made <- produced, over <- Over, status <- Status

\* PqResultImpl implements RowStream.
RefinesRowStream == Stream!Spec

=============================================================================
