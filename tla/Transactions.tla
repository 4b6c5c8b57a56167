---------------------------- MODULE Transactions ----------------------------
(***************************************************************************)
(* dbBegin(), dbCommit(), dbRollback() and dbWriteTable() on a connection: *)
(* R keeps one Boolean, transacting_, about a transaction that lives in    *)
(* the server, and dbWriteTable() runs half a dozen statements that shall  *)
(* act as one, with on.exit() handlers that undo them.                     *)
(*                                                                         *)
(* A statement is one action; an interrupt, the death of the backend or an *)
(* error may come between any two.  The database is one table.             *)
(***************************************************************************)
EXTENDS Integers, Sequences

CONSTANTS
  Names,        \* names of savepoints the user sets
  MaxDepth,     \* bound on the savepoints that are set at a time
  Faults        \* which of FaultKinds happen

FaultKinds == {
  "sql_error",    \* a statement fails in the server
  "loss",         \* the backend dies
  "interrupt",    \* the user interrupts R between two statements
  "open_result"}  \* a result is open, with rows outstanding

ASSUME DepthAssumption == MaxDepth \in Nat
ASSUME FaultsAssumption == Faults \subseteq FaultKinds

Writer == "dbWriteTable"     \* the savepoint of dbWriteTable()

\* The table: absent, or its rows, written by the user or by dbWriteTable().
Absent == {"absent"}
Tables == {Absent} \cup SUBSET {"user", "writer"}

Jobs == [how : {"overwrite", "append", "create"}, rows : BOOLEAN]

VARIABLES
  redshift,  \* the connection is one of Redshift(), which has no savepoints
  db,        \* server: the transaction, its savepoints, what it sees, what is durable
  link,      \* the backend behind pConn_ is alive
  conn,      \* PQstatus(pConn_): "ok" or "bad"
  open,      \* the current result has rows outstanding
  flag,      \* transacting_
  pc,        \* inside dbBegin(), dbCommit(), dbRollback(): what is left to do
  name,      \* the savepoint dbRollback() has still to release
  stage,     \* where dbWriteTable() is, "none" outside
  own,       \* need_transaction
  handler,   \* what on.exit() holds: "none", "savepoint", "transaction"
  job,       \* the arguments of dbWriteTable()
  before,    \* history: db and flag when dbWriteTable() was called
  ended,     \* history: how the last dbWriteTable() ended
  warned,    \* history: R has seen an error since it last began a transaction
  torn       \* history: an interrupt has hit a call since then

callVars == <<pc, name, stage, own, handler, job>>
pastVars == <<before, ended, warned, torn>>
vars == <<redshift, db, link, conn, open, flag, callVars, pastVars>>

Stages == {"none", "begin", "savepoint", "arm", "arm_own", "table", "create",
           "append", "release", "commit", "disarm", "exit"}

Marks == [name : Names \cup {Writer}, seen : Tables]
Databases == [tx : {"idle", "open", "aborted"}, saves : Seq(Marks),
              work : Tables, durable : Tables]

TypeOK ==
  /\ redshift \in BOOLEAN
  /\ db \in Databases /\ before \in [db : Databases, flag : BOOLEAN]
  /\ link \in BOOLEAN /\ conn \in {"ok", "bad"} /\ open \in BOOLEAN
  /\ flag \in BOOLEAN
  /\ pc \in {"R", "begun", "committed", "rolled_back", "release"}
  /\ name \in Names \cup {Writer}
  /\ stage \in Stages /\ own \in BOOLEAN
  /\ handler \in {"none", "savepoint", "transaction"}
  /\ job \in Jobs
  /\ ended \in {"running", "written", "undone", "failed"}
  /\ warned \in BOOLEAN /\ torn \in BOOLEAN

NoJob == [how |-> "create", rows |-> TRUE]
NoCall == [db |-> [tx |-> "idle", saves |-> <<>>, work |-> Absent, durable |-> Absent],
           flag |-> FALSE]

Init ==
  /\ redshift \in BOOLEAN
  /\ \E t \in {Absent, {"user"}} :
       db = [tx |-> "idle", saves |-> <<>>, work |-> t, durable |-> t]
  /\ link = TRUE /\ conn = "ok" /\ open = FALSE
  /\ flag = FALSE
  /\ pc = "R" /\ name = Writer
  /\ stage = "none" /\ own = FALSE /\ handler = "none"
  /\ job = NoJob
  /\ before = NoCall /\ ended = "failed"
  /\ warned = FALSE /\ torn = FALSE

-----------------------------------------------------------------------------
(* The server: what each statement does to its side of the session.        *)

Rollback(D) == [tx |-> "idle", saves |-> <<>>, work |-> D.durable, durable |-> D.durable]

\* COMMIT of a transaction in which a statement has failed rolls it back, and
\* reports success; outside of a transaction it is a warning, as ROLLBACK is.
Commit(D) ==
  IF D.tx = "open" THEN [tx |-> "idle", saves |-> <<>>, work |-> D.work, durable |-> D.work]
                   ELSE Rollback(D)

Begin(D) == [D EXCEPT !.tx = "open"]

\* A statement outside of a transaction commits itself.
Write(D, t) ==
  [D EXCEPT !.work = t, !.durable = IF D.tx = "idle" THEN t ELSE @]

\* The position of the innermost savepoint of that name, 0 without one.
Innermost(D, n) ==
  LET at == {i \in DOMAIN D.saves : D.saves[i].name = n}
  IN IF at = {} THEN 0 ELSE CHOOSE i \in at : \A j \in at : j <= i

Savepoint(D, n) == [D EXCEPT !.saves = Append(@, [name |-> n, seen |-> D.work])]
Release(D, n) == [D EXCEPT !.saves = SubSeq(@, 1, Innermost(D, n) - 1)]
RollbackTo(D, n) ==
  [D EXCEPT !.tx = "open", !.work = D.saves[Innermost(D, n)].seen,
            !.saves = SubSeq(@, 1, Innermost(D, n))]

\* After an error only ROLLBACK, COMMIT and ROLLBACK TO are accepted.
InForce(D) == D.tx # "aborted"
HasSavepoint(D, n) == Innermost(D, n) > 0

\* An error outside of a transaction has no effect.
Abort(D) == [D EXCEPT !.tx = IF D.tx = "idle" THEN "idle" ELSE "aborted"]

-----------------------------------------------------------------------------
(* R's side: control returns from a statement with a value or an error.    *)

\* The local variables of a call are gone when it returns.
Locals ==
  /\ name' = Writer
  /\ IF stage' = "none"
       THEN handler' = "none" /\ own' = FALSE /\ job' = NoJob /\ before' = NoCall
       ELSE UNCHANGED <<handler, own, job, before>>

\* The error handlers of dbWriteTable() run when there are any.
AfterError == IF stage \notin {"none", "exit"} /\ handler # "none" THEN "exit" ELSE "none"

Raise ==
  /\ pc' = "R"
  /\ stage' = AfterError
  /\ Locals
  /\ ended' = IF ended = "running" /\ AfterError = "none" THEN "failed" ELSE ended
  /\ warned' = TRUE
  /\ UNCHANGED <<redshift, flag>>

\* The session in which a statement is executed: set_current_result() cancels
\* an open result first, which aborts the transaction unless it comes too late.
Sessions == IF open THEN {db, Abort(db)} ELSE {db}

\* dbExecute() of a statement that takes the server from D to E.
Succeeds(E) ==
  /\ conn = "ok" /\ link
  /\ db' = E
  /\ open' = FALSE
  /\ UNCHANGED <<redshift, link, conn, warned, torn>>

\* The server refuses the statement, or fails at it (mayFail), and is in state
\* E then.
Refuses(ok, mayFail, E) ==
  /\ conn = "ok" /\ link
  /\ ~ok \/ (mayFail /\ "sql_error" \in Faults)
  /\ db' = E
  /\ open' = FALSE
  /\ Raise
  /\ UNCHANGED <<link, conn, torn>>

\* The backend executes the statement and dies before R has the answer.
AnswerLost(ok, E) ==
  /\ conn = "ok" /\ link /\ ok /\ "loss" \in Faults
  /\ db' = Rollback(E)
  /\ open' = FALSE /\ link' = FALSE /\ conn' = "bad"
  /\ Raise
  /\ UNCHANGED torn

\* The call in progress is the user's, or the one dbWriteTable() is at.
Called(s) == pc = "R" /\ stage \in s

Idle == pc = "R" /\ stage = "none"

Stay == UNCHANGED <<redshift, flag, callVars, before, ended>>

-----------------------------------------------------------------------------
(* dbBegin(), dbCommit() and dbRollback() without a name.                  *)

\* dbBegin() refuses when transacting_ is set, and then sets it.
BeginTransaction ==
  /\ Called({"none", "begin"}) /\ ~flag
  /\ \E D \in Sessions :
       \/ /\ InForce(D) /\ Succeeds(Begin(D))
          /\ pc' = "begun"
          /\ UNCHANGED <<flag, name, stage, own, handler, job, before, ended>>
       \/ Refuses(InForce(D), FALSE, D)
       \/ AnswerLost(InForce(D), Begin(D))

\* Mutant of SetBegun: transacting_ is not set.
SetBegunForgotten ==
  /\ pc = "begun"
  /\ pc' = "R"
  /\ stage' = IF stage = "begin" THEN "savepoint" ELSE stage
  /\ warned' = FALSE /\ torn' = FALSE
  /\ UNCHANGED <<redshift, db, link, conn, open, flag, name, own, handler, job, before, ended>>

\* connection_set_transacting(TRUE); dbWriteTable() goes on with its savepoint.
SetBegun ==
  /\ pc = "begun"
  /\ flag' = TRUE
  /\ pc' = "R"
  /\ stage' = IF stage # "begin" THEN stage ELSE IF redshift THEN "arm_own" ELSE "savepoint"
  /\ warned' = FALSE /\ torn' = FALSE
  /\ UNCHANGED <<redshift, db, link, conn, open, name, own, handler, job, before, ended>>

\* A deferred constraint can make COMMIT fail, which ends the transaction.
CommitTransaction ==
  /\ Called({"none", "commit"}) /\ flag
  /\ \E D \in Sessions :
       \/ /\ Succeeds(Commit(D))
          /\ pc' = "committed"
          /\ UNCHANGED <<flag, name, stage, own, handler, job, before, ended>>
       \/ Refuses(TRUE, D.tx = "open", Rollback(D))
       \/ AnswerLost(TRUE, Commit(D))

RollbackTransaction ==
  /\ Called({"none", "exit"}) /\ flag
  /\ stage = "exit" => handler = "transaction"
  /\ \E D \in Sessions :
       \/ /\ Succeeds(Rollback(D))
          /\ pc' = "rolled_back"
          /\ UNCHANGED <<flag, name, stage, own, handler, job, before, ended>>
       \/ AnswerLost(TRUE, Rollback(D))

\* connection_set_transacting(FALSE)
SetEnded ==
  /\ pc \in {"committed", "rolled_back"}
  /\ flag' = FALSE
  /\ pc' = "R"
  /\ stage' = IF stage = "commit" THEN "disarm" ELSE "none"
  /\ ended' = IF stage = "exit" THEN "undone" ELSE ended
  /\ torn' = FALSE
  /\ Locals
  /\ UNCHANGED <<redshift, db, link, conn, open, warned>>

\* "Call dbBegin() to start a transaction."
RollbackRefused ==
  /\ pc = "R" /\ stage = "exit" /\ handler = "transaction" /\ ~flag
  /\ Raise
  /\ UNCHANGED <<db, link, conn, open, torn>>

-----------------------------------------------------------------------------
(* Savepoints.  The one of dbWriteTable() is set, released and undone by   *)
(* the same methods as those of the user.                                  *)

SetSavepoint(n) ==
  /\ \/ Called({"none"}) /\ n \in Names /\ Len(db.saves) < MaxDepth
     \/ Called({"savepoint"}) /\ n = Writer
  /\ flag
  /\ \E D \in Sessions :
       LET ok == D.tx = "open" /\ ~redshift IN
       \/ /\ ok /\ Succeeds(Savepoint(D, n))
          /\ stage' = IF stage = "savepoint" THEN "arm" ELSE stage
          /\ UNCHANGED <<flag, pc, name, own, handler, job, before, ended>>
       \/ Refuses(ok, FALSE, Abort(D))
       \/ AnswerLost(ok, Savepoint(D, n))

\* How dbWriteTable() ends, behind its savepoint, or its body on Redshift.
AfterSavepoint == IF own THEN "commit" ELSE "disarm"

\* Mutant of ReleaseSavepoint: dbWriteTable() forgets its own transaction.
ReleaseThenReturn(n) ==
  /\ \/ Called({"none"}) /\ n \in Names
     \/ Called({"release"}) /\ n = Writer
  /\ \E D \in Sessions :
       LET ok == D.tx = "open" /\ HasSavepoint(D, n) IN
       /\ ok /\ Succeeds(Release(D, n))
       /\ stage' = IF stage = "none" THEN stage ELSE "disarm"
       /\ UNCHANGED <<flag, pc, name, own, handler, job, before, ended>>

ReleaseSavepoint(n) ==
  /\ \/ Called({"none"}) /\ n \in Names
     \/ Called({"release"}) /\ n = Writer
  /\ \E D \in Sessions :
       LET ok == D.tx = "open" /\ HasSavepoint(D, n) IN
       \/ /\ ok /\ Succeeds(Release(D, n))
          /\ stage' = IF stage = "none" THEN stage ELSE AfterSavepoint
          /\ UNCHANGED <<flag, pc, name, own, handler, job, before, ended>>
       \/ Refuses(ok, FALSE, Abort(D))
       \/ AnswerLost(ok, Release(D, n))

\* Mutant of RollbackToSavepoint: without RELEASE SAVEPOINT.
RollbackToOnly(n) ==
  /\ \/ Called({"none"}) /\ n \in Names
     \/ Called({"exit"}) /\ handler = "savepoint" /\ n = Writer
  /\ \E D \in Sessions :
       /\ D.tx # "idle" /\ HasSavepoint(D, n)
       /\ Succeeds(RollbackTo(D, n))
  /\ stage' = "none"
  /\ ended' = IF stage = "exit" THEN "undone" ELSE ended
  /\ Locals
  /\ UNCHANGED <<pc, flag>>

\* dbRollback(name = ): ROLLBACK TO, and then RELEASE SAVEPOINT.
RollbackToSavepoint(n) ==
  /\ \/ Called({"none"}) /\ n \in Names
     \/ Called({"exit"}) /\ handler = "savepoint" /\ n = Writer
  /\ \E D \in Sessions :
       LET ok == D.tx # "idle" /\ HasSavepoint(D, n) IN
       \/ /\ ok /\ Succeeds(RollbackTo(D, n))
          /\ pc' = "release" /\ name' = n
          /\ UNCHANGED <<flag, stage, own, handler, job, before, ended>>
       \/ Refuses(ok, FALSE, Abort(D))
       \/ AnswerLost(ok, RollbackTo(D, n))

ReleaseRolledBack ==
  /\ pc = "release"
  /\ LET ok == db.tx = "open" /\ HasSavepoint(db, name) IN
     \/ /\ ok /\ Succeeds(Release(db, name))
        /\ pc' = "R" /\ stage' = "none"
        /\ ended' = IF stage = "exit" THEN "undone" ELSE ended
        /\ Locals
        /\ UNCHANGED flag
     \/ Refuses(ok, FALSE, Abort(db))
     \/ AnswerLost(ok, Release(db, name))

-----------------------------------------------------------------------------
(* dbWriteTable()                                                          *)

\* Mutant of WriteTable: no transaction and no savepoint.
WriteTableBare(j) ==
  /\ Idle /\ Len(db.saves) <= MaxDepth
  /\ job' = j
  /\ own' = FALSE /\ handler' = "none"
  /\ stage' = "table"
  /\ before' = [db |-> db, flag |-> flag] /\ ended' = "running"
  /\ UNCHANGED <<redshift, db, link, conn, open, flag, pc, name, warned, torn>>

WriteTable(j) ==
  /\ Idle /\ Len(db.saves) <= MaxDepth
  /\ job' = j
  /\ own' = ~flag /\ handler' = "none"
  /\ stage' = IF ~flag THEN "begin" ELSE IF redshift THEN "table" ELSE "savepoint"
  /\ before' = [db |-> db, flag |-> flag] /\ ended' = "running"
  /\ UNCHANGED <<redshift, db, link, conn, open, flag, pc, name, warned, torn>>

\* The two on.exit() calls; the second one replaces the first.
Arm ==
  /\ Called({"arm"})
  /\ handler' = "savepoint"
  /\ stage' = IF own THEN "arm_own" ELSE "table"
  /\ UNCHANGED <<redshift, db, link, conn, open, flag, pc, name, own, job, pastVars>>

ArmOwn ==
  /\ Called({"arm_own"})
  /\ handler' = "transaction"
  /\ stage' = "table"
  /\ UNCHANGED <<redshift, db, link, conn, open, flag, pc, name, own, job, pastVars>>

\* One statement of the body: it needs need, leaves the table t and is
\* followed by stage next.
BodyStatement(need, t, next) ==
  LET ok == InForce(db) /\ need IN
  \/ /\ ok /\ Succeeds(Write(db, t))
     /\ stage' = next
     /\ UNCHANGED <<flag, pc, name, own, handler, job, before, ended>>
  \/ Refuses(ok, TRUE, Abort(db))
  \/ AnswerLost(ok, Write(db, t))

\* dbRemoveTable(fail_if_missing = FALSE)
RemoveTable ==
  /\ Called({"table"}) /\ job.how = "overwrite"
  /\ BodyStatement(TRUE, Absent, "create")

\* dbExistsTable(); R stops by itself if the table is there and append is not.
ExistsTable ==
  /\ Called({"table"}) /\ job.how # "overwrite"
  /\ \/ BodyStatement(TRUE, db.work, IF db.work = Absent THEN "create" ELSE "append")
        /\ (db.work = Absent \/ job.how = "append")
     \/ /\ conn = "ok" /\ link /\ InForce(db)
        /\ db.work # Absent /\ job.how = "create"
        /\ Raise
        /\ UNCHANGED <<db, link, conn, open, torn>>

\* dbCreateTable()
CreateTable ==
  /\ Called({"create"})
  /\ BodyStatement(db.work = Absent, {}, "append")

\* db_append_table(), by COPY or INSERT, unless there are no rows.
AppendTable ==
  LET next == IF redshift THEN AfterSavepoint ELSE "release" IN
  /\ Called({"append"})
  /\ \/ job.rows /\ BodyStatement(db.work # Absent, db.work \cup {"writer"}, next)
     \/ /\ ~job.rows
        /\ stage' = next
        /\ UNCHANGED <<redshift, db, link, conn, open, flag, pc, name, own, handler, job, pastVars>>

\* on.exit(NULL), and the call returns TRUE.
Disarm ==
  /\ Called({"disarm"})
  /\ stage' = "none" /\ ended' = "written"
  /\ Locals
  /\ UNCHANGED <<redshift, db, link, conn, open, flag, pc, warned, torn>>

-----------------------------------------------------------------------------
(* The user's other calls, the user's interrupts, and the backend.         *)

\* A statement that adds a row, or drops the table.
UserStatement(t) ==
  /\ Idle
  /\ \E D \in Sessions :
       LET ok == InForce(D) /\ D.work # Absent IN
       \/ ok /\ Succeeds(Write(D, t)) /\ Stay
       \/ Refuses(ok, TRUE, Abort(D))
       \/ AnswerLost(ok, Write(D, t))

\* dbSendQuery() of a query, of which R fetches some rows.
OpenQuery ==
  /\ "open_result" \in Faults
  /\ Idle /\ conn = "ok" /\ link
  /\ \E D \in Sessions : InForce(D) /\ db' = D
  /\ open' = TRUE
  /\ Stay
  /\ UNCHANGED <<link, conn, warned, torn>>

\* dbClearResult(): the query is cancelled, which aborts the transaction unless
\* it comes too late; finish_query() swallows all errors, and the news that
\* the backend is dead.
ClearResult ==
  /\ Idle /\ open
  /\ open' = FALSE
  /\ db' \in Sessions
  /\ conn' = IF link THEN conn ELSE "bad"
  /\ Stay
  /\ UNCHANGED <<link, warned, torn>>

Interrupt ==
  /\ "interrupt" \in Faults
  /\ ~Idle
  /\ Raise
  /\ torn' = TRUE
  /\ UNCHANGED <<db, link, conn, open>>

\* The server rolls back what the session has not committed.
BackendDies ==
  /\ "loss" \in Faults
  /\ link
  /\ link' = FALSE
  /\ db' = Rollback(db)
  /\ Stay
  /\ UNCHANGED <<conn, open, warned, torn>>

\* A statement finds the backend dead, or check_connection() does not reach
\* the server.
Unreachable ==
  /\ ~link
  /\ \/ Called(Stages \ {"arm", "arm_own", "disarm"})
     \/ pc = "release"
  /\ open' = FALSE /\ conn' = "bad"
  /\ Raise
  /\ UNCHANGED <<db, link, torn>>

\* check_connection() resets a connection known to be bad; transacting_ stays.
Reconnect ==
  /\ conn = "bad"
  /\ conn' = "ok" /\ link' = TRUE
  /\ Stay
  /\ UNCHANGED <<db, open, warned, torn>>

-----------------------------------------------------------------------------
Transaction == BeginTransaction \/ SetBegun \/ CommitTransaction
               \/ RollbackTransaction \/ SetEnded \/ RollbackRefused

SavepointCall ==
  \/ \E n \in Names \cup {Writer} :
       SetSavepoint(n) \/ ReleaseSavepoint(n) \/ RollbackToSavepoint(n)
  \/ ReleaseRolledBack

Writing ==
  \/ \E j \in Jobs : WriteTable(j)
  \/ Arm \/ ArmOwn \/ RemoveTable \/ ExistsTable \/ CreateTable \/ AppendTable \/ Disarm

Next ==
  \/ Transaction \/ SavepointCall \/ Writing
  \/ \E t \in {Absent, db.work \cup {"user"}} : UserStatement(t)
  \/ OpenQuery \/ ClearResult
  \/ Interrupt \/ BackendDies \/ Unreachable \/ Reconnect

Spec == Init /\ [][Next]_vars

-----------------------------------------------------------------------------
(* What makes transactions correct.                                        *)

\* While postgresIsTransacting() says FALSE, the server has no transaction
\* open: nothing R does then is lost or held back.  Only an interrupt between
\* BEGIN and set_transacting() can break this.
NoHiddenTransaction == ~flag /\ pc = "R" /\ ~torn => db.tx = "idle"

\* A successful dbCommit() has committed a transaction, as long as no call has
\* failed since dbBegin() ("@return A boolean, indicating success or failure",
\* transactions.R:8).
CommitCommits ==
  [][pc = "R" /\ pc' = "committed" /\ ~warned => db.tx = "open"]_vars

\* dbWriteTable() was called when transacting_ was right.
KnownBefore == before.flag <=> before.db.tx # "idle"

\* The table as dbWriteTable() shall leave it.
Complete ==
  (IF job.how = "overwrite" \/ before.db.work = Absent THEN {} ELSE before.db.work)
    \cup (IF job.rows THEN {"writer"} ELSE {})

\* On Redshift, transacting_ says that the user has begun a transaction, but it
\* was lost with its session; elsewhere SAVEPOINT would be refused.
Unprotected == redshift /\ before.flag /\ before.db.tx = "idle"

\* No other session ever sees half a dbWriteTable(): what becomes durable while
\* it runs is the table as a whole, whatever statement fails, is interrupted
\* or is lost with its session.
DurableIsWhole ==
  [][stage # "none" /\ ~Unprotected /\ db'.durable # db.durable =>
       db'.durable = Complete]_vars

\* A dbWriteTable() that returns has written the table, in the transaction and
\* with the savepoints that were there before.
WrittenIsComplete ==
  [][ended = "running" /\ ended' = "written" /\ KnownBefore =>
       /\ flag' = before.flag
       /\ link => /\ db'.work = Complete
                  /\ db'.tx = before.db.tx /\ db'.saves = before.db.saves]_vars

\* One that fails, and whose on.exit() handler runs to its end, leaves the
\* table, the transaction and the savepoints as they were: the transaction of
\* the user can go on.  Only an interrupt after COMMIT comes too late, and one
\* between the two on.exit() calls leaves the wrong handler, or
\* none and a savepoint of that name.
UndoneIsRestored ==
  [][(/\ ended = "running" /\ ended' = "undone"
       /\ KnownBefore /\ ~HasSavepoint(before.db, Writer)
       /\ (own => handler = "transaction")) =>
       /\ flag' = before.flag
       /\ db'.tx = before.db.tx /\ db'.saves = before.db.saves
       /\ db'.work \in {before.db.work, Complete}]_vars

=============================================================================
