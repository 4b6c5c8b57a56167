# RPostgres in TLA+

RPostgres is a DBI driver: R code, a C++ layer, and libpq below it. These
modules specify the parts of it in which order, failure and ownership decide
whether a user gets the right rows: who owns the connection and its current
result, how rows arrive, what a connection loses with its backend, what
`dbWriteTable()` leaves behind when it fails, how a data frame is gathered and
shipped, which table a name means and how a name is spelled. Every module is
written from the sources of the package; PostgreSQL, libpq and R's garbage
collector are modelled as `src/` uses them.

Contents: 1 the system, 2 modules and code, 3 runs, 4 bounds and fairness,
5 proofs, 6 where the code and its documentation part, 7 what is left out,
8 plan.

## 1. The system

    R session (one thread; the garbage collector may run at any allocation)
      PqConnection --external pointer--> shared_ptr<DbConnection> --> PGconn
      PqResult     --external pointer--> DbResult --> PqResultImpl --> PGresult
                                            |  shared_ptr to DbConnection
      DbConnection.pCurrentResult_ --raw pointer--> DbResult

| Component | State it keeps | Operations | What makes it correct |
|---|---|---|---|
| connection and result ownership (`DbConnection`, `DbResult`, `connection.cpp`, `result.cpp`) | `pConn_`, `pCurrentResult_`; for each result `complete_`, `ready_`; in the backend one unnamed statement; on the wire results nobody has read | create, prepare, bind, fetch, release (by hand or by the collector), disconnect, reset, COPY, large objects | rows and statements stay with the result they belong to; no pointer outlives its object; no call loops for ever; no rows vanish without an error |
| row stream (`PqResultImpl`) | the row read ahead, group counters, row counters, cached columns | `bind`, `bind_row`, `step`, `step_run`, `step_done`, `fetch_rows` | rows in order, each once; complete means all; counters are exact; clearing a result ends |
| transactions (`transactions.R`, `dbBegin/Commit/Rollback`) | `transacting_`, next to the transaction in the server | begin, commit, rollback, named savepoints | the flag never hides an open transaction; success means committed |
| `dbWriteTable()`: atomicity | its stage, `on.exit()` handler, own transaction or savepoint | remove, exists, create, append, release, commit, undo | all or nothing, and the user's transaction survives a failure |
| names (`tables.R`) | `temp_schema_`; in the server schemas, `search_path`, temporary schema | exists, list fields, list objects, remove, write | queries of the catalog and the server's own resolution mean the same table |
| quoting (`dbQuote*`, `dbUnquoteIdentifier`) | none | quote, unquote | the server reads what R was given; R and the server take a name apart in the same way |
| data frames (`DbDataFrame`, `DbColumn`, `DbColumnStorage`) | storages of each column, their fill and type | set values, advance, copy out | no value is lost or shifted where a storage ends or a type becomes known |
| values (`encode.cpp`, `PqColumnDataSource`, `PqUtils`, `PqResult.R`, literals and parameters) | none | encode for COPY, quote as a literal, prepare for binding, decode by OID, time zones, bigint, classes | what was written is read back |
| settings of `dbConnect()`, time zone check, type names | slots of the R object; settings of the backend | a sequence of SET statements behind `on.exit()` | all or nothing; they hold until a loss of the backend is known |
| notifications (`wait_for_notify`) | libpq's queue, the socket, what the backend holds back | wait, and every query that reads the socket | in order, each at most once, none lost but with the backend |
| work queue of the vignette | a process, a connection and LISTENs for each worker; one table | take, lock, update, commit, time out, shut down | one worker at a time, one result each, every item is done, every worker stops |
| large objects, Redshift variants | see `PROJECT.json` | | |
| information methods, glue | none | not modelled | |

How they interact. A `DbResult` is created from R on a `DbConnection`, which it
keeps alive; the connection knows at most one result as current and cleans up
after it (`cancel_query`, `finish_query`) when another one takes over or when it
is destroyed. All results share one wire and one unnamed prepared statement.
COPY, large objects and notifications use the wire without a result. Any call
may find the connection bad and reset it, which gives it another backend: what
the old one held (transaction, settings, LISTENs, temporary tables) is gone. The
R methods for transactions, tables and connecting are sequences of queries,
with an error, an interrupt or a lost backend possible between any two.

What is hard here, and hardly reached by the tests under `tests/testthat`, which
run against one healthy server: results that are destroyed in the middle of
another call; a backend that dies, with state left behind in C++, R and the
user's head; an interrupt between a statement and the assignment that records
it; errors that C++ swallows in a destructor; rows already sent when a
conflict shows; capacity and calendar boundaries; the same name resolved by
five pieces of SQL. `PROJECT.json` lists each at its line under `hazards`.

## 2. Modules and code

The `map` of `PROJECT.json` gives the lines of every definition. Modules whose
name begins with `MC` hold the small instances for TLC.

### Session

One connection, its results and the wire (`DbConnection.cpp`, `DbResult.cpp`,
`connection.cpp`, `result.cpp`, the parts of `PqResultImpl.cpp` that touch the
connection).

| Variable | Code |
|---|---|
| `conn`, `link`, `server` | `PQstatus(pConn_)` as libpq believes it, whether the backend is really alive, whether new connections are accepted |
| `conPtr`, `heap` | references R holds to the connection; objects at the addresses `Results` |
| `current` | `pCurrentResult_`, a raw pointer |
| `kind`, `ready`, `complete` | immediate, prepared, prepared with parameters; `ready_`, `complete_` |
| `stmt`, `wire` | whose statement the backend holds; whose results libpq has not read to the end, or a COPY |
| `call`, `thread` | the point inside a constructor or COPY at which R may collect garbage; whether the thread runs, loops or is in undefined behaviour |
| `owed`, `told`, `ran` | history: rows not yet given out, an error shown, whose statement was executed |

`BeginCreate` / `SetCurrentResult` / `Prepare` / `Execute` are the constructor,
cut where R code can run in the middle. `Release*` is `~DbResult`: the destructor
that cleans up, the one whose clean-up throws and is swallowed, the one that
never returns. `Fetch*` and `Bind*` are `dbFetch()` and `dbBind()`;
`CheckConnection`, `CleanupQuery` and `FinishQuery` are the methods of those
names. Addresses are reused: a new result may sit where a destroyed one was,
which is what `pResult == pCurrentResult_` can confuse. `Faults` says how bad
the world is:

| Fault | Meaning |
|---|---|
| `outage` | the server refuses connections for a while (a backend may die in every run) |
| `late_use` | results are used after `dbDisconnect()` |
| `stale_bind` | `dbBind()` on a result that has been replaced |
| `busy_call` | COPY, large objects or notifications while a result is open |
| `copy_error` | COPY fails, in the server or while a row is encoded |

### QueryStream and RowStream

`QueryStream` is `PqResultImpl` next to a server that runs at its own pace and a
bounded queue of messages between them. `pc` is the place in
`bind_row` / `step` / `fetch_rows`; `Step*` are the branches of `step_run()`.
Prepared, parameterised and immediate queries, several statements and several
parameter rows, interrupts at both places where the code checks for them.
`RowStream` is the promise: rows are made, given in order, the result ends as
complete or as failed. `RefinesRowStream` states that the step machine keeps it
(`given <- rowsOut`, `made <- produced`, `over <- Over`, `status <- Status`).

### Transactions

The server's side of a session (`db`: transaction, savepoints, what the session
sees, what is durable), R's flag, and `dbWriteTable()` statement by statement
(`stage`), with its two `on.exit()` calls (`Arm`, `ArmOwn`), of which the second
replaces the first. A statement either succeeds, is refused, fails, or is
executed by a backend that dies before the answer arrives (`AnswerLost`).
The table is the set of who has written rows to it. On a connection of
`Redshift()` (`redshift`) there are no savepoints: `dbWriteTable()` sets none and
has no handler inside a transaction of the user.

### Backend and Mailbox

What the backend keeps for a connection and the package does not. `setup` is the
place in `dbConnect()`: `Create`, `Guard` (the `on.exit()`), `SetDatestyle`,
`SetTimezone` with `check_tz()`, `TypeNames` in its `tryCatch()`; `ConnectFails`
and `Abandon` are what an error or an interrupt makes of each. `sess` holds the
settings, the LISTEN registration and the transaction of the backend, all of
which `OnNewBackend` (the `PQreset()` of `check_connection()`) replaces.

A notification is `held` by the backend while a transaction is open, then lies
in the `pipe`, and `libpq` puts it into `inbox` whenever it parses its input, in
whatever call. Messages of other kinds on the same socket count only as such
(`noise`): they end `select()`. `WaitForNotify` and `Selected` are the two rounds of
`wait_for_notify()`. Behind the rows of an open result nothing is parsed
(`Consumable`). `Mailbox` is the promise of `postgresWaitForNotify()`: what is
sent waits in order, is given out at most once, and only the loss of the backend
takes it away (`box <- Parsed \o held`, `got <- heard`, `up <- link`).

### WorkQueue

The work queue of `vignettes/work-queue.Rmd`, which composes what the other
modules describe one by one: notifications as Mailbox promises them,
`dbWithTransaction()` with its rollback, and the reconnection that forgets the
LISTENs. `pc[w]` is the place of a worker in `worker()`: listen, wait, take,
`BeginWork`, `SelectItem` (FOR UPDATE SKIP LOCKED), `Update`, `Commit`, or
`Rollback`; `Insert`, `NotifyItem` and `SendShutdown` are the client. `links`, `conns`
and `mails` are Backend's `link`, `conn` and `inbox`, one for each worker.
`LosesBackend` and `Killed` end a backend or a process at any step; `Commit`
includes the answer that is lost.

### Catalog

Permanent and temporary schemas, `search_path`, what is committed (`tables`) and
what the session sees (`view`), and the SQL of `tables.R` as operators:
`ExistsTable`, `ListFields`, `ListObjects`, `FindTempSchema`. `dbWriteTable()` is
again a sequence of statements, here for the names: other sessions may change
any table that is not locked between two of them. How a failed call is undone
is in Transactions, so here it is undone in one step.

### Quotes and Quoting

`Quotes` holds the functions on sequences of characters: `QuoteIdentifier` and
`QuoteString` as libpq's `PQescapeIdentifier` and `PQescapeLiteral` do it,
`QuoteRedshift` as `gsub()` does, the regular expression of
`dbUnquoteIdentifier()` as a reader that goes through the text with a mode
(`RegexReads`), and the lexer of the server (`ServerReads`, `StringReads`) as
others. `Quoting` sends names,
strings and names written as `SQL()` through them. `Values` uses `Quotes` for its
literals.

### DataFrame

The storages of each column, their capacity and fill, for one `dbFetch()`. A
value is the number of its row, so that a lost, repeated or shifted one shows.
The R vector is allocated with `Junk` in it, as `Rf_allocVector` leaves it.

### Values

A data frame goes into a table in one of three ways (`how`): as COPY lines
(`encode.cpp`), as literals of an INSERT (`dbQuoteLiteral`), or as the parameters
of `dbBind()` (`prepare_for_binding`). The server parses and stores it and sends
it back as text, which is converted by OID and given its class. Texts are
sequences of symbols (`Symbols`); a formatted number, date or time is one opaque
symbol with its fields. The server's COPY is a reader that goes through the data
symbol by symbol (`CopyReads`), as those of `Quotes` do; `OfClass` and `OfType` say
which values the columns of R and of the server have. `DaysFromCivil` is the code's
arithmetic, with C's division; it meets
a calendar that is written independently. `zone` is `conn@timezone`,
`serverZone` the session's, which differ after a reset.

## 3. Runs

| Run | Question | Outcome |
|---|---|---|
| `Session_outage` | two result addresses, dying backends, outages, late uses; with fairness | holds: ten properties, among them `RunsOwnStatement`, `NoSilentTruncation`, `NeverSpins`, `CallsReturn` |
| `Session_misuse` | COPY errors, binds of replaced results, calls on a busy connection, with a server that can be reached again | holds: `CurrentIsAllocated`, `NeverDangles` |
| `Session_dangling` | the same pointer, with an outage | `CurrentIsAllocated` violated, see 6.1 |
| `QueryStream_rows` | all kinds of queries, interrupts, errors; refinement and liveness | holds: `RowsInOrder`, `CompleteMeansAll`, `CountsAreExact`, `RefinesRowStream`, `CallsReturn`, `ClearReturns` |
| `Transactions_faults` | SQL errors, dying backends, interrupts, open results, on PostgreSQL and on Redshift | holds: `NoHiddenTransaction`, `DurableIsWhole`, `WrittenIsComplete`, `UndoneIsRestored` |
| `Transactions_cancelled` | results left open in a transaction | `CommitCommits` violated, see 6.2 |
| `Backend_mailbox` | `dbConnect()` failing anywhere; queries, transactions, open results and waits on a connection that is lost and reset; with fairness | holds: `ConnectIsWhole`, `RefinesMailbox`, `Heard` |
| `WorkQueue_crashes` | two workers, two items, backends and processes that die at any step; with fairness | holds: `OneAtATime`, `WrittenOnce`, `EveryItemIsDone`, `EveryWorkerStops` |
| `DataFrame_fetch` | every pattern of NULLs, every `n_max` | holds: `ColumnsAreFaithful`, `LimitBoundsMemory` |
| `Values_roundtrip` | every class of column, awkward texts, dates and zones, by COPY, INSERT and `dbBind()` | holds: `RoundTrip`, `ForeignIsFaithful` |
| `Catalog_names` | two calls of `dbWriteTable()`, shadowing, another session, resets | holds: `QueriesAgree`, `WrittenIsRead`, `ChangesAreAskedFor`, `TemporaryStaysOwn` |
| `Quoting_names` | names, strings and SQL over every special character | holds: `NameIsKept`, `NamesAgree`, `StringIsRead` |

Each property is stated with a comment in its module. Each has a mutant in
`PROJECT.json`: an operator next to the definition it replaces ("Mutant of ..."),
such as a dropped `is_active()`, a forgotten `RELEASE SAVEPOINT` or a capacity
that ignores the rows already stored, which makes TLC find a violation under the
same configuration.

Properties that leave something out say so, since the code fails there:

- `QueriesAgree` and `WrittenIsRead` exclude the names that `pg_catalog` has, and
  the former names on Redshift that several schemas of the path have;
  `TemporaryStaysOwn` excludes appends.
- `NamesAgree` excludes names that the server folds or cuts.
- `RoundTrip` excludes `Misread`: the literal of a time when the session's zone
  is not the connection's, and of a difftime of a day or more.
- `ClearReturns` excludes a bind of zero-length vectors.
- `DurableIsWhole` excludes `Unprotected`: on Redshift, a flag that says
  TRUE about a transaction that was lost with its session.
- `UndoneIsRestored` excludes a savepoint of the user's called `dbWriteTable`,
  and the wrong handler that an interrupt between the two `on.exit()` calls
  leaves.
- `EveryWorkerStops` excludes a worker that has lost its LISTENs with its backend.
- `ConnectIsWhole` and `Heard` hold until a loss of the backend has been reported
  to R, or discarded at one of the two places that do so.

The runs also fix what the code cannot bear: `QueryStream_rows` has no fetch
after an error (`FetchAfterError`), `Session_outage` no `stale_bind`, `busy_call`
or `copy_error`, `Catalog_names` resets only connections to PostgreSQL. Section 6
says what happens otherwise.

## 4. Bounds and fairness

- Session: two addresses (`Results`). An ownership fault needs a result, its
  replacement, and an address that is used again; with two addresses and
  unbounded reuse histories are as long as TLC needs. `MaxRows = 2` separates
  "no row", "the row read ahead is the last one" and "more to come".
  `Session_misuse` and `Session_dangling` use symmetry of the addresses; the run
  with liveness does not.
- QueryStream: two statements and two parameter rows have a first, a last and a
  boundary between them; `Window = 3` lets the server be behind, level or ahead;
  three rows of a statement against `n_max` of -1, 1 and 2; `CheckEvery = 2` in
  place of 1024. Two column lists and the empty one are what `cache.set()` can
  tell apart.
- Transactions: one name for the user's savepoints and two of them at a time give
  nested savepoints of one name; the savepoint of `dbWriteTable` may be among
  them. One table, since a call writes one. Both kinds of connections.
- Backend: three notifications are a first, a last and one between, so that a
  queue can be cut anywhere; zones that both sides know, that only the server
  knows, that nobody knows, and none.
- WorkQueue: two workers and two items for a race and its loser; two deaths, so
  that both workers, or one of them twice, lose a backend; two notifications may
  wait at a connection.
- DataFrame: `MinCapacity = 2` in place of 100 and up to seven rows make the
  storage spill twice (2, 4, 8); two columns, one of them of deferred type.
- Values: two rows and two text columns; dates around the ends of months, leap
  years, centuries and 400 years in 1600 to 9998 (and years 2 and 4 from other
  clients); times within 1904 to 2036, because TLC's integers have 32 bits;
  zones of -210 and 345 minutes, one behind UTC and both with odd minutes;
  `IntMax = 7` and `BigMax = 31` in place of 2^31 - 1 and 2^63 - 1, with the
  values on both sides of each.
- Catalog: two permanent and two temporary schemas, a name of the user's and one
  that `pg_catalog` has, a path with two schemas and an empty one; two calls, one
  change by another session, so that one call finds what the other one and
  somebody else left.
- Quoting: both quotes, backslash, dot, space, the letter that begins an escape
  string and its small form; names of up to three parts, names written as SQL of
  up to five characters (of up to three over all characters), and 3 in place of
  the 63 bytes that the server keeps.

Fairness. R's thread does not stop inside a call: `WF` on the constructor and COPY
steps of Session, on `Client` of QueryStream. The user, the garbage collector and
the environment owe nothing. The server ends a command once all its statements
are done or it has been cancelled; it may work on a statement for ever.
`CallsReturn` of QueryStream adds `WF_vars(Server)` as a premise, because a call
can only return if the server answers; `ClearReturns` does not, because that is
what cancelling is for. `Heard` is about a user who waits in a loop
(`WF_vars(WaitForNotify)`) and a backend that sends what it may send
(`WF_vars(Deliver)`); `select()` ends by its time-out (`WF_vars(Selected)`). In
WorkQueue each worker that lives takes its steps and its waits time out, since
`worker()` is a loop of such calls; clients, deaths and kills owe nothing.

## 5. Proofs

TLAPS proves the following for every value of the constants, under the named
assumptions of the modules (bounds are natural numbers, special values are
distinct from the others, faults are known ones) and what the last column says.
`DataFrame`, `Backend` and `Transactions` need nothing more. `WorkQueue`, whose
proofs stand at the end of `Backend_proofs`, assumes that there are finitely many
items, `Catalog` that the fields of a table are a sequence of strings;
`Quoting` that the special characters are different and no letters, that an Id has
one to three parts, and that `NA` and a refusal are not texts. `Values` assumes that
the columns hold values of their classes and types (`OfClass`, `OfType`), that
dates have years of four digits and times have them on every clock, that offsets
from UTC are less than a day, that the characters which COPY and the lexer treat
specially are among `Chars`, and that a refusal is not a text. These are the values
on which the formats of the code and of the server agree; section 6 lists others.

| Theorem | Property | Not covered |
|---|---|---|
| `Session_proofs.TypeCorrect` | `TypeOK` | |
| `Session_proofs.ConstructorIsAlone` | `Constructing`, an invariant of the proof | |
| `Session_proofs.StatementIsOwned` | `ActiveOwnsStatement` | |
| `Session_proofs.ConnectionIsFreed` | `ConnectionIsReleased` | |
| `Session_proofs.WireIsOwned` | `WireBelongsToCurrent` | `stale_bind` |
| `Session_proofs.OwnStatementOnly` | `RunsOwnStatement` | `stale_bind` |
| `Session_proofs.ReplacedForGood` | `InactiveIsFinal` | `stale_bind` |
| `Session_proofs.CurrentIsSafe` | `CurrentIsAllocated` | `outage` |
| `Session_proofs.NoUndefinedBehaviour` | `NeverDangles` | `outage`, `late_use` |
| `Session_proofs.FinishEnds` | `NeverSpins` | `busy_call`, `copy_error` |
| `Session_proofs.SendIsAccepted` | `SendFindsIdleWire` | all but `outage`, `late_use` |
| `Session_proofs.NothingIsCutOff` | `NoSilentTruncation` | all but `outage`, `late_use` |
| `QueryStream_proofs.RowsAreInOrder` | `RowsInOrder` | fetches after an error |
| `QueryStream_proofs.CompletionIsWhole` | `CompleteMeansAll` | fetches after an error |
| `QueryStream_proofs.CountsStayExact` | `CountsAreExact` | fetches after an error |
| `QueryStream_proofs.ResultIsRowStream` | `RefinesRowStream` | fetches after an error |
| `Transactions_proofs.FlagIsSafe` | `NoHiddenTransaction` | |
| `Transactions_proofs.WholeOrNothing` | `DurableIsWhole` | |
| `Transactions_proofs.WrittenMeansComplete` | `WrittenIsComplete` | |
| `Transactions_proofs.HandlersRestore` | `UndoneIsRestored` | |
| `Catalog_proofs.OnlyWhatIsAskedFor` | `ChangesAreAskedFor` | |
| `Catalog_proofs.WrittenTableIsRead` | `WrittenIsRead` | |
| `Catalog_proofs.OnlyOwnTemporary` | `TemporaryStaysOwn` | resets of connections to Redshift |
| `Catalog_proofs.CatalogQueriesAgree` | `QueriesAgree` | |
| `Backend_proofs.ConnectionIsWhole` | `ConnectIsWhole` | |
| `Backend_proofs.MailIsKept` | `RefinesMailbox` | |
| `Quoting_proofs.NameComesBack` | `NameIsKept` | |
| `Quoting_proofs.ReadersAgreeOnNames` | `NamesAgree` | |
| `Quoting_proofs.StringComesBack` | `StringIsRead` | |
| `Backend_proofs.ItemsAreOwned` | `OneAtATime` | |
| `Backend_proofs.ResultsAreWrittenOnce` | `WrittenOnce` | |
| `Values_proofs.FrameComesBack` | `RoundTrip` | |
| `Values_proofs.OthersAreRead` | `ForeignIsFaithful` | |
| `DataFrame_proofs.ColumnsAreRead` | `ColumnsAreFaithful` | |
| `DataFrame_proofs.MemoryIsBounded` | `LimitBoundsMemory` | |

`TypeCorrect` is proved in each of these modules but Quoting and Values, too
(`QueueTypeCorrect` for WorkQueue); in Values the types are part of `IInv`.

Session. None of the properties is inductive by itself, because R may run
finalizers in the middle of a constructor. `Constructing` says that at most one
result is under construction, that it is the current one as soon as
`set_current_result()` has returned, and that the statement it has prepared is
still its own when it is executed: a finalizer that runs meanwhile destroys
another, inactive result and touches neither the wire nor the statement. With the
types and `Constructing`, `ActiveOwnsStatement` is inductive (`Owner`). `Wire`
then says that outstanding rows belong to the current result: every way to become
current, or to stop being it, drains the wire first, except the swallowed
exception of `~DbResult`, for which the dangling address still stands for the
result. `OwnStatementOnly` needs both, one for binds and one for fetches.
`CurrentIsSafe` needs that the server can be reached, so that no clean-up throws.
`NothingIsCutOff` is the longest: `CopyIsTidy` (a COPY is on the wire only during
the call), `Orderly` (libpq is idle when a constructor sends), `FinishedIsSilent`
(nothing is on the wire of a freed connection), and `Told`, that an open result
that has shown no error still has its rows on the wire.

QueryStream. The invariant `Sound` says where the calls are (`Control`), how many
commands have been sent (`Commands`), and what lies between server and client
(`Wire`, `Order`, `RowsOfOne`). Its core is that the rows given out, those in the
frame, the one read ahead and those in the queue are together 1 to `produced`
(`Given`, `Coming`), that the columns of the cache, the frame and the row read
ahead agree (`Columns`), and that an end or a failure the server has reported is
still to be read (`Outcome`). `RowsInOrder` and `CompleteMeansAll` follow.
`CountsAreExact` needs `Counting` besides: `nrows_` lags behind the frame by one
row inside `step()`; what R will be told is reached from `affected` by the messages
in the queue, one partial sum after the other (`Leads`, which does without a fold);
and while R has seen no columns, no row has been read, so that an end with a count
of rows, which would be added to the affected ones, is still behind a row that
brings columns (`NoRowYet`). The
refinement is proved step by step: a step that gives R nothing leaves the abstract
state alone or makes a row or an end, and `fetch_rows` gives a row that was made.

Transactions. `Belief` says that the flag errs in one direction only; `Owning`
what the flag, `need_transaction` and the connection are at each stage of
`dbWriteTable()`; `Content` what the session of the server holds at each stage as
long as its backend lives: the table as it was, dropped, created or complete, in
a transaction, with the savepoint of `dbWriteTable` on top of the user's. When
the backend dies the next statement fails, since nobody resets the connection
before R has been told. So COMMIT finds either the complete table or no
transaction. That a savepoint of a name exists means that an innermost one does
(`Greatest`) is proved with the well-foundedness of finite sets. `Restoring` goes
on where `Content` ends, in the handlers of `on.exit()`: which of them is armed at
which stage (`Handlers`), that the savepoint of `dbWriteTable` remembers the table
as it was (`Seen`), and that in the handler either it is still there, on top of
the user's, or none of its name is (`Undoing`); the other handler finds that what
is durable is the table of before, or the complete one (`DurableKept`).

Catalog. `Resolves` says what a name means: the table in the first schema of the
path that has one. That there is a first one is proved with the well-foundedness
of the numbers (`Least`). What `dbWriteTable()` has changed is locked and is of the
name it was given (`Seeing`, `Asked`), and when it is done the table is the one
just created or one that was found (`Written`). `Created` needs that no temporary
table hides the new one: `exists_table()` has seen none, or `dbRemoveTable()` has
dropped it (`Uncovered`), and a schema of the path cannot come before its first
one, so that the name means the created table (`TargetIsRead`) although other
sessions go on. `Extended` says that the rows went into the first table of the
name, and that those in front of it were put there later, by others.
`TemporaryStaysOwn` needs `TempKnown`: what R remembers as its temporary schema is
the session's, or the alias `pg_temp`; it is here that a reset of a connection to
Redshift does harm. `QueriesAgree` holds in every state in which `pg_catalog` has
just its own tables. For `dbListFields()` it needs that the query, which joins the
columns of all schemas of the path and keeps those of the first rank, is left
with the columns of one schema (`FieldsAre`): a concatenation of sequences of
which only one has elements is that one (`FlattenOne`).

Backend. `Progress` says what each statement of `dbConnect()` has achieved and
`BadIsKnown` that, once R has the connection, libpq finds it broken only with an
error that is raised, or hidden where the package hides it. The refinement of
Mailbox (`MailIsKept`) needs only that a broken connection has no backend any
more (`Mail`): each step then moves notifications on from `held` by `pipe` to
`inbox`, which leaves their order alone (`Moved`), gives the first one out, or
loses a tail of them with the backend and all of them with a reset (`Lost`).

WorkQueue. `TaskIsItem`, `OneAtATime` and `WrittenOnce` are inductive together: a
row is updated only by the owner of its lock, and the lock goes with the
transaction, whether that ends or its backend dies.

DataFrame. `Filled` says that the storages of a column lie over the values it was
fed like tiles, one behind the other, with leading NULLs only counted, and that
what has been copied is their front; `Shape` that all columns have the same
number of rows. `LimitBoundsMemory` sums over a column's storages; with a limit
there are two at most (`Fits`), the second one with room for what was left of the
limit when the first value did not fit, so the sum needs no induction.

Quoting. These theorems are about what recursive functions compute for texts of
any length, so they rest on an induction over sequences, `AllSequences`: a set of
sequences that has the empty one, and with each sequence all that are longer by
one element, has them all; else there would be a shortest one that is missing.
The library's induction theorems take an operator as a parameter, which the
provers cannot instantiate; a set they can. With it a run of any reader exists
(`RunExists`), it is what `Reading` computes (`ServerRun`, `RegexRun`,
`StringRun`), and it goes on for a longer text where the shorter one has ended
(`RunAppend`). The proofs then follow the text: the doubled text grows with each
character by one or two (`DoubledGrows`), and a reader that is inside quotes reads
for each of them exactly this character (`NameIsInside`, `StringIsInside`), so a
quoted part is read whole (`PartIsRead`, `LiteralIsRead`). Over the parts of an Id
there is a second induction (`IdIsRead`): a blank part is refused at the dot
behind it, and what has been refused stays so (`BadStays`). For names written as
SQL the two readers go side by side (`SideBySide`): where the server does not
refuse, they are in the same mode with as many parts of the same lengths, and in
the same state if no letter has been folded.

Values. The invariant `IInv` says for each way into the table what has arrived and
what has been fetched. While COPY runs (`CopyInv`), the server's reader stands at
the beginning of a line, behind as many rows as have been sent, and each field it
has read is one that the input function turns into the value, or refuses
(`Arrived`). That a line is read as the row that was encoded (`RowIsRead`) takes two
inductions: over the symbols of a text, whose escapes the reader takes back one by
one (`FieldIsRead`), and over the fields of a row (`FieldsAreRead`), where
`NoMarker` is what matters: no escaped text is the marker of NULL or the end of the
data, since a backslash is doubled. In the table (`OwnInv`) each value is the one that was written, or one that a literal misreads,
and each fetched value is the one expected. For this the texts of each class come
back: a quoted string by `LiteralIsRead` of Quoting, of which `L` is an instance,
bytes in hexadecimal by an induction on their backslashes (`HexIsRead`), and dates
and times by the calendar. For the calendar each day of the years 1 to 9999 has a
year (`YearExists`, by the well-foundedness of the numbers) and a month
(`MonthExists`), so that formatting and parsing it are inverse (`DateIsDay`); that
`days_from_civil()`, which counts from March and by eras of 400 years, gives the
same number for it is `CivilIsDay`. `ClockComesBack` and `StampComesBack` add the
time of the day and the offset, whose sign is written once for hours and minutes.
`SeenIsFaithful` is what becomes of the values of other clients, `NA_INTEGER` and
integers that R has no room for among them.

Only model-checked: liveness (`CallsReturn`, `ClearReturns`, `Heard`,
`EveryItemIsDone`, `EveryWorkerStops`), which the provers cannot do. The findings of
section 6 are counterexamples of TLC. Every other property of a passing run is
stated by a theorem of the table.

## 6. Where the code and its documentation part

Findings with a violation run:

1. `Session_dangling`: `~DbResult` swallows what `cancel_query()` throws when the
   server cannot be reached; `pCurrentResult_` keeps the address of the destroyed
   object and the next query calls `complete()` on it.
2. `Transactions_cancelled`: clearing an unfinished result aborts the transaction
   silently; `dbCommit()` then rolls back and returns `TRUE`.

Met while modelling, and listed as hazards:

- Rows. `DbResult::bind()` does not check `is_active()`: with `stale_bind` TLC
  finds that binding a replaced result executes its successor's statement. With
  `busy_call`, `PQexec` of COPY or large objects discards the rows of an open
  result, which then completes without an error. With `FetchAfterError`, a fetch
  after a failed one hands over a row of NAs that nobody sent. `dbBind()` with
  zero-length vectors marks a running execution complete; clearing the result
  waits for it. The columns of queries without rows are never compared.
  `dbGetRowsAffected()` of mixed statements is 0.
- Connections. A result used after `dbDisconnect()` reaches libpq with a freed
  connection (`FetchLate`, `BindLate`). An encoding error leaves libpq in COPY
  mode, and the next `finish_query()` never ends; a COPY that fails in the server
  leaves its end unread.
- Lost backends. `finish_query()` discards the error that tells of the loss, and
  so does the `tryCatch()` around the type names; the next call reconnects.
  `transacting_` stays `TRUE`; the SETs of `dbConnect()`, the LISTENs and the
  temporary schema are gone, only the client encoding is part of the
  connection's parameters and comes back. A worker of the vignette that is
  reconnected by its own ROLLBACK is deaf: it never hears the shutdown and
  notifies at each time-out for ever.
- Notifications. Those already queued are not given once `PQconsumeInput()`
  fails. Any data on the socket ends `select()`, so `NULL` may come long before
  the time-out.
- Transactions. A COMMIT that fails on a deferred constraint ends the transaction
  and leaves the flag set. Interrupts between a statement and the assignment after
  it part flag and server (`dbBegin`, `dbCommit`), and leave the wrong `on.exit()`
  handler (`dbWriteTable`). On Redshift a flag that is `TRUE` without a
  transaction makes each statement of `dbWriteTable()` commit itself; PostgreSQL
  would refuse its savepoint.
- Names. `dbWriteTable(append = TRUE, temporary = TRUE)` appends to a permanent
  table. Names that `pg_catalog` has are not seen. `dbListFields()` on Redshift
  gives the columns of all tables of a name. On Redshift a temporary schema from
  before a reset is still dropped from. `SQL("Foo")` is looked up as `Foo` and
  read by the server as `foo`; names beyond 63 bytes are cut by the server only.
- Values. Money is read as 0; "infinity", "BC" and years beyond 9999 are misread;
  NaN is written as NULL. As a literal, a time has no offset and is read in the
  session's zone, a difftime of a day or more wraps, and `Inf` is the name of a
  column, which the server refuses.

## 7. What is left out

- The transfer of large objects (libpq's `lo_import` and `lo_export`): only their
  use of the wire is in Session.
- Information and show methods: formatting. The names of types, labels that
  nothing else reads; `timezone_out`, R's display only.
- Encodings, digits of floating-point numbers, fractions of seconds, daylight
  saving. Seconds of an offset.
- Warnings turned into errors (`options(warn = 2)`) inside a constructor, and R's
  allocation failures.
- Privileges in Catalog.
- The race of `PQcancel` with the end of a statement beyond "the cancel may come
  too late": it is in the server.
- Vendored Boost, build files, registration of entry points, factories.

## 8. Plan

Done, in this order: Session and its proofs, QueryStream with RowStream,
Transactions, DataFrame, Values, Catalog; then Backend with Mailbox, WorkQueue,
Quotes with Quoting, INSERT and `dbBind()` in Values, Redshift in Transactions,
the proofs of DataFrame, Transactions, Backend, WorkQueue, Catalog, Quoting and
QueryStream with its refinement and its counts; and last that of Values, with the
reader of COPY and the calendar.

Next: large objects, a transfer that is interrupted, inside and outside of a
transaction.
