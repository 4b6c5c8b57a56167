------------------------------ MODULE WorkQueue ------------------------------
(***************************************************************************)
(* The work queue of vignettes/work-queue.Rmd: workers in processes of     *)
(* their own, each with a connection that listens, and one table.  It puts *)
(* together what the other modules describe one by one: notifications as   *)
(* Mailbox promises them, dbWithTransaction() with its rollback, and the   *)
(* reconnection of check_connection(), which forgets the LISTENs.  links,  *)
(* conns and mails are what link, conn and inbox are in Backend, one for   *)
(* each worker.                                                            *)
(***************************************************************************)
EXTENDS Naturals, Sequences, FiniteSets

CONSTANTS
  Workers,   \* the processes that run worker()
  Items,     \* the rows that may be added to sqroot_vignette_example
  Shutdown,  \* a notification on sqroot_shutdown
  Nobody,    \* no worker, no item
  MaxMail,   \* bound on the notifications that wait at one connection
  MaxDeaths  \* bound on the backends that die

ASSUME WorkAssumption ==
  /\ IsFiniteSet(Items)
  /\ Shutdown \notin Items /\ Nobody \notin Workers
  /\ MaxMail \in Nat /\ MaxDeaths \in Nat

VARIABLES
  deaths,  \* backends that have died
  links,   \* links[w]: the backend of w lives
  conns,   \* conns[w]: PQstatus, "finished" after dbDisconnect()
  ear,     \* ear[w]: the channels that the backend of w listens to
  mails,   \* mails[w]: notifications that w has not been given
  pc,      \* pc[w]: where w is
  task,    \* task[w]: in_val
  out,     \* out[i]: "absent", "todo" while out_val IS NULL, "done"
  lock,    \* lock[i]: whose transaction has locked the row
  writes,  \* writes[i]: how often a result was committed
  notified,\* the items that the client has notified of
  called   \* the workers that listened when the shutdown was sent

session == <<links, conns, ear, mails>>
table == <<out, lock, writes>>
client == <<notified, called>>
queueVars == <<deaths, session, pc, task, table, client>>

Channels == {"sqroot", "sqroot_shutdown"}

QueueTypeOK ==
  /\ deaths \in 0..MaxDeaths
  /\ links \in [Workers -> BOOLEAN]
  /\ conns \in [Workers -> {"ok", "bad", "finished"}]
  /\ ear \in [Workers -> SUBSET Channels]
  /\ mails \in [Workers -> Seq(Items \cup {Shutdown})]
  /\ pc \in [Workers -> {"start", "listening", "waiting", "taken", "begun", "locked",
                         "updated", "missed", "failing", "ended"}]
  /\ task \in [Workers -> Items \cup {Nobody}]
  /\ out \in [Items -> {"absent", "todo", "done"}]
  /\ lock \in [Items -> Workers \cup {Nobody}]
  /\ writes \in [Items -> Nat]
  /\ notified \subseteq Items /\ called \subseteq Workers

QueueInit ==
  /\ deaths = 0
  /\ links = [w \in Workers |-> TRUE] /\ conns = [w \in Workers |-> "ok"]
  /\ ear = [w \in Workers |-> {}] /\ mails = [w \in Workers |-> <<>>]
  /\ pc = [w \in Workers |-> "start"] /\ task = [w \in Workers |-> Nobody]
  /\ out = [i \in Items |-> "absent"] /\ lock = [i \in Items |-> Nobody]
  /\ writes = [i \in Items |-> 0]
  /\ notified = {} /\ called = {}

-----------------------------------------------------------------------------
(* The server.                                                             *)

Listens(w, channel) == channel \in ear[w]
Todo == {i \in Items : out[i] = "todo"}

\* The orders in which one query notifies of the items of S.
Orders(S) == {s \in [1..Cardinality(S) -> S] : \A x \in S : \E k \in DOMAIN s : s[k] = x}

\* Notifications of s, to everybody who listens to the channel.
Send(channel, s) ==
  /\ \A w \in Workers : Len(mails[w]) + Len(s) <= MaxMail
  /\ mails' = [w \in Workers |-> IF Listens(w, channel) THEN mails[w] \o s ELSE mails[w]]

\* The transaction of w ends, and with it its locks.
Unlocked(w) == [i \in Items |-> IF lock[i] = w THEN Nobody ELSE lock[i]]

-----------------------------------------------------------------------------
(* worker()                                                                *)

\* in_val is of no use after the transaction.
Goto(w, place) == pc' = [pc EXCEPT ![w] = place]
Back(w) == Goto(w, "waiting") /\ task' = [task EXCEPT ![w] = Nobody]

\* An error that worker() does not catch, or the shutdown: dbDisconnect().
Leave(w) ==
  /\ Goto(w, "ended")
  /\ links' = [links EXCEPT ![w] = FALSE] /\ conns' = [conns EXCEPT ![w] = "finished"]
  /\ ear' = [ear EXCEPT ![w] = {}] /\ mails' = [mails EXCEPT ![w] = <<>>]

\* The statement meets a dead backend.
Fails(w) ==
  /\ ~links[w] /\ conns' = [conns EXCEPT ![w] = "bad"]
  /\ UNCHANGED <<links, ear, mails, table>>

\* In the transaction: dbWithTransaction() goes on with the rollback.
FailsWithin(w) == Fails(w) /\ Goto(w, "failing") /\ UNCHANGED task

ListenTo(w, channel) ==
  \/ /\ links[w] /\ ear' = [ear EXCEPT ![w] = @ \cup {channel}]
     /\ Goto(w, IF channel = "sqroot" THEN "listening" ELSE "waiting")
     /\ UNCHANGED <<links, conns, mails, task, table>>
  \/ ~links[w] /\ Leave(w) /\ UNCHANGED <<task, table>>

StartListening(w) ==
  \/ pc[w] = "start" /\ ListenTo(w, "sqroot")
  \/ pc[w] = "listening" /\ ListenTo(w, "sqroot_shutdown")

\* postgresWaitForNotify() gives a notification.
Take(w) ==
  /\ pc[w] = "waiting" /\ conns[w] = "ok" /\ mails[w] # <<>>
  /\ IF Head(mails[w]) = Shutdown
     THEN Leave(w) /\ UNCHANGED <<task, table>>
     ELSE /\ task' = [task EXCEPT ![w] = Head(mails[w])]
          /\ mails' = [mails EXCEPT ![w] = Tail(@)]
          /\ Goto(w, "taken") /\ UNCHANGED <<links, conns, ear, table>>

\* Mutant of WaitFails: the error is caught and the worker waits again.
WaitsAgain(w) ==
  /\ pc[w] = "waiting" /\ (conns[w] = "bad" \/ ~links[w])
  /\ UNCHANGED <<session, pc, task, table>>

\* It finds the connection broken, and the error is not caught.
WaitFails(w) ==
  /\ pc[w] = "waiting" /\ (conns[w] = "bad" \/ ~links[w])
  /\ Leave(w) /\ UNCHANGED <<task, table>>

\* Mutant of TimedOut: nothing is sent after a NULL.
TimedOutIdle(w) == pc[w] = "waiting" /\ UNCHANGED <<session, pc, task, table>>

\* It gives NULL: everybody is notified of the items that are left.
TimedOut(w) ==
  /\ pc[w] = "waiting" /\ conns[w] = "ok" /\ links[w]
  /\ \E s \in Orders(Todo) : Send("sqroot", s)
  /\ UNCHANGED <<links, conns, ear, pc, task, table>>

\* dbBegin(): its error is caught without a rollback.
BeginWork(w) ==
  /\ pc[w] = "taken"
  /\ \/ links[w] /\ Goto(w, "begun") /\ UNCHANGED <<session, task, table>>
     \/ Fails(w) /\ Back(w)

\* Mutant of Available: without WHERE out_val IS NULL.
AvailableAnyway(i) == out[i] # "absent" /\ lock[i] = Nobody

\* Mutant of Available: without FOR UPDATE SKIP LOCKED.
AvailableLocked(i) == out[i] = "todo"

\* WHERE out_val IS NULL AND in_val = $1 FOR UPDATE SKIP LOCKED
Available(i) == out[i] = "todo" /\ lock[i] = Nobody

SelectItem(w) ==
  /\ pc[w] = "begun"
  /\ \/ /\ links[w] /\ Available(task[w])
        /\ lock' = [lock EXCEPT ![task[w]] = w] /\ Goto(w, "locked")
        /\ UNCHANGED <<session, task, out, writes>>
     \/ /\ links[w] /\ ~Available(task[w])
        /\ Goto(w, "missed") /\ UNCHANGED <<session, task, table>>
     \/ FailsWithin(w)

\* The UPDATE, after the work is done.
Update(w) ==
  /\ pc[w] = "locked"
  /\ \/ links[w] /\ Goto(w, "updated") /\ UNCHANGED <<session, task, table>>
     \/ FailsWithin(w)

Committed(w) ==
  /\ links[w] /\ lock' = Unlocked(w)
  /\ IF pc[w] = "updated"
     THEN /\ out' = [out EXCEPT ![task[w]] = "done"]
          /\ writes' = [writes EXCEPT ![task[w]] = @ + 1]
     ELSE UNCHANGED <<out, writes>>

\* dbCommit(); the answer is lost when the backend dies right after it.
Commit(w) ==
  /\ pc[w] \in {"updated", "missed"}
  /\ \/ Committed(w) /\ Back(w) /\ UNCHANGED <<session, deaths>>
     \/ /\ Committed(w) /\ deaths < MaxDeaths /\ deaths' = deaths + 1
        /\ links' = [links EXCEPT ![w] = FALSE] /\ ear' = [ear EXCEPT ![w] = {}]
        /\ conns' = [conns EXCEPT ![w] = "bad"]
        /\ Goto(w, "failing") /\ UNCHANGED <<mails, task>>
     \/ FailsWithin(w) /\ UNCHANGED deaths

\* dbWithTransaction() rolls back: check_connection() resets a broken
\* connection, and the new session listens to nothing.  When the server cannot
\* be reached, that error is caught like the first one.
Rollback(w) ==
  /\ pc[w] = "failing" /\ Back(w)
  /\ \/ /\ links' = [links EXCEPT ![w] = TRUE] /\ conns' = [conns EXCEPT ![w] = "ok"]
        /\ ear' = [ear EXCEPT ![w] = {}] /\ mails' = [mails EXCEPT ![w] = <<>>]
     \/ UNCHANGED session
  /\ UNCHANGED table

-----------------------------------------------------------------------------
(* The client that adds work, and everybody's bad luck.                    *)

\* add_sqroot(): INSERT and pg_notify() are two statements.
Insert(i) ==
  /\ out[i] = "absent" /\ out' = [out EXCEPT ![i] = "todo"]
  /\ UNCHANGED <<session, pc, task, lock, writes, client>>

NotifyItem(i) ==
  /\ out[i] # "absent" /\ i \notin notified
  /\ Send("sqroot", <<i>>) /\ notified' = notified \cup {i}
  /\ UNCHANGED <<links, conns, ear, pc, task, table, called>>

\* NOTIFY sqroot_shutdown
SendShutdown ==
  /\ called = {} /\ called' = {w \in Workers : Listens(w, "sqroot_shutdown")}
  /\ Send("sqroot_shutdown", <<Shutdown>>)
  /\ UNCHANGED <<links, conns, ear, pc, task, table, notified>>

\* The backend dies: its transaction is undone and its locks are gone.
LosesBackend(w) ==
  /\ links[w] /\ deaths < MaxDeaths /\ deaths' = deaths + 1
  /\ links' = [links EXCEPT ![w] = FALSE] /\ ear' = [ear EXCEPT ![w] = {}]
  /\ lock' = Unlocked(w)
  /\ UNCHANGED <<conns, mails, pc, task, out, writes, client>>

\* The process of the worker is killed.
Killed(w) ==
  /\ pc[w] # "ended" /\ deaths < MaxDeaths /\ deaths' = deaths + 1
  /\ Leave(w) /\ lock' = Unlocked(w)
  /\ UNCHANGED <<task, out, writes, client>>

Working(w) == BeginWork(w) \/ SelectItem(w) \/ Update(w) \/ Rollback(w)
Step(w) ==
  /\ \/ (StartListening(w) \/ Take(w) \/ WaitFails(w) \/ Working(w)) /\ UNCHANGED deaths
     \/ Commit(w)
  /\ UNCHANGED client
Renotify(w) == TimedOut(w) /\ UNCHANGED <<deaths, client>>

Client ==
  /\ (\E i \in Items : Insert(i) \/ NotifyItem(i)) \/ SendShutdown
  /\ UNCHANGED deaths

QueueNext ==
  \/ \E w \in Workers : Step(w) \/ Renotify(w) \/ LosesBackend(w) \/ Killed(w)
  \/ Client

\* Each worker runs, and a wait without a notification times out.
WorkersGoOn == \A w \in Workers : WF_queueVars(Step(w)) /\ WF_queueVars(Renotify(w))

QueueSpec == QueueInit /\ [][QueueNext]_queueVars /\ WorkersGoOn

-----------------------------------------------------------------------------
(* What the queue is for.                                                  *)

\* No two workers work on an item in transactions that could both commit, and
\* the one that does has the row locked.
OneAtATime ==
  \A w \in Workers :
    links[w] /\ pc[w] \in {"locked", "updated"} => lock[task[w]] = w /\ out[task[w]] = "todo"

\* An item is computed once: whatever notifications are repeated, backends die
\* or answers to COMMIT are lost, no result is written over another.
WrittenOnce == \A i \in Items : writes[i] = IF out[i] = "done" THEN 1 ELSE 0

\* An item gets done even if the client died before its notification or the
\* worker that had it died with it, as long as one worker goes on listening.
EveryItemIsDone ==
  \A w \in Workers, i \in Items :
    <>[](Listens(w, "sqroot")) => (out[i] = "todo" ~> out[i] = "done")

\* A worker that listened when the shutdown was sent stops, unless it has lost
\* its registration with a backend: that one waits and notifies for ever.
EveryWorkerStops ==
  \A w \in Workers : w \in called ~> (pc[w] = "ended" \/ (links[w] /\ ear[w] = {}))

=============================================================================
