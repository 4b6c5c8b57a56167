------------------------- MODULE Transactions_proofs -------------------------
(***************************************************************************)
(* What R believes about a transaction, and what dbWriteTable() writes,    *)
(* for any names, any depth of savepoints and any faults.                  *)
(*                                                                         *)
(* Belief says that the flag of R errs in one direction only.  Content     *)
(* says, for each stage of dbWriteTable(), what the session of the server  *)
(* holds as long as the backend that has executed its first statement      *)
(* lives; when that backend dies, the next statement fails, since nobody   *)
(* resets the connection before an error has told R of it.                 *)
(***************************************************************************)
EXTENDS Transactions, SequenceTheorems, FiniteSetTheorems, WellFoundedInduction, TLAPS

\* Where each method may be.
Control ==
  /\ conn = "bad" => ~link
  /\ pc = "begun" => stage \in {"none", "begin"} /\ conn = "ok"
  /\ pc = "committed" => stage \in {"none", "commit"}
  /\ pc \in {"rolled_back", "release"} => stage \in {"none", "exit"}

Belief ==
  /\ ~flag /\ ~torn /\ pc \in {"R", "release"} => db.tx = "idle"
  /\ pc \in {"committed", "rolled_back"} => db.tx = "idle"
  /\ ~link => db.tx = "idle"

\* Savepoints live in transactions.
Nested(D) == D.tx = "idle" => D.saves = <<>>
SavesNested == Nested(db) /\ Nested(before.db)

Armed == {"arm", "arm_own", "table", "create", "append", "release"}

\* own, transacting_ and the connection, by stage.
Owning ==
  /\ stage \notin {"none", "exit"} => own = ~before.flag
  /\ stage = "begin" => own /\ ~flag
  /\ stage \in {"savepoint", "commit"} \cup Armed => flag
  /\ stage = "commit" => own
  /\ stage = "disarm" => flag = before.flag
  /\ stage \in {"commit", "disarm"} \cup Armed /\ ~Unprotected => conn = "ok"
  /\ stage = "savepoint" /\ own => conn = "ok"
  /\ redshift => stage \notin {"savepoint", "arm", "release"}

Base == IF job.how = "overwrite" \/ before.db.work = Absent THEN {} ELSE before.db.work

WorkDue ==
  /\ stage \in {"begin", "savepoint", "arm", "arm_own", "table"} => db.work = before.db.work
  /\ stage = "create" => db.work = Absent /\ Base = {}
  /\ stage = "append" => db.work = Base /\ Base # Absent
  /\ stage \in {"release", "commit", "disarm"} => db.work = Complete

\* The savepoint of dbWriteTable() is the innermost one.
OnTop == db.saves # <<>> /\ db.saves[Len(db.saves)].name = Writer
Outer(D) == SubSeq(D.saves, 1, Len(D.saves) - 1)

SavesDue ==
  /\ stage \in {"begin", "savepoint"} /\ ~own => db = before.db
  /\ stage = "begin" /\ pc = "begun" => db.tx = "open" /\ ~open
  /\ stage \in Armed => db.tx # "idle" /\ (own => db.tx = "open" /\ ~open)
  /\ stage \in Armed /\ ~own /\ redshift => db.tx = before.db.tx /\ db.saves = before.db.saves
  /\ stage \in Armed /\ ~own /\ ~redshift =>
       db.tx = "open" /\ before.db.tx = "open" /\ OnTop /\ Outer(db) = before.db.saves
  /\ stage = "commit" /\ pc = "R" => db.tx = "open" /\ ~open
  /\ stage = "disarm" /\ own => db.tx = "idle"
  /\ stage = "commit" /\ pc = "committed" => db.tx = "idle"
  /\ stage = "disarm" /\ ~own => db.tx = before.db.tx /\ db.saves = before.db.saves

Content == (link \/ conn = "bad") /\ ~Unprotected => WorkDue /\ SavesDue

Sound == TypeOK /\ Control /\ Belief /\ SavesNested /\ Owning /\ Content

-----------------------------------------------------------------------------
(* Savepoints.                                                             *)

\* A nonempty set of positions has a greatest element: among the intervals
\* behind its elements, one has no other one inside.
LEMMA Greatest ==
  ASSUME NEW n \in Nat, NEW S \in SUBSET (1..n), S # {}
  PROVE  \E i \in S : \A j \in S : j <= i
<1> DEFINE After(i) == (i + 1)..n
           T == {After(i) : i \in S}
<1>1. IsFiniteSet(1..n)
  BY FS_Interval
<1>2. IsWellFoundedOn(StrictSubsetOrdering(1..n), SUBSET (1..n))
  BY <1>1, FS_FiniteSubsetsOfFinite, FS_StrictSubsetOrderingWellFounded
<1>3. T \subseteq SUBSET (1..n) /\ T # {}
  <2>1. \A i \in S : After(i) \subseteq 1..n
    OBVIOUS
  <2> HIDE DEF After
  <2> QED
    BY <2>1
<1>4. PICK x \in T : \A y \in T : <<y, x>> \notin StrictSubsetOrdering(1..n)
  <2> HIDE DEF T
  <2> QED
    BY <1>2, <1>3, WFMin
<1>5. PICK i \in S : x = After(i)
  BY <1>4
<1>6. ASSUME NEW j \in S, ~(j <= i) PROVE FALSE
  <2>1. After(j) \subseteq After(i) /\ j \in After(i) /\ j \notin After(j)
    BY <1>6
  <2>2. <<After(j), x>> \in StrictSubsetOrdering(1..n)
    BY <1>5, <2>1 DEF StrictSubsetOrdering
  <2> QED
    BY <1>4, <2>2
<1> QED
  BY <1>6

LEMMA InnermostType ==
  ASSUME NEW D \in Databases, NEW m, HasSavepoint(D, m)
  PROVE  /\ Innermost(D, m) \in 1..Len(D.saves) /\ D.saves[Innermost(D, m)].name = m
         /\ \A j \in 1..Len(D.saves) : D.saves[j].name = m => j <= Innermost(D, m)
<1> DEFINE at == {i \in DOMAIN D.saves : D.saves[i].name = m}
<1>1. D.saves \in Seq(Marks) /\ Len(D.saves) \in Nat /\ DOMAIN D.saves = 1..Len(D.saves)
  BY DEF Databases
<1>2. at # {} /\ at \in SUBSET (1..Len(D.saves))
  BY <1>1 DEF HasSavepoint, Innermost
<1>3. \E i \in at : \A j \in at : j <= i
  BY <1>1, <1>2, Greatest
<1>4. Innermost(D, m) = CHOOSE i \in at : \A j \in at : j <= i
  BY <1>2 DEF Innermost
<1>5. Innermost(D, m) \in at /\ \A j \in at : j <= Innermost(D, m)
  BY <1>3, <1>4
<1> QED
  BY <1>1, <1>5

-----------------------------------------------------------------------------
(* The server: every statement leads from database to database.            *)

LEMMA Ending ==
  ASSUME NEW D \in Databases
  PROVE  /\ Rollback(D) \in Databases /\ Rollback(D).tx = "idle" /\ Nested(Rollback(D))
         /\ Rollback(D).durable = D.durable
         /\ Commit(D) \in Databases /\ Commit(D).tx = "idle" /\ Nested(Commit(D))
         /\ Commit(D).durable = IF D.tx = "open" THEN D.work ELSE D.durable
         /\ D.tx = "open" => Commit(D).work = D.work
  BY DEF Databases, Rollback, Commit, Nested

LEMMA Beginning ==
  ASSUME NEW D \in Databases
  PROVE  /\ Begin(D) \in Databases /\ Begin(D).tx = "open" /\ Nested(Begin(D))
         /\ Begin(D).durable = D.durable /\ Begin(D).work = D.work
  BY DEF Databases, Begin, Nested

LEMMA Aborting ==
  ASSUME NEW D \in Databases, Nested(D)
  PROVE  /\ Abort(D) \in Databases /\ Nested(Abort(D))
         /\ (Abort(D).tx = "idle" <=> D.tx = "idle") /\ Abort(D).tx # "open"
         /\ Abort(D).durable = D.durable /\ Abort(D).work = D.work
  BY DEF Databases, Abort, Nested

LEMMA Writes ==
  ASSUME NEW D \in Databases, Nested(D), NEW t \in Tables
  PROVE  /\ Write(D, t) \in Databases /\ Nested(Write(D, t))
         /\ Write(D, t).tx = D.tx /\ Write(D, t).saves = D.saves /\ Write(D, t).work = t
         /\ D.tx # "idle" => Write(D, t).durable = D.durable
  BY DEF Databases, Write, Nested

LEMMA Saving ==
  ASSUME NEW D \in Databases, D.tx = "open", NEW n \in Names \cup {Writer}
  PROVE  /\ Savepoint(D, n) \in Databases /\ Nested(Savepoint(D, n))
         /\ Savepoint(D, n).tx = "open"
         /\ Savepoint(D, n).work = D.work /\ Savepoint(D, n).durable = D.durable
         /\ Savepoint(D, n).saves # <<>> /\ Outer(Savepoint(D, n)) = D.saves
         /\ Savepoint(D, n).saves[Len(Savepoint(D, n).saves)].name = n
         /\ Savepoint(D, n).saves[Len(Savepoint(D, n).saves)].seen = D.work
<1> DEFINE e == [name |-> n, seen |-> D.work]
           s == Append(D.saves, e)
<1>1. e \in Marks /\ D.saves \in Seq(Marks)
  BY DEF Databases, Marks
<1>2. s \in Seq(Marks) /\ Len(s) = Len(D.saves) + 1 /\ s[Len(s)] = e /\ s # <<>>
  BY <1>1
<1>3. SubSeq(s, 1, Len(s) - 1) = D.saves
  BY <1>1, AppendProperties, Z3
<1>4. Savepoint(D, n) = [D EXCEPT !.saves = s]
  BY DEF Savepoint
<1> HIDE DEF s
<1> QED
  BY <1>2, <1>3, <1>4 DEF Databases, Nested, Outer

LEMMA Prefix ==
  ASSUME NEW D \in Databases, NEW k \in Int, k <= Len(D.saves)
  PROVE  SubSeq(D.saves, 1, k) \in Seq(Marks)
<1>1. D.saves \in Seq(Marks) /\ \A i \in 1..k : D.saves[i] \in Marks
  BY DEF Databases
<1> QED
  BY <1>1, SubSeqProperties

LEMMA Releasing ==
  ASSUME NEW D \in Databases, D.tx # "idle", NEW n \in Names \cup {Writer},
         HasSavepoint(D, n)
  PROVE  /\ Release(D, n) \in Databases /\ Nested(Release(D, n))
         /\ Release(D, n).tx = D.tx
         /\ Release(D, n).work = D.work /\ Release(D, n).durable = D.durable
         /\ D.saves[Len(D.saves)].name = n => Release(D, n).saves = Outer(D)
<1> DEFINE i == Innermost(D, n)
           s == SubSeq(D.saves, 1, i - 1)
<1>1. i \in 1..Len(D.saves) /\ Len(D.saves) \in Nat
      /\ \A j \in 1..Len(D.saves) : D.saves[j].name = n => j <= i
  BY InnermostType DEF Databases
<1>2. s \in Seq(Marks)
  BY <1>1, Prefix
<1>3. D.saves[Len(D.saves)].name = n => s = Outer(D)
  BY <1>1 DEF Outer
<1>4. Release(D, n) = [D EXCEPT !.saves = s]
  BY DEF Release
<1> HIDE DEF s
<1> QED
  BY <1>2, <1>3, <1>4 DEF Databases, Nested

LEMMA RollingBack ==
  ASSUME NEW D \in Databases, NEW n \in Names \cup {Writer}, HasSavepoint(D, n)
  PROVE  /\ RollbackTo(D, n) \in Databases /\ Nested(RollbackTo(D, n))
         /\ RollbackTo(D, n).tx = "open" /\ RollbackTo(D, n).durable = D.durable
<1> DEFINE i == Innermost(D, n)
           s == SubSeq(D.saves, 1, i)
           t == D.saves[i].seen
<1>1. i \in 1..Len(D.saves) /\ Len(D.saves) \in Nat /\ D.saves \in Seq(Marks)
  BY InnermostType DEF Databases
<1>2. s \in Seq(Marks) /\ t \in Tables
  BY <1>1, Prefix DEF Marks
<1>3. RollbackTo(D, n) = [D EXCEPT !.tx = "open", !.work = t, !.saves = s]
  BY DEF RollbackTo
<1> HIDE DEF s, t
<1> QED
  BY <1>2, <1>3 DEF Databases, Nested

\* The session that a statement finds is the one R left, but for a cancelled
\* result, which aborts a transaction.
LEMMA SessionsType ==
  ASSUME db \in Databases, Nested(db), NEW D \in Sessions
  PROVE  /\ D \in Databases /\ Nested(D)
         /\ (D.tx = "idle" <=> db.tx = "idle")
         /\ D.work = db.work /\ D.durable = db.durable
         /\ D.tx = "open" => D = db
  BY Aborting DEF Sessions

-----------------------------------------------------------------------------
(* Control returns to R.                                                   *)

\* A step that changes the session, the connection and the stage alone.
LEMMA TypeKept ==
  ASSUME TypeOK, db' \in Databases, link' \in BOOLEAN, conn' \in {"ok", "bad"},
         open' \in BOOLEAN, stage' \in Stages,
         UNCHANGED <<redshift, flag, pc, name, own, handler, job, before, ended, warned, torn>>
  PROVE  TypeOK'
  BY DEF TypeOK

\* Outside dbWriteTable(), or in its handlers, nothing is due.
LEMMA Outside ==
  ASSUME Sound, TypeOK', Control', Belief', Nested(db'), stage' \in {"none", "exit"},
         UNCHANGED before \/ before' = NoCall
  PROVE  Sound'
<1>1. SavesNested'
  BY DEF SavesNested, Sound, NoCall, Nested
<1>2. Owning' /\ Content'
  BY DEF Owning, Content, WorkDue, SavesDue, Armed
<1> QED
  BY <1>1, <1>2 DEF Sound

LEMMA LocalsType ==
  ASSUME TypeOK, Locals
  PROVE  /\ name' \in Names \cup {Writer} /\ own' \in BOOLEAN /\ job' \in Jobs
         /\ handler' \in {"none", "savepoint", "transaction"}
         /\ before' \in [db : Databases, flag : BOOLEAN]
         /\ before' = before \/ before' = NoCall
<1>1. NoCall \in [db : Databases, flag : BOOLEAN] /\ NoJob \in Jobs
  BY DEF NoCall, NoJob, Databases, Tables, Jobs
<1> QED
  BY <1>1 DEF TypeOK, Locals

LEMMA SoundRaise ==
  ASSUME Sound, Raise, db' \in Databases, Nested(db'),
         ~flag /\ ~torn' => db'.tx = "idle", ~link' => db'.tx = "idle",
         link' \in BOOLEAN, conn' \in {"ok", "bad"}, conn' = "bad" => ~link',
         open' \in BOOLEAN, torn' \in BOOLEAN
  PROVE  Sound'
<1>1. stage' \in {"none", "exit"} /\ pc' = "R" /\ flag' = flag
  BY DEF Raise, AfterError
<1>2. TypeOK'
  BY <1>1, LocalsType DEF Raise, Sound, TypeOK, Stages
<1>3. Control' /\ Belief'
  BY <1>1 DEF Control, Belief
<1> QED
  BY <1>1, <1>2, <1>3, Outside, LocalsType DEF Raise, Sound

LEMMA SoundRefuses ==
  ASSUME Sound, NEW ok \in BOOLEAN, NEW mayFail \in BOOLEAN, NEW E \in Databases,
         Refuses(ok, mayFail, E), Nested(E), ~flag /\ ~torn => E.tx = "idle"
  PROVE  Sound'
  BY SoundRaise DEF Refuses, Sound, TypeOK

LEMMA SoundAnswerLost ==
  ASSUME Sound, NEW ok \in BOOLEAN, NEW E \in Databases, AnswerLost(ok, E)
  PROVE  Sound'
  BY Ending, SoundRaise DEF AnswerLost, Sound, TypeOK

\* What is left of a connection by a statement that succeeds.
LEMMA SucceedsType ==
  ASSUME Sound, NEW E \in Databases, Succeeds(E)
  PROVE  /\ db' = E /\ conn' = "ok" /\ link' = TRUE /\ link = TRUE /\ conn = "ok"
         /\ open' = FALSE /\ warned' = warned /\ torn' = torn /\ redshift' = redshift
         /\ Control' <=> /\ pc' = "begun" => stage' \in {"none", "begin"}
                         /\ pc' = "committed" => stage' \in {"none", "commit"}
                         /\ pc' \in {"rolled_back", "release"} => stage' \in {"none", "exit"}
  BY DEF Succeeds, Control, Sound, TypeOK

\* It leaves the variables of the call alone, but for pc and name.
LEMMA SucceedsTypeOK ==
  ASSUME Sound, NEW E \in Databases, Succeeds(E),
         pc' \in {"R", "begun", "committed", "rolled_back", "release"},
         name' \in Names \cup {Writer},
         UNCHANGED <<flag, stage, own, handler, job, before, ended>>
  PROVE  TypeOK'
<1>1. /\ db' = E /\ conn' = "ok" /\ link' = TRUE /\ open' = FALSE
      /\ warned' = warned /\ torn' = torn /\ redshift' = redshift
  BY SucceedsType
<1>2. TypeOK
  BY DEF Sound
<1> QED
  BY <1>1, <1>2 DEF TypeOK

-----------------------------------------------------------------------------
(* dbBegin(), dbCommit() and dbRollback()                                  *)

LEMMA SoundBegin ==
  ASSUME Sound, BeginTransaction
  PROVE  Sound'
<1>1. PICK D \in Sessions :
       \/ /\ InForce(D) /\ Succeeds(Begin(D))
          /\ pc' = "begun"
          /\ UNCHANGED <<flag, name, stage, own, handler, job, before, ended>>
       \/ Refuses(InForce(D), FALSE, D)
       \/ AnswerLost(InForce(D), Begin(D))
  BY DEF BeginTransaction
<1>2. D \in Databases /\ Nested(D) /\ (D.tx = "idle" <=> db.tx = "idle") /\ D.work = db.work
  BY SessionsType DEF Sound, TypeOK, SavesNested
<1>3. pc = "R" /\ stage \in {"none", "begin"} /\ ~flag
  BY DEF BeginTransaction, Called
<1>4. InForce(D) \in BOOLEAN
  BY DEF InForce
<1>5. CASE Succeeds(Begin(D)) /\ pc' = "begun"
           /\ UNCHANGED <<flag, name, stage, own, handler, job, before, ended>>
  <2>1. Begin(D) \in Databases /\ Begin(D).tx = "open" /\ Nested(Begin(D)) /\ Begin(D).work = D.work
    BY <1>2, Beginning
  <2>2. TypeOK' /\ Control'
    <3>1. name \in Names \cup {Writer} /\ pc \in {"R", "begun", "committed", "rolled_back", "release"}
      BY DEF Sound, TypeOK
    <3>2. TypeOK'
      BY <1>3, <1>5, <2>1, <3>1, SucceedsTypeOK
    <3>3. Control'
      BY <1>3, <1>5, <2>1, SucceedsType
    <3> QED
      BY <3>2, <3>3
  <2>3. Belief' /\ SavesNested'
    BY <1>5, <2>1, SucceedsType DEF Sound, Belief, SavesNested
  <2>4. Owning'
    BY <1>3, <1>5, <2>1, SucceedsType DEF Sound, Owning, Armed
  <2>5. Content'
    BY <1>2, <1>3, <1>5, <2>1, SucceedsType
       DEF Sound, Content, WorkDue, SavesDue, Armed, Owning, Unprotected
  <2> QED
    BY <2>2, <2>3, <2>4, <2>5 DEF Sound
<1>6. CASE Refuses(InForce(D), FALSE, D)
  <2>1. ~flag /\ ~torn => D.tx = "idle"
    BY <1>2, <1>3 DEF Sound, Belief
  <2> QED
    BY <1>2, <1>4, <1>6, <2>1, SoundRefuses
<1>7. CASE AnswerLost(InForce(D), Begin(D))
  BY <1>2, <1>4, <1>7, Beginning, SoundAnswerLost
<1> QED
  BY <1>1, <1>5, <1>6, <1>7

LEMMA SoundSetBegun ==
  ASSUME Sound, SetBegun
  PROVE  Sound'
<1>1. stage \in {"none", "begin"} /\ conn = "ok" /\ pc' = "R" /\ flag' = TRUE
      /\ (stage = "none" => stage' = "none")
      /\ (stage = "begin" => pc = "begun" /\ stage' = IF redshift THEN "arm_own" ELSE "savepoint")
  BY DEF SetBegun, Sound, Control
<1>2. UNCHANGED <<redshift, db, link, conn, open, name, own, handler, job, before, ended>>
      /\ warned' = FALSE /\ torn' = FALSE
  BY DEF SetBegun
<1>3. TypeOK'
  BY <1>1, <1>2 DEF Sound, TypeOK, Stages
<1>4. Control' /\ Belief' /\ SavesNested'
  BY <1>1, <1>2 DEF Sound, Control, Belief, SavesNested
<1>5. Owning'
  BY <1>1, <1>2 DEF Sound, Owning, Armed
<1>6. Content'
  <2>1. CASE stage = "begin"
    <3>1. own /\ ~before.flag /\ ~Unprotected /\ own'
      BY <1>2, <2>1 DEF Sound, Owning, Unprotected
    <3>2. link => db.work = before.db.work /\ db.tx = "open" /\ ~open
      BY <1>1, <2>1, <3>1 DEF Sound, Content, WorkDue, SavesDue
    <3>3. stage' \in {"arm_own", "savepoint"} /\ conn' # "bad"
      BY <1>1, <1>2, <2>1
    <3> QED
      BY <1>2, <3>1, <3>2, <3>3 DEF Content, WorkDue, SavesDue, Armed
  <2>2. CASE stage = "none"
    BY <1>1, <2>2 DEF Content, WorkDue, SavesDue, Armed
  <2> QED
    BY <1>1, <2>1, <2>2
<1> QED
  BY <1>3, <1>4, <1>5, <1>6 DEF Sound

LEMMA SoundCommit ==
  ASSUME Sound, CommitTransaction
  PROVE  Sound'
<1>1. PICK D \in Sessions :
       \/ /\ Succeeds(Commit(D))
          /\ pc' = "committed"
          /\ UNCHANGED <<flag, name, stage, own, handler, job, before, ended>>
       \/ Refuses(TRUE, D.tx = "open", Rollback(D))
       \/ AnswerLost(TRUE, Commit(D))
  BY DEF CommitTransaction
<1>2. D \in Databases /\ D.work = db.work /\ D.durable = db.durable
  BY SessionsType DEF Sound, TypeOK, SavesNested
<1>3. pc = "R" /\ stage \in {"none", "commit"} /\ flag
  BY DEF CommitTransaction, Called
<1>4. CASE Succeeds(Commit(D)) /\ pc' = "committed"
           /\ UNCHANGED <<flag, name, stage, own, handler, job, before, ended>>
  <2>1. Commit(D) \in Databases /\ Commit(D).tx = "idle" /\ Nested(Commit(D))
    BY <1>2, Ending
  <2>2. TypeOK' /\ Control'
    <3>1. name \in Names \cup {Writer} /\ pc \in {"R", "begun", "committed", "rolled_back", "release"}
      BY DEF Sound, TypeOK
    <3>2. TypeOK'
      BY <1>3, <1>4, <2>1, <3>1, SucceedsTypeOK
    <3>3. Control'
      BY <1>3, <1>4, <2>1, SucceedsType
    <3> QED
      BY <3>2, <3>3
  <2>3. Belief' /\ SavesNested'
    BY <1>3, <1>4, <2>1, SucceedsType DEF Sound, Belief, SavesNested
  <2>4. Owning'
    BY <1>3, <1>4, <2>1, SucceedsType DEF Sound, Owning, Armed
  <2>5. Content'
    <3>1. CASE stage = "none"
      BY <1>4, <3>1 DEF Content, WorkDue, SavesDue, Armed
    <3>2. CASE stage = "commit"
      <4>1. db.tx = "open" /\ ~open /\ db.work = Complete
        BY <1>3, <1>4, <2>1, <3>2, SucceedsType
           DEF Sound, Content, WorkDue, SavesDue, Owning, Unprotected
      <4>2. D = db
        BY <4>1 DEF Sessions
      <4>3. db'.work = Complete
        BY <1>2, <1>4, <2>1, <4>1, <4>2, Ending, SucceedsType
      <4>4. Complete' = Complete
        BY <1>4 DEF Complete
      <4> QED
        BY <1>4, <2>1, <3>2, <4>3, <4>4, SucceedsType DEF Content, WorkDue, SavesDue, Armed
    <3> QED
      BY <1>3, <3>1, <3>2
  <2> QED
    BY <2>2, <2>3, <2>4, <2>5 DEF Sound
<1>5. CASE Refuses(TRUE, D.tx = "open", Rollback(D))
  BY <1>2, <1>5, Ending, SoundRefuses
<1>6. CASE AnswerLost(TRUE, Commit(D))
  BY <1>2, <1>6, Ending, SoundAnswerLost
<1> QED
  BY <1>1, <1>4, <1>5, <1>6

LEMMA SoundRollback ==
  ASSUME Sound, RollbackTransaction
  PROVE  Sound'
<1>1. PICK D \in Sessions :
       \/ /\ Succeeds(Rollback(D))
          /\ pc' = "rolled_back"
          /\ UNCHANGED <<flag, name, stage, own, handler, job, before, ended>>
       \/ AnswerLost(TRUE, Rollback(D))
  BY DEF RollbackTransaction
<1>2. D \in Databases
  BY SessionsType DEF Sound, TypeOK, SavesNested
<1>3. stage \in {"none", "exit"} /\ flag
  BY DEF RollbackTransaction, Called
<1>4. CASE Succeeds(Rollback(D)) /\ pc' = "rolled_back"
           /\ UNCHANGED <<flag, name, stage, own, handler, job, before, ended>>
  <2>1. Rollback(D) \in Databases /\ Rollback(D).tx = "idle" /\ Nested(Rollback(D))
    BY <1>2, Ending
  <2>2. TypeOK' /\ Control'
    <3>1. name \in Names \cup {Writer} /\ pc \in {"R", "begun", "committed", "rolled_back", "release"}
      BY DEF Sound, TypeOK
    <3>2. TypeOK'
      BY <1>3, <1>4, <2>1, <3>1, SucceedsTypeOK
    <3>3. Control'
      BY <1>3, <1>4, <2>1, SucceedsType
    <3> QED
      BY <3>2, <3>3
  <2>3. Belief'
    BY <1>4, <2>1, SucceedsType DEF Belief
  <2> QED
    BY <1>3, <1>4, <2>1, <2>2, <2>3, SucceedsType, Outside
<1>5. CASE AnswerLost(TRUE, Rollback(D))
  BY <1>2, <1>5, Ending, SoundAnswerLost
<1> QED
  BY <1>1, <1>4, <1>5

LEMMA SoundSetEnded ==
  ASSUME Sound, SetEnded
  PROVE  Sound'
<1>1. /\ pc' = "R" /\ flag' = FALSE /\ db.tx = "idle"
      /\ UNCHANGED <<redshift, db, link, conn, open, warned>> /\ torn' = FALSE
      /\ (stage = "commit" => stage' = "disarm") /\ (stage # "commit" => stage' = "none")
      /\ stage = "commit" => pc = "committed"
  BY DEF SetEnded, Sound, Belief, Control
<1>2. TypeOK'
  BY <1>1, LocalsType DEF SetEnded, Sound, TypeOK, Stages
<1>3. Control' /\ Belief' /\ Nested(db)'
  BY <1>1 DEF Sound, Control, Belief, SavesNested, Nested
<1>4. CASE stage # "commit"
  BY <1>1, <1>2, <1>3, <1>4, LocalsType, Outside DEF SetEnded, Sound
<1>5. CASE stage = "commit"
  <2>1. UNCHANGED <<own, job, before>>
    BY <1>1, <1>5 DEF SetEnded, Locals
  <2>2. own = TRUE /\ before.flag = FALSE /\ conn = "ok"
    BY <1>5 DEF Sound, Owning, TypeOK, Unprotected
  <2>3. Owning'
    BY <1>1, <1>5, <2>1, <2>2 DEF Owning, Armed
  <2>4. Complete' = Complete
    BY <2>1 DEF Complete
  <2>5. Content'
    BY <1>1, <1>5, <2>1, <2>2, <2>4 DEF Sound, Content, WorkDue, SavesDue, Armed, Unprotected
  <2>6. SavesNested'
    BY <1>1, <2>1 DEF Sound, SavesNested, Nested
  <2> QED
    BY <1>2, <1>3, <2>3, <2>5, <2>6 DEF Sound
<1> QED
  BY <1>4, <1>5

LEMMA SoundRollbackRefused ==
  ASSUME Sound, RollbackRefused
  PROVE  Sound'
  BY SoundRaise DEF RollbackRefused, Sound, TypeOK, Control, Belief, SavesNested

-----------------------------------------------------------------------------
(* Savepoints                                                              *)

LEMMA SoundSetSavepoint ==
  ASSUME Sound, NEW n \in Names \cup {Writer}, SetSavepoint(n)
  PROVE  Sound'
<1> DEFINE ok(D) == D.tx = "open" /\ ~redshift
<1>1. PICK D \in Sessions :
       \/ /\ ok(D) /\ Succeeds(Savepoint(D, n))
          /\ stage' = IF stage = "savepoint" THEN "arm" ELSE stage
          /\ UNCHANGED <<flag, pc, name, own, handler, job, before, ended>>
       \/ Refuses(ok(D), FALSE, Abort(D))
       \/ AnswerLost(ok(D), Savepoint(D, n))
  BY DEF SetSavepoint
<1>2. D \in Databases /\ Nested(D) /\ (D.tx = "open" => D = db)
  BY SessionsType DEF Sound, TypeOK, SavesNested
<1>3. pc = "R" /\ flag /\ (stage = "none" \/ (stage = "savepoint" /\ n = Writer))
  BY DEF SetSavepoint, Called
<1>4. CASE ok(D) /\ Succeeds(Savepoint(D, n))
           /\ stage' = (IF stage = "savepoint" THEN "arm" ELSE stage)
           /\ UNCHANGED <<flag, pc, name, own, handler, job, before, ended>>
  <2> DEFINE E == Savepoint(D, n)
  <2>1. /\ E \in Databases /\ Nested(E) /\ E.tx = "open" /\ E.work = D.work
        /\ E.saves # <<>> /\ Outer(E) = D.saves /\ E.saves[Len(E.saves)].name = n
    BY <1>2, <1>4, Saving
  <2>2. Succeeds(E) /\ D = db /\ db.tx = "open" /\ ~redshift
    BY <1>2, <1>4
  <2> HIDE DEF E
  <2>3. TypeOK' /\ Control'
    BY <1>3, <1>4, <2>1, <2>2, SucceedsType DEF Sound, TypeOK, Stages
  <2>4. Belief' /\ SavesNested'
    BY <1>3, <1>4, <2>1, <2>2, SucceedsType DEF Sound, Belief, SavesNested
  <2>5. CASE stage = "none"
    <3>1. stage' = "none"
      BY <1>4, <2>5
    <3> QED
      BY <1>4, <2>1, <2>2, <2>3, <2>4, <3>1, SucceedsType, Outside
  <2>6. CASE stage = "savepoint"
    <3>1. Owning'
      BY <1>3, <1>4, <2>1, <2>2, <2>6, SucceedsType DEF Sound, Owning, Armed
    <3>2. db.work = before.db.work /\ (~own => db = before.db)
      BY <2>1, <2>2, <2>6, SucceedsType DEF Sound, Content, WorkDue, SavesDue, Unprotected
    <3>3. db'.work = before'.db.work /\ db'.tx = "open" /\ ~open' /\ ~redshift'
          /\ (~own' => before'.db.tx = "open" /\ OnTop' /\ Outer(db)' = before'.db.saves)
      BY <1>3, <1>4, <2>1, <2>2, <2>6, <3>2, SucceedsType DEF OnTop, Outer
    <3>4. Content'
      BY <1>4, <2>6, <3>3 DEF Content, WorkDue, SavesDue, Armed
    <3> QED
      BY <2>3, <2>4, <3>1, <3>4 DEF Sound
  <2> QED
    BY <1>3, <2>5, <2>6
<1>5. CASE Refuses(ok(D), FALSE, Abort(D))
  <2>1. Abort(D) \in Databases /\ Nested(Abort(D)) /\ ok(D) \in BOOLEAN
    BY <1>2, Aborting
  <2> HIDE DEF ok
  <2> QED
    BY <1>3, <1>5, <2>1, SoundRefuses
<1>6. CASE AnswerLost(ok(D), Savepoint(D, n))
  <2>1. ok(D) /\ Savepoint(D, n) \in Databases
    BY <1>2, <1>6, Saving DEF AnswerLost
  <2> QED
    BY <1>6, <2>1, SoundAnswerLost
<1> QED
  BY <1>1, <1>4, <1>5, <1>6

LEMMA SoundRelease ==
  ASSUME Sound, NEW n \in Names \cup {Writer}, ReleaseSavepoint(n)
  PROVE  Sound'
<1> DEFINE ok(D) == D.tx = "open" /\ HasSavepoint(D, n)
<1>1. PICK D \in Sessions :
       \/ /\ ok(D) /\ Succeeds(Release(D, n))
          /\ stage' = IF stage = "none" THEN stage ELSE IF own THEN "commit" ELSE "disarm"
          /\ UNCHANGED <<flag, pc, name, own, handler, job, before, ended>>
       \/ Refuses(ok(D), FALSE, Abort(D))
       \/ AnswerLost(ok(D), Release(D, n))
  BY DEF ReleaseSavepoint, AfterSavepoint
<1>2. D \in Databases /\ Nested(D) /\ (D.tx = "open" => D = db)
      /\ (D.tx = "idle" <=> db.tx = "idle")
  BY SessionsType DEF Sound, TypeOK, SavesNested
<1>3. pc = "R" /\ (stage = "none" \/ (stage = "release" /\ n = Writer))
  BY DEF ReleaseSavepoint, Called
<1>4. CASE ok(D) /\ Succeeds(Release(D, n))
          /\ stage' = (IF stage = "none" THEN stage ELSE IF own THEN "commit" ELSE "disarm")
          /\ UNCHANGED <<flag, pc, name, own, handler, job, before, ended>>
  <2> DEFINE E == Release(D, n)
  <2>1. /\ E \in Databases /\ Nested(E) /\ E.tx = "open" /\ E.work = D.work
        /\ D.saves[Len(D.saves)].name = n => E.saves = Outer(D)
    BY <1>2, <1>4, Releasing
  <2>2. Succeeds(E) /\ D = db /\ db.tx = "open"
    BY <1>2, <1>4
  <2> HIDE DEF E
  <2>3. TypeOK' /\ Control'
    <3>1. stage' \in {"none", "commit", "disarm"}
      BY <1>3, <1>4, <2>1, <2>2
    <3>2. TypeOK'
      <4>1. stage' \in Stages
        BY <3>1 DEF Stages
      <4>2. db' = E /\ conn' = "ok" /\ link' = TRUE /\ open' = FALSE
            /\ UNCHANGED <<warned, torn, redshift>>
        BY <2>1, <2>2, SucceedsType
      <4> HIDE DEF ok
      <4> QED
        <5>1. UNCHANGED <<flag, pc, name, own, handler, job, before, ended>>
          BY <1>4
        <5>2. TypeOK
          BY DEF Sound
        <5> QED
          BY <2>1, <4>1, <4>2, <5>1, <5>2, TypeKept
    <3>3. Control'
      BY <1>3, <1>4, <2>1, <2>2, SucceedsType
    <3> QED
      BY <3>2, <3>3
  <2>4. Belief' /\ SavesNested'
    BY <1>3, <1>4, <2>1, <2>2, SucceedsType DEF Sound, Belief, SavesNested
  <2>5. CASE stage = "none"
    <3>1. stage' = "none"
      BY <1>4, <2>5
    <3> QED
      BY <1>4, <2>1, <2>2, <2>3, <2>4, <3>1, SucceedsType, Outside
  <2>6. CASE stage = "release"
    <3>1. stage' = (IF own THEN "commit" ELSE "disarm")
      BY <1>4, <2>6
    <3>2. Owning'
      BY <1>3, <1>4, <2>1, <2>2, <2>6, <3>1, SucceedsType DEF Sound, TypeOK, Owning, Armed
    <3>3. db.work = Complete
          /\ (~own => before.db.tx = "open" /\ OnTop /\ Outer(db) = before.db.saves)
      <4>1. ~redshift
        BY <2>6 DEF Sound, Owning
      <4> QED
        BY <2>1, <2>2, <2>6, <4>1, SucceedsType
           DEF Sound, Content, WorkDue, SavesDue, Armed, Unprotected
    <3>4. Complete' = Complete
      BY <1>4 DEF Complete
    <3>5. db'.work = Complete' /\ db'.tx = "open" /\ open' = FALSE /\ pc' = "R"
          /\ (~own' => before'.db.tx = "open" /\ db'.saves = before'.db.saves)
      BY <1>3, <1>4, <2>1, <2>2, <2>6, <3>3, <3>4, SucceedsType DEF OnTop
    <3>6. Content'
      BY <1>4, <3>1, <3>5 DEF Content, WorkDue, SavesDue, Armed
    <3> QED
      BY <2>3, <2>4, <3>2, <3>6 DEF Sound
  <2> QED
    BY <1>3, <2>5, <2>6
<1>5. CASE Refuses(ok(D), FALSE, Abort(D))
  <2>1. Abort(D) \in Databases /\ Nested(Abort(D)) /\ ok(D) \in BOOLEAN
        /\ (Abort(D).tx = "idle" <=> D.tx = "idle")
    BY <1>2, Aborting DEF HasSavepoint
  <2>2. ~flag /\ ~torn => D.tx = "idle"
    BY <1>2, <1>3 DEF Sound, Belief
  <2> HIDE DEF ok
  <2> QED
    BY <1>5, <2>1, <2>2, SoundRefuses
<1>6. CASE AnswerLost(ok(D), Release(D, n))
  <2>1. ok(D) /\ Release(D, n) \in Databases
    BY <1>2, <1>6, Releasing DEF AnswerLost
  <2> QED
    BY <1>6, <2>1, SoundAnswerLost DEF HasSavepoint
<1> QED
  BY <1>1, <1>4, <1>5, <1>6

LEMMA SoundRollbackTo ==
  ASSUME Sound, NEW n \in Names \cup {Writer}, RollbackToSavepoint(n)
  PROVE  Sound'
<1> DEFINE ok(D) == D.tx # "idle" /\ HasSavepoint(D, n)
<1>1. PICK D \in Sessions :
       \/ /\ ok(D) /\ Succeeds(RollbackTo(D, n))
          /\ pc' = "release" /\ name' = n
          /\ UNCHANGED <<flag, stage, own, handler, job, before, ended>>
       \/ Refuses(ok(D), FALSE, Abort(D))
       \/ AnswerLost(ok(D), RollbackTo(D, n))
  BY DEF RollbackToSavepoint
<1>2. D \in Databases /\ Nested(D) /\ (D.tx = "idle" <=> db.tx = "idle")
  BY SessionsType DEF Sound, TypeOK, SavesNested
<1>3. pc = "R" /\ stage \in {"none", "exit"}
  BY DEF RollbackToSavepoint, Called
<1>4. ~flag /\ ~torn => D.tx = "idle"
  BY <1>2, <1>3 DEF Sound, Belief
<1>5. CASE ok(D) /\ Succeeds(RollbackTo(D, n))
          /\ pc' = "release" /\ name' = n
          /\ UNCHANGED <<flag, stage, own, handler, job, before, ended>>
  <2>1. RollbackTo(D, n) \in Databases /\ Nested(RollbackTo(D, n))
    BY <1>2, <1>5, RollingBack
  <2>2. TypeOK' /\ Control'
    <3>1. TypeOK'
      BY <1>5, <2>1, SucceedsTypeOK
    <3>2. Control'
      BY <1>3, <1>5, <2>1, SucceedsType
    <3> QED
      BY <3>1, <3>2
  <2>3. Belief'
    BY <1>4, <1>5, <2>1, SucceedsType DEF Belief
  <2> QED
    BY <1>3, <1>5, <2>1, <2>2, <2>3, SucceedsType, Outside
<1>6. CASE Refuses(ok(D), FALSE, Abort(D))
  <2>1. Abort(D) \in Databases /\ Nested(Abort(D)) /\ ok(D) \in BOOLEAN
        /\ (Abort(D).tx = "idle" <=> D.tx = "idle")
    BY <1>2, Aborting DEF HasSavepoint
  <2> HIDE DEF ok
  <2> QED
    BY <1>4, <1>6, <2>1, SoundRefuses
<1>7. CASE AnswerLost(ok(D), RollbackTo(D, n))
  <2>1. ok(D) /\ RollbackTo(D, n) \in Databases
    BY <1>2, <1>7, RollingBack DEF AnswerLost
  <2> QED
    BY <1>7, <2>1, SoundAnswerLost DEF HasSavepoint
<1> QED
  BY <1>1, <1>5, <1>6, <1>7

LEMMA SoundReleaseRolledBack ==
  ASSUME Sound, ReleaseRolledBack
  PROVE  Sound'
<1> DEFINE ok == db.tx = "open" /\ HasSavepoint(db, name)
<1>1. pc = "release" /\ stage \in {"none", "exit"} /\ db \in Databases /\ Nested(db)
      /\ name \in Names \cup {Writer}
  BY DEF ReleaseRolledBack, Sound, TypeOK, Control, SavesNested
<1>2. ~flag /\ ~torn => db.tx = "idle"
  BY <1>1 DEF Sound, Belief
<1>3. CASE ok /\ Succeeds(Release(db, name)) /\ pc' = "R" /\ stage' = "none"
           /\ ended' = (IF stage = "exit" THEN "undone" ELSE ended) /\ Locals /\ UNCHANGED flag
  <2>1. Release(db, name) \in Databases /\ Nested(Release(db, name))
        /\ Release(db, name).tx = db.tx
    BY <1>1, <1>3, Releasing
  <2>2. TypeOK' /\ Control'
    BY <1>3, <2>1, SucceedsType, LocalsType DEF Sound, TypeOK, Stages
  <2>3. Belief'
    BY <1>2, <1>3, <2>1, SucceedsType DEF Belief
  <2> QED
    BY <1>3, <2>1, <2>2, <2>3, SucceedsType, LocalsType, Outside DEF Sound
<1>4. CASE Refuses(ok, FALSE, Abort(db))
  <2>1. Abort(db) \in Databases /\ Nested(Abort(db)) /\ ok \in BOOLEAN
        /\ (Abort(db).tx = "idle" <=> db.tx = "idle")
    BY <1>1, Aborting DEF HasSavepoint
  <2> HIDE DEF ok
  <2> QED
    BY <1>2, <1>4, <2>1, SoundRefuses
<1>5. CASE AnswerLost(ok, Release(db, name))
  <2>1. ok /\ Release(db, name) \in Databases
    BY <1>1, <1>5, Releasing DEF AnswerLost
  <2> QED
    BY <1>5, <2>1, SoundAnswerLost DEF HasSavepoint
<1> QED
  BY <1>3, <1>4, <1>5 DEF ReleaseRolledBack

-----------------------------------------------------------------------------
(* dbWriteTable()                                                          *)

LEMMA SoundWriteTable ==
  ASSUME Sound, NEW j \in Jobs, WriteTable(j)
  PROVE  Sound'
<1>1. /\ pc = "R" /\ job' = j /\ own' = ~flag /\ handler' = "none" /\ ended' = "running"
      /\ stage' = (IF ~flag THEN "begin" ELSE IF redshift THEN "table" ELSE "savepoint")
      /\ before' = [db |-> db, flag |-> flag]
      /\ UNCHANGED <<redshift, db, link, conn, open, flag, pc, name, warned, torn>>
  BY DEF WriteTable, Idle
<1>2. TypeOK'
  BY <1>1 DEF Sound, TypeOK, Stages
<1>3. Control' /\ Belief' /\ SavesNested'
  BY <1>1 DEF Sound, Control, Belief, SavesNested, Nested
<1>4. ~Unprotected' /\ redshift /\ flag => db.tx # "idle" /\ link /\ conn = "ok"
  BY <1>1 DEF Unprotected, Sound, TypeOK, Control, Belief
<1>5. flag => own' = FALSE /\ before'.flag = TRUE
  BY <1>1 DEF Sound, TypeOK
<1>6. Owning'
  BY <1>1, <1>4, <1>5 DEF Owning, Armed, Sound, TypeOK
<1>7. Content'
  BY <1>1, <1>4, <1>5 DEF Content, WorkDue, SavesDue, Armed, Sound, TypeOK
<1> QED
  BY <1>2, <1>3, <1>6, <1>7 DEF Sound

\* What the steps of dbWriteTable() do not touch.
Same == /\ pc = "R" /\ pc' = "R" /\ torn' = torn /\ warned' = warned
        /\ UNCHANGED <<redshift, flag, name, own, handler, job, before, ended>>

\* The stages that a step of the body may lead to.
Follows(s) ==
  \/ s \in Armed /\ (redshift => s \notin {"arm", "release"})
  \/ redshift /\ s = AfterSavepoint

\* A step from stage to stage, with a connection that is as before or has just
\* executed a statement.
LEMMA SoundBody ==
  ASSUME Sound, Same, stage \in Armed, NEW next, Follows(next), stage' = next,
         db' \in Databases, Nested(db'), db'.tx = db.tx, db'.saves = db.saves,
         open' \in BOOLEAN, open' => open, link' = link, conn' = conn,
         link /\ ~Unprotected => WorkDue'
  PROVE  Sound'
<1>1. next \in Armed \cup {"commit", "disarm"} /\ (next = "commit" => own) /\ (next = "disarm" => ~own)
      /\ (next \in {"commit", "disarm"} => redshift)
      /\ (redshift => next \notin {"savepoint", "arm", "release"})
  BY DEF Follows, AfterSavepoint, Armed
<1>2. TypeOK'
  BY <1>1 DEF Same, Sound, TypeOK, Stages, Armed
<1>3. Control' /\ Belief' /\ SavesNested'
  BY <1>1 DEF Same, Sound, Control, Belief, SavesNested, Armed
<1>4. /\ own = ~before.flag /\ flag /\ (~Unprotected => conn = "ok")
      /\ own \in BOOLEAN /\ flag \in BOOLEAN /\ before.flag \in BOOLEAN
  BY DEF Sound, TypeOK, Owning, Armed
<1>5. Unprotected' = Unprotected
  BY DEF Same, Unprotected
<1>6. Owning'
  BY <1>1, <1>4, <1>5 DEF Same, Owning, Armed
<1>7. link /\ ~Unprotected => SavesDue
  BY DEF Sound, Content
<1>8. link /\ ~Unprotected => SavesDue'
  BY <1>1, <1>7 DEF Same, SavesDue, Armed, OnTop, Outer
<1>9. Content'
  BY <1>4, <1>5, <1>8 DEF Content
<1> QED
  BY <1>2, <1>3, <1>6, <1>9 DEF Sound

LEMMA SoundArm ==
  ASSUME Sound, Arm \/ ArmOwn
  PROVE  Sound'
<1>1. /\ stage \in {"arm", "arm_own"} /\ stage' \in {"arm_own", "table"}
      /\ pc = "R" /\ handler' \in {"savepoint", "transaction"}
      /\ UNCHANGED <<redshift, db, link, conn, open, flag, pc, name, own, job, before, ended,
                     warned, torn>>
  BY DEF Arm, ArmOwn, Called, pastVars
<1>2. TypeOK'
  BY <1>1 DEF Sound, TypeOK, Stages
<1>3. Control' /\ Belief' /\ SavesNested'
  BY <1>1 DEF Sound, Control, Belief, SavesNested
<1>4. Unprotected' = Unprotected
  BY <1>1 DEF Unprotected
<1>5. Owning'
  BY <1>1, <1>4 DEF Sound, Owning, Armed
<1>6. Content'
  BY <1>1, <1>4 DEF Sound, Content, WorkDue, SavesDue, Armed, OnTop, Outer
<1> QED
  BY <1>2, <1>3, <1>5, <1>6 DEF Sound

LEMMA BeforeType ==
  ASSUME Sound
  PROVE  /\ db \in Databases /\ Nested(db) /\ before.db \in Databases
         /\ db.work \in Tables /\ before.db.work \in Tables
         /\ db.work # Absent => db.work \cup {"user"} \in Tables /\ db.work \cup {"writer"} \in Tables
         /\ {} \in Tables /\ Absent \in Tables
         /\ Absent # {} /\ (job.rows \in BOOLEAN)
  BY DEF Sound, TypeOK, SavesNested, Databases, Tables, Absent, Jobs

\* A statement of the body is refused, fails, loses its answer, or takes the
\* table to t within the transaction.
LEMMA SoundStatement ==
  ASSUME Sound, pc = "R", stage \in Armed, NEW need \in BOOLEAN, NEW t, NEW next, Follows(next),
         need => t \in Tables, BodyStatement(need, t, next),
         ASSUME need, link, ~Unprotected, stage' = next, db'.work = t,
                UNCHANGED <<job, before>>
         PROVE  WorkDue'
  PROVE  Sound'
<1> DEFINE ok == InForce(db) /\ need
           E == Write(db, t)
<1>1. db \in Databases /\ Nested(db) /\ ok \in BOOLEAN
  BY BeforeType DEF InForce
<1>2. \/ /\ ok /\ Succeeds(E) /\ stage' = next
         /\ UNCHANGED <<flag, pc, name, own, handler, job, before, ended>>
      \/ Refuses(ok, TRUE, Abort(db))
      \/ AnswerLost(ok, E)
  BY DEF BodyStatement
<1>3. ok => /\ E \in Databases /\ Nested(E) /\ E.tx = db.tx /\ E.saves = db.saves
            /\ E.work = t
  BY <1>1, Writes
<1> HIDE DEF E
<1>4. CASE ok /\ Succeeds(E) /\ stage' = next
           /\ UNCHANGED <<flag, pc, name, own, handler, job, before, ended>>
  <2>1. /\ db' = E /\ conn' = conn /\ link' = link /\ link /\ open' = FALSE
        /\ torn' = torn /\ warned' = warned /\ redshift' = redshift
    BY <1>3, <1>4, SucceedsType
  <2>2. Same
    BY <1>4, <2>1 DEF Same
  <2>3. ~Unprotected => WorkDue'
    BY <1>3, <1>4, <2>1
  <2> QED
    BY <1>3, <1>4, <2>1, <2>2, <2>3, SoundBody
<1>5. CASE Refuses(ok, TRUE, Abort(db))
  <2>1. Abort(db) \in Databases /\ Nested(Abort(db)) /\ (Abort(db).tx = "idle" <=> db.tx = "idle")
    BY <1>1, Aborting
  <2>2. ~flag /\ ~torn => db.tx = "idle"
    BY DEF Sound, Belief
  <2> HIDE DEF ok
  <2> QED
    BY <1>1, <1>5, <2>1, <2>2, SoundRefuses
<1>6. CASE AnswerLost(ok, E)
  <2>1. ok
    BY <1>6 DEF AnswerLost
  <2> QED
    BY <1>1, <1>3, <1>6, <2>1, SoundAnswerLost
<1> QED
  BY <1>2, <1>4, <1>5, <1>6

\* What is due, once the connection is known to be alive.
LEMMA DueNow ==
  ASSUME Sound, link, ~Unprotected
  PROVE  WorkDue
  BY DEF Sound, Content

LEMMA SoundRemoveTable ==
  ASSUME Sound, RemoveTable
  PROVE  Sound'
<1>1. pc = "R" /\ stage = "table" /\ job.how = "overwrite" /\ BodyStatement(TRUE, Absent, "create")
  BY DEF RemoveTable, Called
<1>2. ASSUME stage' = "create", db'.work = Absent, UNCHANGED <<job, before>> PROVE WorkDue'
  BY <1>1, <1>2 DEF WorkDue, Base
<1>3. Follows("create") /\ stage \in Armed
  BY <1>1 DEF Follows, Armed
<1> QED
  BY <1>1, <1>2, <1>3, BeforeType, SoundStatement

LEMMA SoundExistsTable ==
  ASSUME Sound, ExistsTable
  PROVE  Sound'
<1> DEFINE next == IF db.work = Absent THEN "create" ELSE "append"
<1>1. pc = "R" /\ stage = "table" /\ job.how # "overwrite"
  BY DEF ExistsTable, Called
<1>2. CASE BodyStatement(TRUE, db.work, next) /\ (db.work = Absent \/ job.how = "append")
  <2>1. ASSUME link, ~Unprotected, stage' = next, db'.work = db.work,
               UNCHANGED <<job, before>>
        PROVE  WorkDue'
    <3>1. db.work = before.db.work
      BY <1>1, <2>1, DueNow DEF WorkDue
    <3> QED
      BY <1>1, <2>1, <3>1 DEF WorkDue, Base
  <2>2. Follows(next) /\ stage \in Armed
    BY <1>1 DEF Follows, Armed
  <2> HIDE DEF next
  <2> QED
    BY <1>1, <1>2, <2>1, <2>2, BeforeType, SoundStatement
<1>3. CASE Raise /\ UNCHANGED <<db, link, conn, open, torn>>
  BY <1>1, <1>3, BeforeType, SoundRaise DEF Sound, TypeOK, Control, Belief
<1> QED
  BY <1>2, <1>3 DEF ExistsTable

LEMMA SoundCreateTable ==
  ASSUME Sound, CreateTable
  PROVE  Sound'
<1>1. pc = "R" /\ stage = "create" /\ BodyStatement(db.work = Absent, {}, "append")
  BY DEF CreateTable, Called
<1>2. ASSUME link, ~Unprotected, stage' = "append", db'.work = {},
             UNCHANGED <<job, before>>
      PROVE  WorkDue'
  <2>1. Base = {}
    BY <1>1, <1>2, DueNow DEF WorkDue
  <2>2. Base' = Base /\ Absent # {}
    BY <1>2 DEF Base, Absent
  <2> QED
    BY <1>2, <2>1, <2>2 DEF WorkDue
<1>3. Follows("append") /\ stage \in Armed
  BY <1>1 DEF Follows, Armed
<1> QED
  BY <1>1, <1>2, <1>3, BeforeType, SoundStatement

LEMMA SoundAppendTable ==
  ASSUME Sound, AppendTable
  PROVE  Sound'
<1> DEFINE t == db.work \cup {"writer"}
           next == IF redshift THEN AfterSavepoint ELSE "release"
<1>1. pc = "R" /\ stage = "append" /\ stage \in Armed
  BY DEF AppendTable, Called, Armed
<1>2. next \in {"release", "commit", "disarm"} /\ Follows(next)
  BY DEF Follows, AfterSavepoint, Armed
<1>3. \/ job.rows /\ BodyStatement(db.work # Absent, t, next)
      \/ /\ ~job.rows /\ stage' = next
         /\ UNCHANGED <<redshift, db, link, conn, open, flag, pc, name, own, handler, job,
                        before, ended, warned, torn>>
  BY DEF AppendTable, pastVars
<1> HIDE DEF next
<1>4. ASSUME UNCHANGED <<job, before>>
      PROVE  Complete' = Base \cup (IF job.rows THEN {"writer"} ELSE {})
  BY <1>4 DEF Complete, Base
<1>5. link /\ ~Unprotected => db.work = Base
  BY <1>1, DueNow DEF WorkDue
<1>6. CASE job.rows /\ BodyStatement(db.work # Absent, t, next)
  <2>1. ASSUME link, ~Unprotected, stage' = next, db'.work = t, UNCHANGED <<job, before>>
        PROVE  WorkDue'
    BY <1>2, <1>4, <1>5, <1>6, <2>1 DEF WorkDue
  <2> QED
    BY <1>1, <1>2, <1>6, <2>1, BeforeType, SoundStatement
<1>7. CASE /\ ~job.rows /\ stage' = next
           /\ UNCHANGED <<redshift, db, link, conn, open, flag, pc, name, own, handler, job,
                          before, ended, warned, torn>>
  <2>1. Complete' = Base
    BY <1>4, <1>7
  <2>2. link /\ ~Unprotected => WorkDue'
    BY <1>2, <1>5, <1>7, <2>1 DEF WorkDue
  <2>3. Same
    BY <1>1, <1>7 DEF Same
  <2>4. open' \in BOOLEAN
    BY <1>7 DEF Sound, TypeOK
  <2> QED
    BY <1>1, <1>2, <1>7, <2>2, <2>3, <2>4, BeforeType, SoundBody
<1> QED
  BY <1>3, <1>6, <1>7

LEMMA SoundDisarm ==
  ASSUME Sound, Disarm
  PROVE  Sound'
<1>1. /\ pc = "R" /\ stage' = "none" /\ ended' = "written"
      /\ UNCHANGED <<redshift, db, link, conn, open, flag, pc, warned, torn>> /\ Locals
  BY DEF Disarm, Called
<1>2. TypeOK'
  BY <1>1, LocalsType DEF Sound, TypeOK, Stages
<1>3. Control' /\ Belief' /\ Nested(db')
  BY <1>1 DEF Sound, Control, Belief, SavesNested
<1> QED
  BY <1>1, <1>2, <1>3, LocalsType, Outside DEF Sound

-----------------------------------------------------------------------------
(* The user, the backend and the connection.                               *)

LEMMA SoundUserStatement ==
  ASSUME Sound, NEW t \in {Absent, db.work \cup {"user"}}, UserStatement(t)
  PROVE  Sound'
<1> DEFINE ok(D) == InForce(D) /\ D.work # Absent
<1>1. PICK D \in Sessions :
       \/ ok(D) /\ Succeeds(Write(D, t)) /\ Stay
       \/ Refuses(ok(D), TRUE, Abort(D))
       \/ AnswerLost(ok(D), Write(D, t))
  BY DEF UserStatement
<1>2. /\ D \in Databases /\ Nested(D) /\ (D.tx = "idle" <=> db.tx = "idle")
      /\ D.work = db.work /\ ok(D) \in BOOLEAN
  BY SessionsType DEF Sound, TypeOK, SavesNested, InForce
<1>3. pc = "R" /\ stage = "none"
  BY DEF UserStatement, Idle
<1>4. ~flag /\ ~torn => D.tx = "idle"
  BY <1>2, <1>3 DEF Sound, Belief
<1>5. ok(D) => /\ Write(D, t) \in Databases /\ Nested(Write(D, t)) /\ Write(D, t).tx = D.tx
  BY <1>2, BeforeType, Writes
<1>6. CASE ok(D) /\ Succeeds(Write(D, t)) /\ Stay
  <2>1. UNCHANGED <<flag, pc, name, stage, own, handler, job, before, ended>>
    BY <1>6 DEF Stay, callVars
  <2>2. TypeOK' /\ Control'
    <3>1. name \in Names \cup {Writer} /\ pc \in {"R", "begun", "committed", "rolled_back", "release"}
      BY DEF Sound, TypeOK
    <3>2. TypeOK'
      BY <1>3, <1>5, <1>6, <2>1, <3>1, SucceedsTypeOK
    <3>3. Control'
      BY <1>3, <1>5, <1>6, <2>1, SucceedsType
    <3> QED
      BY <3>2, <3>3
  <2>3. Belief' /\ Nested(db')
    BY <1>3, <1>4, <1>5, <1>6, <2>1, SucceedsType DEF Belief
  <2> QED
    BY <1>3, <2>1, <2>2, <2>3, Outside
<1>7. CASE Refuses(ok(D), TRUE, Abort(D))
  <2>1. Abort(D) \in Databases /\ Nested(Abort(D)) /\ (Abort(D).tx = "idle" <=> D.tx = "idle")
    BY <1>2, Aborting
  <2> HIDE DEF ok
  <2> QED
    BY <1>2, <1>4, <1>7, <2>1, SoundRefuses
<1>8. CASE AnswerLost(ok(D), Write(D, t))
  <2>1. ok(D)
    BY <1>8 DEF AnswerLost
  <2> QED
    BY <1>2, <1>5, <1>8, <2>1, SoundAnswerLost
<1> QED
  BY <1>1, <1>6, <1>7, <1>8

LEMMA SoundResult ==
  ASSUME Sound, OpenQuery \/ ClearResult
  PROVE  Sound'
<1>1. /\ pc = "R" /\ stage = "none" /\ link' = link /\ open' \in BOOLEAN
      /\ UNCHANGED <<redshift, flag, pc, name, stage, own, handler, job, before, ended, warned,
                     torn>>
      /\ db' \in Sessions
      /\ conn' = conn \/ (~link /\ conn' = "bad")
  BY DEF OpenQuery, ClearResult, Idle, Stay, callVars, Sound, TypeOK
<1>2. db' \in Databases /\ Nested(db') /\ (db'.tx = "idle" <=> db.tx = "idle")
  BY <1>1, SessionsType DEF Sound, TypeOK, SavesNested
<1>3. TypeOK' /\ Control' /\ Belief'
  BY <1>1, <1>2 DEF Sound, TypeOK, Control, Belief
<1>4. Nested(db') /\ before' = before /\ stage' = "none"
  BY <1>1, <1>2
<1> QED
  BY <1>3, <1>4, Outside

LEMMA SoundInterrupt ==
  ASSUME Sound, Interrupt
  PROVE  Sound'
  BY SoundRaise, BeforeType DEF Interrupt, Sound, TypeOK, Control, Belief

LEMMA SoundUnreachable ==
  ASSUME Sound, Unreachable
  PROVE  Sound'
<1>1. pc \in {"R", "release"}
  BY DEF Unreachable, Called
<1> QED
  BY <1>1, SoundRaise, BeforeType DEF Unreachable, Sound, TypeOK, Control, Belief

LEMMA SoundBackendDies ==
  ASSUME Sound, BackendDies
  PROVE  Sound'
<1>1. /\ link' = FALSE /\ db' = Rollback(db) /\ conn' = conn /\ conn = "ok"
      /\ UNCHANGED <<redshift, flag, pc, name, stage, own, handler, job, before, ended, open,
                     warned, torn>>
  BY DEF BackendDies, Stay, callVars, Sound, TypeOK, Control
<1>2. db' \in Databases /\ db'.tx = "idle" /\ Nested(db')
  BY <1>1, BeforeType, Ending
<1>3. TypeOK'
  <2>1. TypeOK /\ link' \in BOOLEAN /\ conn' \in {"ok", "bad"} /\ open' \in BOOLEAN
        /\ stage' \in Stages
    BY <1>1 DEF Sound, TypeOK
  <2>2. UNCHANGED <<redshift, flag, pc, name, stage, own, handler, job, before, ended, open,
                    warned, torn>>
    BY <1>1
  <2> QED
    BY <1>2, <2>1, <2>2, TypeKept
<1>4. Control' /\ Belief'
  BY <1>1, <1>2 DEF Sound, Control, Belief
<1>5. SavesNested' /\ Owning'
  BY <1>1, <1>2 DEF Sound, SavesNested, Owning, Armed, Unprotected
<1>6. Content'
  BY <1>1 DEF Content
<1> QED
  BY <1>3, <1>4, <1>5, <1>6 DEF Sound

LEMMA SoundReconnect ==
  ASSUME Sound, Reconnect
  PROVE  Sound'
<1>1. /\ link' = TRUE /\ conn = "bad" /\ conn' = "ok"
      /\ UNCHANGED <<redshift, db, flag, pc, name, stage, own, handler, job, before, ended, open,
                     warned, torn>>
  BY DEF Reconnect, Stay, callVars
<1>2. TypeOK' /\ Control' /\ Belief' /\ SavesNested'
  BY <1>1 DEF Sound, TypeOK, Control, Belief, SavesNested
<1>3. Owning'
  BY <1>1 DEF Sound, Owning, Armed, Unprotected
<1>4. Content'
  BY <1>1 DEF Sound, Content, WorkDue, SavesDue, Complete, Base, OnTop, Outer, Unprotected
<1> QED
  BY <1>2, <1>3, <1>4 DEF Sound

-----------------------------------------------------------------------------
LEMMA SoundInit == Init => Sound
<1> SUFFICES ASSUME Init PROVE Sound
  OBVIOUS
<1>1. /\ db.tx = "idle" /\ db.saves = <<>> /\ db \in Databases
      /\ before = NoCall /\ NoCall \in [db : Databases, flag : BOOLEAN]
      /\ NoJob \in Jobs /\ Nested(NoCall.db)
  BY DEF Init, NoCall, NoJob, Databases, Tables, Absent, Jobs, Nested
<1>2. TypeOK
  BY <1>1 DEF Init, TypeOK, Stages
<1>3. Control /\ Belief /\ SavesNested
  BY <1>1 DEF Init, Control, Belief, SavesNested, Nested
<1>4. Owning /\ Content
  BY DEF Init, Owning, Content, WorkDue, SavesDue, Armed
<1> QED
  BY <1>2, <1>3, <1>4 DEF Sound

LEMMA SoundStep == Sound /\ [Next]_vars => Sound'
<1> SUFFICES ASSUME Sound, [Next]_vars PROVE Sound'
  OBVIOUS
<1>1. ASSUME Transaction PROVE Sound'
  BY <1>1, SoundBegin, SoundSetBegun, SoundCommit, SoundRollback, SoundSetEnded,
     SoundRollbackRefused DEF Transaction
<1>2. ASSUME SavepointCall PROVE Sound'
  BY <1>2, SoundSetSavepoint, SoundRelease, SoundRollbackTo, SoundReleaseRolledBack
     DEF SavepointCall
<1>3. ASSUME Writing PROVE Sound'
  BY <1>3, SoundWriteTable, SoundArm, SoundRemoveTable, SoundExistsTable, SoundCreateTable,
     SoundAppendTable, SoundDisarm DEF Writing
<1>4. ASSUME UNCHANGED vars PROVE Sound'
  BY <1>4 DEF vars, callVars, pastVars, Sound, TypeOK, Control, Belief, SavesNested, Nested,
     Owning, Content, WorkDue, SavesDue, Complete, Base, OnTop, Outer, Armed, Unprotected
<1> QED
  BY <1>1, <1>2, <1>3, <1>4, SoundUserStatement, SoundResult, SoundInterrupt,
     SoundUnreachable, SoundBackendDies, SoundReconnect DEF Next

LEMMA AlwaysSound == Spec => []Sound
  BY SoundInit, SoundStep, PTL DEF Spec

-----------------------------------------------------------------------------
\* Every variable keeps its type, whatever fails.
THEOREM TypeCorrect == Spec => []TypeOK
<1>1. Sound => TypeOK
  BY DEF Sound
<1> QED
  BY <1>1, AlwaysSound, PTL

\* Whatever fails, is lost or is cancelled: as long as R says that it is not in
\* a transaction, and no call was interrupted, the server has none open.
THEOREM FlagIsSafe == Spec => []NoHiddenTransaction
<1>1. Sound => NoHiddenTransaction
  BY DEF Sound, Belief, NoHiddenTransaction
<1> QED
  BY <1>1, AlwaysSound, PTL

-----------------------------------------------------------------------------
(* What becomes durable.                                                   *)

\* A call that ends or is refused leaves what the statement left.
LEMMA DurableAfter ==
  ASSUME Sound, NEW ok \in BOOLEAN, NEW mayFail \in BOOLEAN, NEW E, NEW F \in Databases,
         ok => E \in Databases /\ E.durable \in {db.durable, Complete},
         F.durable = db.durable,
         (ok /\ Succeeds(E)) \/ Refuses(ok, mayFail, F) \/ AnswerLost(ok, E)
  PROVE  db'.durable \in {db.durable, Complete}
<1>1. CASE ok /\ Succeeds(E)
  BY <1>1 DEF Succeeds
<1>2. CASE Refuses(ok, mayFail, F)
  BY <1>2 DEF Refuses
<1>3. CASE AnswerLost(ok, E)
  BY <1>3, Ending DEF AnswerLost
<1> QED
  BY <1>1, <1>2, <1>3

LEMMA DurableTransaction ==
  ASSUME Sound, stage # "none", ~Unprotected, Transaction
  PROVE  db'.durable \in {db.durable, Complete}
<1>1. \A D \in Sessions : /\ D \in Databases /\ D.work = db.work /\ D.durable = db.durable
                          /\ D.tx = "open" => D = db
  BY SessionsType DEF Sound, TypeOK, SavesNested
<1>2. CASE BeginTransaction
  <2>1. PICK D \in Sessions : (InForce(D) /\ Succeeds(Begin(D))) \/ Refuses(InForce(D), FALSE, D)
                                \/ AnswerLost(InForce(D), Begin(D))
    BY <1>2 DEF BeginTransaction
  <2>2. InForce(D) \in BOOLEAN
    BY DEF InForce
  <2> QED
    BY <1>1, <2>1, <2>2, Beginning, DurableAfter
<1>3. CASE CommitTransaction
  <2>1. PICK D \in Sessions : (TRUE /\ Succeeds(Commit(D)))
                                \/ Refuses(TRUE, D.tx = "open", Rollback(D))
                                \/ AnswerLost(TRUE, Commit(D))
    BY <1>3 DEF CommitTransaction
  <2>2. stage = "commit" /\ link
    BY <1>3, <2>1 DEF CommitTransaction, Called, Succeeds, Refuses, AnswerLost
  <2>3. db.work = Complete
    BY <2>2, DueNow DEF WorkDue
  <2>4. Commit(D).durable \in {db.durable, Complete} /\ Rollback(D).durable = db.durable
    BY <1>1, <2>3, Ending
  <2> QED
    BY <1>1, <2>1, <2>4, Ending, DurableAfter
<1>4. CASE RollbackTransaction
  <2>1. PICK D \in Sessions : Succeeds(Rollback(D)) \/ AnswerLost(TRUE, Rollback(D))
    BY <1>4 DEF RollbackTransaction
  <2> QED
    BY <1>1, <2>1, Ending DEF Succeeds, AnswerLost
<1>5. CASE SetBegun \/ SetEnded \/ RollbackRefused
  BY <1>5 DEF SetBegun, SetEnded, RollbackRefused
<1> QED
  BY <1>2, <1>3, <1>4, <1>5 DEF Transaction

LEMMA DurableSavepoint ==
  ASSUME Sound, stage # "none", SavepointCall
  PROVE  db'.durable \in {db.durable, Complete}
<1>1. \A D \in Sessions : D \in Databases /\ Nested(D) /\ D.durable = db.durable
  BY SessionsType DEF Sound, TypeOK, SavesNested
<1>2. ASSUME NEW n \in Names \cup {Writer}, SetSavepoint(n)
      PROVE  db'.durable \in {db.durable, Complete}
  <2> DEFINE ok(D) == D.tx = "open" /\ ~redshift
  <2>1. PICK D \in Sessions : (ok(D) /\ Succeeds(Savepoint(D, n))) \/ Refuses(ok(D), FALSE, Abort(D))
                              \/ AnswerLost(ok(D), Savepoint(D, n))
    BY <1>2 DEF SetSavepoint
  <2>2. ok(D) \in BOOLEAN
        /\ (ok(D) => D.tx = "open" /\ Savepoint(D, n) \in Databases /\ Savepoint(D, n).durable = D.durable)
    BY <1>1, Saving
  <2> HIDE DEF ok
  <2> QED
    BY <1>1, <2>1, <2>2, Aborting, DurableAfter
<1>3. ASSUME NEW n \in Names \cup {Writer}, ReleaseSavepoint(n)
      PROVE  db'.durable \in {db.durable, Complete}
  <2> DEFINE ok(D) == D.tx = "open" /\ HasSavepoint(D, n)
  <2>1. PICK D \in Sessions : (ok(D) /\ Succeeds(Release(D, n))) \/ Refuses(ok(D), FALSE, Abort(D))
                              \/ AnswerLost(ok(D), Release(D, n))
    BY <1>3 DEF ReleaseSavepoint
  <2>2. ok(D) \in BOOLEAN /\ (ok(D) => Release(D, n) \in Databases /\ Release(D, n).durable = D.durable)
    BY <1>1, Releasing DEF HasSavepoint
  <2> HIDE DEF ok
  <2> QED
    BY <1>1, <2>1, <2>2, Aborting, DurableAfter
<1>4. ASSUME NEW n \in Names \cup {Writer}, RollbackToSavepoint(n)
      PROVE  db'.durable \in {db.durable, Complete}
  <2> DEFINE ok(D) == D.tx # "idle" /\ HasSavepoint(D, n)
  <2>1. PICK D \in Sessions : (ok(D) /\ Succeeds(RollbackTo(D, n))) \/ Refuses(ok(D), FALSE, Abort(D))
                              \/ AnswerLost(ok(D), RollbackTo(D, n))
    BY <1>4 DEF RollbackToSavepoint
  <2>2. ok(D) \in BOOLEAN
        /\ (ok(D) => RollbackTo(D, n) \in Databases /\ RollbackTo(D, n).durable = D.durable)
    BY <1>1, RollingBack DEF HasSavepoint
  <2> HIDE DEF ok
  <2> QED
    BY <1>1, <2>1, <2>2, Aborting, DurableAfter
<1>5. CASE ReleaseRolledBack
  <2> DEFINE ok == db.tx = "open" /\ HasSavepoint(db, name)
  <2>1. \/ (ok /\ Succeeds(Release(db, name))) \/ Refuses(ok, FALSE, Abort(db))
        \/ AnswerLost(ok, Release(db, name))
    BY <1>5 DEF ReleaseRolledBack
  <2>2. name \in Names \cup {Writer}
    BY DEF Sound, TypeOK
  <2>3. ok \in BOOLEAN
        /\ (ok => Release(db, name) \in Databases /\ Release(db, name).durable = db.durable)
    BY <2>2, BeforeType, Releasing DEF HasSavepoint
  <2> HIDE DEF ok
  <2> QED
    BY <2>1, <2>3, BeforeType, Aborting, DurableAfter
<1> QED
  BY <1>2, <1>3, <1>4, <1>5 DEF SavepointCall

\* The statements of the body run in a transaction.
LEMMA DurableBody ==
  ASSUME Sound, stage \in Armed, ~Unprotected, NEW need \in BOOLEAN, NEW t, NEW next,
         need => t \in Tables, BodyStatement(need, t, next)
  PROVE  db'.durable \in {db.durable, Complete}
<1> DEFINE ok == InForce(db) /\ need
<1>1. (ok /\ Succeeds(Write(db, t))) \/ Refuses(ok, TRUE, Abort(db)) \/ AnswerLost(ok, Write(db, t))
  BY DEF BodyStatement
<1>2. link
  BY <1>1 DEF Succeeds, Refuses, AnswerLost
<1>3. db.tx # "idle"
  BY <1>2 DEF Sound, Content, SavesDue
<1>4. ok \in BOOLEAN
      /\ (ok => Write(db, t) \in Databases /\ Write(db, t).durable = db.durable)
  BY <1>3, BeforeType, Writes DEF InForce
<1> HIDE DEF ok
<1> QED
  BY <1>1, <1>4, BeforeType, Aborting, DurableAfter

LEMMA DurableWriting ==
  ASSUME Sound, stage # "none", ~Unprotected, Writing
  PROVE  db'.durable \in {db.durable, Complete}
<1>1. CASE \E j \in Jobs : WriteTable(j)
  BY <1>1 DEF WriteTable
<1>2. CASE Arm \/ ArmOwn \/ Disarm
  BY <1>2 DEF Arm, ArmOwn, Disarm
<1>3. CASE RemoveTable
  BY <1>3, DurableBody, BeforeType DEF RemoveTable, Called, Armed
<1>4. CASE ExistsTable
  <2>1. stage \in Armed
    BY <1>4 DEF ExistsTable, Called, Armed
  <2>2. CASE BodyStatement(TRUE, db.work, IF db.work = Absent THEN "create" ELSE "append")
    BY <2>1, <2>2, DurableBody, BeforeType
  <2> QED
    BY <1>4, <2>2 DEF ExistsTable
<1>5. CASE CreateTable
  BY <1>5, DurableBody, BeforeType DEF CreateTable, Called, Armed
<1>6. CASE AppendTable
  BY <1>6, DurableBody, BeforeType DEF AppendTable, Called, Armed
<1> QED
  BY <1>1, <1>2, <1>3, <1>4, <1>5, <1>6 DEF Writing

LEMMA DurableStep ==
  ASSUME Sound, [Next]_vars, stage # "none", ~Unprotected
  PROVE  db'.durable \in {db.durable, Complete}
<1>1. CASE Transaction \/ SavepointCall \/ Writing
  BY <1>1, DurableTransaction, DurableSavepoint, DurableWriting
<1>2. CASE \E t \in {Absent, db.work \cup {"user"}} : UserStatement(t)
  BY <1>2 DEF UserStatement, Idle
<1>3. CASE OpenQuery \/ ClearResult
  BY <1>3 DEF OpenQuery, ClearResult, Idle
<1>4. CASE Interrupt \/ Unreachable \/ Reconnect \/ UNCHANGED vars
  BY <1>4 DEF Interrupt, Unreachable, Reconnect, vars
<1>5. CASE BackendDies
  BY <1>5, BeforeType, Ending DEF BackendDies
<1> QED
  BY <1>1, <1>2, <1>3, <1>4, <1>5 DEF Next

\* No other session ever sees half a dbWriteTable(): for any table, any
\* arguments and any faults, what becomes durable while it runs is the table
\* as a whole.
THEOREM WholeOrNothing == Spec => DurableIsWhole
<1>1. ASSUME Sound, [Next]_vars, stage # "none", ~Unprotected, db'.durable # db.durable
      PROVE  db'.durable = Complete
  BY <1>1, DurableStep
<1> QED
  BY <1>1, AlwaysSound, PTL DEF Spec, DurableIsWhole

\* A dbWriteTable() that returns, called by a user whose flag is right, has
\* written the table as it shall be, and left the transaction and the
\* savepoints as they were.
THEOREM WrittenMeansComplete == Spec => WrittenIsComplete
<1>1. ASSUME Sound, [Next]_vars, ended = "running", ended' = "written", KnownBefore
      PROVE  /\ flag' = before.flag
             /\ link => /\ db'.work = Complete
                        /\ db'.tx = before.db.tx /\ db'.saves = before.db.saves
  <2>1. CASE Disarm
    <3>1. /\ stage = "disarm" /\ UNCHANGED <<db, flag>>
      BY <2>1 DEF Disarm, Called
    <3>2. flag = before.flag /\ own = ~before.flag /\ before.flag \in BOOLEAN
      BY <1>1, <3>1 DEF Sound, Owning, TypeOK
    <3>3. link => WorkDue /\ SavesDue
      BY <1>1 DEF Sound, Content, KnownBefore, Unprotected
    <3>4. own => before.db.tx = "idle" /\ before.db.saves = <<>>
      BY <1>1, <3>2 DEF KnownBefore, Sound, SavesNested, Nested
    <3>5. db.tx = "idle" => db.saves = <<>>
      BY <1>1 DEF Sound, SavesNested, Nested
    <3>6. own \in BOOLEAN
      BY <1>1 DEF Sound, TypeOK
    <3> QED
      BY <3>1, <3>2, <3>3, <3>4, <3>5, <3>6 DEF WorkDue, SavesDue
  <2>2. ASSUME ~Disarm PROVE FALSE
    <3>1. ASSUME Raise PROVE FALSE
      BY <1>1, <3>1 DEF Raise
    <3>2. ~Stay
      BY <1>1 DEF Stay
    <3>3. ended' # ended
      BY <1>1
    <3>4. ~Transaction
      BY <1>1, <3>1, <3>3 DEF Transaction, BeginTransaction, SetBegun, CommitTransaction,
         RollbackTransaction, SetEnded, RollbackRefused, Refuses, AnswerLost
    <3>5. ~SavepointCall
      BY <1>1, <3>1, <3>3 DEF SavepointCall, SetSavepoint, ReleaseSavepoint,
         RollbackToSavepoint, ReleaseRolledBack, Refuses, AnswerLost
    <3>6. ASSUME NEW need, NEW t, NEW next, BodyStatement(need, t, next) PROVE FALSE
      BY <1>1, <3>1, <3>3, <3>6 DEF BodyStatement, Refuses, AnswerLost
    <3>7. ~Writing
      BY <1>1, <2>2, <3>1, <3>3, <3>6 DEF Writing, WriteTable, Arm, ArmOwn, RemoveTable,
         ExistsTable, CreateTable, AppendTable, pastVars
    <3>8. ~\E t \in {Absent, db.work \cup {"user"}} : UserStatement(t)
      BY <3>1, <3>2 DEF UserStatement, Refuses, AnswerLost
    <3> QED
      BY <1>1, <3>1, <3>2, <3>3, <3>4, <3>5, <3>7, <3>8
         DEF Next, OpenQuery, ClearResult, Interrupt, BackendDies, Unreachable, Reconnect,
             vars, pastVars
  <2> QED
    BY <2>1, <2>2
<1> QED
  BY <1>1, AlwaysSound, PTL DEF Spec, WrittenIsComplete

-----------------------------------------------------------------------------
(* What the handlers of on.exit() restore.                                 *)

\* Outside of a transaction everything a session sees is durable.
Settled(D) == D.tx = "idle" => D.work = D.durable

\* Which handler is armed, and where the calls are that it makes.
Handlers ==
  /\ handler # "none" => stage \in Armed \cup {"commit", "disarm", "exit"}
  /\ stage = "exit" => handler # "none"
  /\ stage # "none" => own = ~before.flag
  /\ stage = "arm_own" => own
  /\ handler = "transaction" => own
  /\ handler = "savepoint" => ~redshift
  /\ stage = "exit" /\ ~own => flag
  /\ pc = "release" /\ stage = "exit" => handler = "savepoint" /\ name = Writer
  /\ pc = "rolled_back" /\ stage = "exit" => handler = "transaction"

DurableKept ==
  stage # "none" /\ ~Unprotected => db.durable \in {before.db.durable, Complete}

\* The savepoint of dbWriteTable() remembers the table as it was.
Marked == OnTop /\ db.saves[Len(db.saves)].seen = before.db.work
Seen == stage \in Armed /\ ~own /\ ~redshift /\ db.saves # <<>> => Marked

\* In the handler, that savepoint is still there, or none of its name.
Undoing ==
  stage = "exit" /\ ~own /\ HasSavepoint(db, Writer) /\ ~HasSavepoint(before.db, Writer) =>
    /\ Marked /\ Outer(db) = before.db.saves /\ before.db.tx = "open"
    /\ pc = "release" => db.tx = "open" /\ db.work = before.db.work

Restoring ==
  Settled(db) /\ Settled(before.db) /\ DurableKept /\ Handlers /\ Seen /\ Undoing

LEMMA HasMeans ==
  ASSUME NEW D \in Databases, NEW m
  PROVE  HasSavepoint(D, m) <=> \E i \in 1..Len(D.saves) : D.saves[i].name = m
<1> DEFINE at == {i \in DOMAIN D.saves : D.saves[i].name = m}
<1>1. D.saves \in Seq(Marks) /\ Len(D.saves) \in Nat /\ DOMAIN D.saves = 1..Len(D.saves)
  BY DEF Databases
<1>2. CASE at = {}
  <2>1. Innermost(D, m) = 0
    BY <1>2 DEF Innermost
  <2> QED
    BY <1>1, <1>2, <2>1 DEF HasSavepoint
<1>3. CASE at # {}
  <2>1. Innermost(D, m) = CHOOSE i \in at : \A j \in at : j <= i
    BY <1>3 DEF Innermost
  <2>2. \E i \in at : \A j \in at : j <= i
    BY <1>1, <1>3, Greatest
  <2>3. Innermost(D, m) \in at
    BY <2>1, <2>2
  <2> QED
    BY <1>1, <2>3 DEF HasSavepoint
<1> QED
  BY <1>2, <1>3

\* Having a savepoint is a matter of the savepoints alone.
LEMMA SameSaves ==
  ASSUME NEW D \in Databases, NEW F \in Databases, NEW m,
         F.saves = D.saves \/ F.saves = <<>>, HasSavepoint(F, m)
  PROVE  F.saves = D.saves /\ HasSavepoint(D, m) /\ D.saves # <<>>
<1>1. PICK i \in 1..Len(F.saves) : F.saves[i].name = m
  BY HasMeans
<1>2. F.saves # <<>>
  BY <1>1
<1> QED
  BY <1>1, <1>2, HasMeans

\* ROLLBACK TO the innermost savepoint leaves the savepoints alone.
LEMMA RollingBackTop ==
  ASSUME NEW D \in Databases, D.saves # <<>>, NEW n, D.saves[Len(D.saves)].name = n
  PROVE  /\ RollbackTo(D, n).saves = D.saves
         /\ RollbackTo(D, n).work = D.saves[Len(D.saves)].seen
<1>1. D.saves \in Seq(Marks) /\ Len(D.saves) \in Nat /\ Len(D.saves) \in 1..Len(D.saves)
  BY DEF Databases
<1>2. HasSavepoint(D, n)
  BY <1>1, HasMeans
<1>3. Innermost(D, n) = Len(D.saves)
  BY <1>1, <1>2, InnermostType
<1>4. SubSeq(D.saves, 1, Len(D.saves)) = D.saves
  BY <1>1
<1>5. RollbackTo(D, n) = [D EXCEPT !.tx = "open", !.work = D.saves[Len(D.saves)].seen,
                                   !.saves = D.saves]
  BY <1>3, <1>4 DEF RollbackTo
<1> QED
  BY <1>5 DEF Databases

-----------------------------------------------------------------------------
(* Settled sessions.                                                       *)

LEMMA SettledAfter ==
  ASSUME NEW ok \in BOOLEAN, NEW mayFail \in BOOLEAN, NEW E, NEW F,
         ok => E \in Databases /\ Settled(E), Settled(F),
         (ok /\ Succeeds(E)) \/ Refuses(ok, mayFail, F) \/ AnswerLost(ok, E)
  PROVE  Settled(db')
<1>1. CASE ok /\ Succeeds(E)
  BY <1>1 DEF Succeeds
<1>2. CASE Refuses(ok, mayFail, F)
  BY <1>2 DEF Refuses
<1>3. CASE AnswerLost(ok, E)
  <2>1. E \in Databases /\ db' = Rollback(E)
    BY <1>3 DEF AnswerLost
  <2> QED
    BY <2>1 DEF Rollback, Settled, Databases
<1> QED
  BY <1>1, <1>2, <1>3

LEMMA SettledEnd ==
  ASSUME NEW D \in Databases
  PROVE  Settled(Rollback(D)) /\ Settled(Commit(D)) /\ Settled(Begin(D))
  BY DEF Settled, Rollback, Commit, Begin, Databases

LEMMA SettledWrite ==
  ASSUME NEW D \in Databases, NEW t
  PROVE  Settled(Write(D, t))
  BY DEF Settled, Write, Databases

LEMMA SettledAbort ==
  ASSUME NEW D \in Databases, Settled(D)
  PROVE  Settled(Abort(D))
  BY DEF Settled, Abort, Databases

LEMMA SettledSession ==
  ASSUME Sound, Settled(db), NEW D \in Sessions
  PROVE  D \in Databases /\ Nested(D) /\ Settled(D) /\ Settled(Abort(D))
         /\ (D.saves = db.saves)
<1>1. D \in Databases /\ Nested(D) /\ db \in Databases
  BY SessionsType DEF Sound, TypeOK, SavesNested
<1>2. D = db \/ D = Abort(db)
  BY DEF Sessions
<1>3. Settled(D)
  BY <1>1, <1>2, SettledAbort
<1>4. D.saves = db.saves
  BY <1>1, <1>2 DEF Abort, Databases
<1> QED
  BY <1>1, <1>3, <1>4, SettledAbort

LEMMA SettledStep ==
  ASSUME Sound, Settled(db), [Next]_vars
  PROVE  Settled(db')
<1>1. \A D \in Sessions : /\ D \in Databases /\ Nested(D) /\ Settled(D) /\ Settled(Abort(D))
  BY SettledSession
<1>2. db \in Databases /\ Nested(db)
  BY BeforeType
<1>3. CASE Transaction
  <2>1. CASE BeginTransaction
    <3>1. PICK D \in Sessions : (InForce(D) /\ Succeeds(Begin(D)))
                                \/ Refuses(InForce(D), FALSE, D) \/ AnswerLost(InForce(D), Begin(D))
      BY <2>1 DEF BeginTransaction
    <3>2. InForce(D) \in BOOLEAN
      BY DEF InForce
    <3> QED
      BY <1>1, <3>1, <3>2, Beginning, SettledEnd, SettledAfter
  <2>2. CASE CommitTransaction
    <3>1. PICK D \in Sessions : (TRUE /\ Succeeds(Commit(D)))
                                \/ Refuses(TRUE, D.tx = "open", Rollback(D))
                                \/ AnswerLost(TRUE, Commit(D))
      BY <2>2 DEF CommitTransaction
    <3> QED
      BY <1>1, <3>1, Ending, SettledEnd, SettledAfter
  <2>3. CASE RollbackTransaction
    <3>1. PICK D \in Sessions : (TRUE /\ Succeeds(Rollback(D))) \/ AnswerLost(TRUE, Rollback(D))
      BY <2>3 DEF RollbackTransaction
    <3> QED
      BY <1>1, <3>1, Ending, SettledEnd, SettledAfter
  <2>4. CASE SetBegun \/ SetEnded \/ RollbackRefused
    BY <2>4 DEF SetBegun, SetEnded, RollbackRefused
  <2> QED
    BY <1>3, <2>1, <2>2, <2>3, <2>4 DEF Transaction
<1>4. CASE SavepointCall
  <2>1. ASSUME NEW n \in Names \cup {Writer}, SetSavepoint(n) PROVE Settled(db')
    <3> DEFINE ok(D) == D.tx = "open" /\ ~redshift
    <3>1. PICK D \in Sessions : (ok(D) /\ Succeeds(Savepoint(D, n)))
                                \/ Refuses(ok(D), FALSE, Abort(D))
                                \/ AnswerLost(ok(D), Savepoint(D, n))
      BY <2>1 DEF SetSavepoint
    <3>2. ok(D) \in BOOLEAN
          /\ (ok(D) => Savepoint(D, n) \in Databases /\ Savepoint(D, n).tx = "open")
      BY <1>1, Saving DEF Sound, TypeOK
    <3>3. ok(D) => Savepoint(D, n) \in Databases /\ Settled(Savepoint(D, n))
      BY <3>2 DEF Settled
    <3> HIDE DEF ok
    <3> QED
      BY <1>1, <3>1, <3>2, <3>3, SettledAfter
  <2>2. ASSUME NEW n \in Names \cup {Writer}, ReleaseSavepoint(n) PROVE Settled(db')
    <3> DEFINE ok(D) == D.tx = "open" /\ HasSavepoint(D, n)
    <3>1. PICK D \in Sessions : (ok(D) /\ Succeeds(Release(D, n)))
                                \/ Refuses(ok(D), FALSE, Abort(D))
                                \/ AnswerLost(ok(D), Release(D, n))
      BY <2>2 DEF ReleaseSavepoint
    <3>2. ok(D) \in BOOLEAN
          /\ (ok(D) => Release(D, n) \in Databases /\ Release(D, n).tx = "open")
      BY <1>1, Releasing DEF HasSavepoint
    <3>3. ok(D) => Release(D, n) \in Databases /\ Settled(Release(D, n))
      BY <3>2 DEF Settled
    <3> HIDE DEF ok
    <3> QED
      BY <1>1, <3>1, <3>2, <3>3, SettledAfter
  <2>3. ASSUME NEW n \in Names \cup {Writer}, RollbackToSavepoint(n) PROVE Settled(db')
    <3> DEFINE ok(D) == D.tx # "idle" /\ HasSavepoint(D, n)
    <3>1. PICK D \in Sessions : (ok(D) /\ Succeeds(RollbackTo(D, n)))
                                \/ Refuses(ok(D), FALSE, Abort(D))
                                \/ AnswerLost(ok(D), RollbackTo(D, n))
      BY <2>3 DEF RollbackToSavepoint
    <3>2. ok(D) \in BOOLEAN
          /\ (ok(D) => RollbackTo(D, n) \in Databases /\ RollbackTo(D, n).tx = "open")
      BY <1>1, RollingBack DEF HasSavepoint
    <3>3. ok(D) => RollbackTo(D, n) \in Databases /\ Settled(RollbackTo(D, n))
      BY <3>2 DEF Settled
    <3> HIDE DEF ok
    <3> QED
      BY <1>1, <3>1, <3>2, <3>3, SettledAfter
  <2>4. CASE ReleaseRolledBack
    <3> DEFINE ok == db.tx = "open" /\ HasSavepoint(db, name)
    <3>1. (ok /\ Succeeds(Release(db, name))) \/ Refuses(ok, FALSE, Abort(db))
          \/ AnswerLost(ok, Release(db, name))
      BY <2>4 DEF ReleaseRolledBack
    <3>2. name \in Names \cup {Writer}
      BY DEF Sound, TypeOK
    <3>3. ok \in BOOLEAN
          /\ (ok => Release(db, name) \in Databases /\ Release(db, name).tx = "open")
      BY <1>2, <3>2, Releasing DEF HasSavepoint
    <3>4. ok => Release(db, name) \in Databases /\ Settled(Release(db, name))
      BY <3>3 DEF Settled
    <3> HIDE DEF ok
    <3> QED
      BY <1>2, <3>1, <3>3, <3>4, SettledAbort, SettledAfter
  <2> QED
    BY <1>4, <2>1, <2>2, <2>3, <2>4 DEF SavepointCall
<1>5. ASSUME NEW need \in BOOLEAN, NEW t, NEW next, need => t \in Tables,
             BodyStatement(need, t, next)
      PROVE  Settled(db')
  <2> DEFINE ok == InForce(db) /\ need
  <2>1. (ok /\ Succeeds(Write(db, t))) \/ Refuses(ok, TRUE, Abort(db))
        \/ AnswerLost(ok, Write(db, t))
    BY <1>5 DEF BodyStatement
  <2>2. ok \in BOOLEAN /\ (ok => Write(db, t) \in Databases /\ Settled(Write(db, t)))
    BY <1>2, <1>5, Writes, SettledWrite DEF InForce
  <2> HIDE DEF ok
  <2> QED
    BY <1>2, <2>1, <2>2, SettledAbort, SettledAfter
<1>6. CASE Writing
  <2>1. CASE (\E j \in Jobs : WriteTable(j)) \/ Arm \/ ArmOwn \/ Disarm
    BY <2>1 DEF WriteTable, Arm, ArmOwn, Disarm
  <2>2. CASE RemoveTable
    BY <1>5, <2>2, BeforeType DEF RemoveTable
  <2>3. CASE ExistsTable
    <3>1. CASE BodyStatement(TRUE, db.work, IF db.work = Absent THEN "create" ELSE "append")
      BY <1>5, <3>1, BeforeType
    <3> QED
      BY <2>3, <3>1 DEF ExistsTable
  <2>4. CASE CreateTable
    BY <1>5, <2>4, BeforeType DEF CreateTable
  <2>5. CASE AppendTable
    BY <1>5, <2>5, BeforeType DEF AppendTable
  <2> QED
    BY <1>6, <2>1, <2>2, <2>3, <2>4, <2>5 DEF Writing
<1>7. ASSUME NEW t \in {Absent, db.work \cup {"user"}}, UserStatement(t) PROVE Settled(db')
  <2> DEFINE ok(D) == InForce(D) /\ D.work # Absent
  <2>1. PICK D \in Sessions : (ok(D) /\ Succeeds(Write(D, t))) \/ Refuses(ok(D), TRUE, Abort(D))
                              \/ AnswerLost(ok(D), Write(D, t))
    BY <1>7 DEF UserStatement
  <2>2. D.work = db.work
    BY <1>2, SessionsType
  <2>3. ok(D) \in BOOLEAN /\ (ok(D) => Write(D, t) \in Databases /\ Settled(Write(D, t)))
    BY <1>1, <1>7, <2>2, BeforeType, Writes, SettledWrite DEF InForce
  <2> HIDE DEF ok
  <2> QED
    BY <1>1, <2>1, <2>3, SettledAfter
<1>8. CASE OpenQuery \/ ClearResult
  BY <1>1, <1>8 DEF OpenQuery, ClearResult
<1>9. CASE Interrupt \/ Unreachable \/ Reconnect \/ UNCHANGED vars
  BY <1>9 DEF Interrupt, Unreachable, Reconnect, vars
<1>10. CASE BackendDies
  BY <1>2, <1>10, SettledEnd DEF BackendDies
<1> QED
  BY <1>3, <1>4, <1>6, <1>7, <1>8, <1>9, <1>10 DEF Next

-----------------------------------------------------------------------------
(* The handlers and the savepoint of dbWriteTable().                       *)

Held == Handlers /\ Seen /\ Undoing

\* Outside of dbWriteTable() nothing is held, and nothing to restore.
LEMMA HeldOutside ==
  ASSUME stage' = "none", handler' = "none"
  PROVE  Held'
  BY DEF Held, Handlers, Seen, Undoing, Armed

\* An error leads from the body into the handler.
LEMMA RaiseHeld ==
  ASSUME Sound, Held, Raise, stage # "none", db' \in Databases,
         db'.saves \in {db.saves, <<>>}
  PROVE  Held'
<1>1. CASE AfterError = "none"
  BY <1>1, HeldOutside DEF Raise, Locals
<1>2. CASE AfterError # "none"
  <2>1. /\ stage \notin {"none", "exit"} /\ handler # "none"
        /\ stage' = "exit" /\ pc' = "R"
        /\ UNCHANGED <<redshift, flag, handler, own, job, before>>
    BY <1>2 DEF AfterError, Raise, Locals
  <2>2. stage \in Armed \cup {"commit", "disarm"} /\ own = ~before.flag
        /\ flag \in BOOLEAN /\ before.flag \in BOOLEAN /\ own \in BOOLEAN
        /\ handler \in {"savepoint", "transaction"}
    BY <2>1 DEF Held, Handlers, Sound, TypeOK
  <2>3. ~own => flag
    BY <2>2 DEF Sound, Owning
  <2>4. Handlers'
    BY <2>1, <2>2, <2>3 DEF Held, Handlers
  <2>5. Seen'
    BY <2>1 DEF Seen, Armed
  <2>6. ASSUME ~own, HasSavepoint(db', Writer), ~HasSavepoint(before.db, Writer)
        PROVE  /\ OnTop /\ db.saves[Len(db.saves)].seen = before.db.work
               /\ db'.saves = db.saves
               /\ Outer(db) = before.db.saves /\ before.db.tx = "open"
    <3>1. db'.saves = db.saves /\ HasSavepoint(db, Writer) /\ db.saves # <<>>
      BY <2>6, SameSaves, BeforeType
    <3>2. link /\ ~redshift
      BY <2>2, <2>6, <3>1 DEF Sound, Belief, SavesNested, Nested, Held, Handlers
    <3>3. SavesDue
      BY <3>2 DEF Sound, Content, Unprotected
    <3>4. db.saves # before.db.saves
      BY <2>6, <3>1, SameSaves, BeforeType
    <3>5. stage \in Armed
      BY <2>2, <2>6, <3>3, <3>4 DEF SavesDue, Sound, Owning
    <3> QED
      BY <2>6, <3>1, <3>2, <3>3, <3>5 DEF SavesDue, Held, Seen, Marked
  <2>7. Undoing'
    BY <2>1, <2>6 DEF Undoing, Marked, OnTop, Outer
  <2> QED
    BY <2>4, <2>5, <2>7 DEF Held
<1> QED
  BY <1>1, <1>2

\* The three outcomes of a statement: two of them raise an error.
LEMMA FailHeld ==
  ASSUME Sound, Held, stage # "none", NEW ok \in BOOLEAN, NEW mayFail \in BOOLEAN,
         NEW E, NEW F \in Databases, ok => E \in Databases,
         F.saves \in {db.saves, <<>>},
         Refuses(ok, mayFail, F) \/ AnswerLost(ok, E)
  PROVE  Held'
<1>1. CASE Refuses(ok, mayFail, F)
  BY <1>1, RaiseHeld DEF Refuses
<1>2. CASE AnswerLost(ok, E)
  <2>1. Raise /\ E \in Databases /\ db' = Rollback(E)
    BY <1>2 DEF AnswerLost
  <2>2. db' \in Databases /\ db'.saves = <<>>
    BY <2>1, Ending DEF Rollback
  <2> QED
    BY <2>1, <2>2, RaiseHeld
<1> QED
  BY <1>1, <1>2

\* A step that changes the stage within the body, and no savepoint.
LEMMA BodyHeld ==
  ASSUME Sound, Held, stage \in Armed, db'.saves = db.saves,
         stage' \in (Armed \ {"arm_own"}) \cup {"commit", "disarm"}, pc' = pc, pc = "R",
         UNCHANGED <<redshift, own, before, handler>>
  PROVE  Held'
<1>1. Handlers'
  BY DEF Held, Handlers, Armed
<1>2. Seen'
  BY DEF Held, Seen, Marked, OnTop
<1>3. Undoing'
  BY DEF Undoing, Armed
<1> QED
  BY <1>1, <1>2, <1>3 DEF Held

LEMMA HeldStatement ==
  ASSUME Sound, Held, stage \in Armed, pc = "R",
         NEW need \in BOOLEAN, NEW t, NEW next, need => t \in Tables,
         next \in (Armed \ {"arm_own"}) \cup {"commit", "disarm"},
         BodyStatement(need, t, next)
  PROVE  Held'
<1> DEFINE ok == InForce(db) /\ need
<1>1. ok \in BOOLEAN /\ (ok => Write(db, t) \in Databases /\ Write(db, t).saves = db.saves)
  BY BeforeType, Writes DEF InForce
<1>2. Abort(db) \in Databases /\ Abort(db).saves = db.saves /\ stage # "none"
  BY BeforeType, Aborting DEF Abort, Databases, Armed
<1>3. CASE /\ ok /\ Succeeds(Write(db, t))
           /\ stage' = next
           /\ UNCHANGED <<flag, pc, name, own, handler, job, before, ended>>
  <2>1. db'.saves = db.saves /\ redshift' = redshift
    BY <1>1, <1>3 DEF Succeeds
  <2> QED
    BY <1>3, <2>1, BodyHeld
<1>4. CASE Refuses(ok, TRUE, Abort(db)) \/ AnswerLost(ok, Write(db, t))
  <2> HIDE DEF ok
  <2> QED
    BY <1>1, <1>2, <1>4, FailHeld
<1> QED
  BY <1>3, <1>4 DEF BodyStatement

LEMMA HeldWriting ==
  ASSUME Sound, Held, Writing
  PROVE  Held'
<1>1. CASE \E j \in Jobs : WriteTable(j)
  <2>1. /\ pc = "R" /\ pc' = "R" /\ flag' = flag /\ flag \in BOOLEAN /\ redshift' = redshift
        /\ handler' = "none" /\ own' = ~flag /\ before' = [db |-> db, flag |-> flag]
        /\ stage' = IF ~flag THEN "begin" ELSE IF redshift THEN "table" ELSE "savepoint"
    BY <1>1 DEF WriteTable, Idle, Sound, TypeOK
  <2>2. Handlers'
    BY <2>1 DEF Handlers, Armed
  <2> QED
    BY <2>1, <2>2 DEF Held, Seen, Undoing, Armed
<1>2. CASE Arm
  <2>1. /\ stage = "arm" /\ pc = "R" /\ pc' = "R" /\ handler' = "savepoint"
        /\ stage' = IF own THEN "arm_own" ELSE "table"
        /\ UNCHANGED <<redshift, db, own, before>>
    BY <1>2 DEF Arm, Called, pastVars
  <2>2. ~redshift /\ own \in BOOLEAN
    BY <2>1 DEF Sound, Owning, TypeOK
  <2>3. Handlers'
    BY <2>1, <2>2 DEF Held, Handlers, Armed
  <2>4. Seen'
    BY <2>1 DEF Held, Seen, Marked, OnTop, Armed
  <2> QED
    BY <2>1, <2>3, <2>4 DEF Held, Undoing
<1>3. CASE ArmOwn
  <2>1. /\ stage = "arm_own" /\ pc = "R" /\ pc' = "R" /\ handler' = "transaction"
        /\ stage' = "table" /\ UNCHANGED <<redshift, db, own, before>>
    BY <1>3 DEF ArmOwn, Called, pastVars
  <2>2. own
    BY <2>1 DEF Held, Handlers
  <2>3. Handlers'
    BY <2>1, <2>2 DEF Held, Handlers, Armed
  <2> QED
    BY <2>1, <2>2, <2>3 DEF Held, Seen, Undoing
<1>4. CASE RemoveTable
  BY <1>4, HeldStatement, BeforeType DEF RemoveTable, Called, Armed
<1>5. CASE ExistsTable
  <2>1. stage \in Armed /\ pc = "R" /\ stage # "none"
    BY <1>5 DEF ExistsTable, Called, Armed
  <2>2. CASE BodyStatement(TRUE, db.work, IF db.work = Absent THEN "create" ELSE "append")
    BY <2>1, <2>2, HeldStatement, BeforeType DEF Armed
  <2>3. CASE Raise /\ db' = db
    BY <2>1, <2>3, RaiseHeld, BeforeType
  <2> QED
    BY <1>5, <2>2, <2>3 DEF ExistsTable
<1>6. CASE CreateTable
  BY <1>6, HeldStatement, BeforeType DEF CreateTable, Called, Armed
<1>7. CASE AppendTable
  <2> DEFINE next == IF redshift THEN AfterSavepoint ELSE "release"
  <2>1. stage \in Armed /\ pc = "R"
        /\ next \in (Armed \ {"arm_own"}) \cup {"commit", "disarm"}
    BY <1>7 DEF AppendTable, AfterSavepoint, Called, Armed
  <2>2. CASE job.rows /\ BodyStatement(db.work # Absent, db.work \cup {"writer"}, next)
    <3> HIDE DEF next
    <3> QED
      BY <2>1, <2>2, HeldStatement, BeforeType
  <2>3. CASE /\ stage' = next
             /\ UNCHANGED <<redshift, db, link, conn, open, flag, pc, name, own, handler, job, pastVars>>
    <3> HIDE DEF next
    <3> QED
      BY <2>1, <2>3, BodyHeld DEF pastVars
  <2> QED
    BY <1>7, <2>2, <2>3 DEF AppendTable
<1>8. CASE Disarm
  BY <1>8, HeldOutside DEF Disarm, Locals
<1> QED
  BY <1>1, <1>2, <1>3, <1>4, <1>5, <1>6, <1>7, <1>8 DEF Writing

LEMMA HeldTransaction ==
  ASSUME Sound, Held, stage # "none", Transaction
  PROVE  Held'
<1>1. \A D \in Sessions : D \in Databases /\ D.saves = db.saves /\ InForce(D) \in BOOLEAN
  <2>1. ASSUME NEW D \in Sessions PROVE D \in Databases /\ D.saves = db.saves
    BY <2>1, BeforeType, Aborting DEF Sessions, Abort, Databases
  <2> QED
    BY <2>1 DEF InForce
<1>2. CASE BeginTransaction
  <2>1. PICK D \in Sessions :
         \/ /\ InForce(D) /\ Succeeds(Begin(D))
            /\ pc' = "begun"
            /\ UNCHANGED <<flag, name, stage, own, handler, job, before, ended>>
         \/ Refuses(InForce(D), FALSE, D)
         \/ AnswerLost(InForce(D), Begin(D))
    BY <1>2 DEF BeginTransaction
  <2>2. stage = "begin"
    BY <1>2 DEF BeginTransaction, Called
  <2>3. CASE /\ Succeeds(Begin(D)) /\ pc' = "begun"
             /\ UNCHANGED <<flag, name, stage, own, handler, job, before, ended>>
    <3>1. redshift' = redshift
      BY <2>3 DEF Succeeds
    <3> QED
      BY <2>2, <2>3, <3>1 DEF Held, Handlers, Seen, Undoing, Armed
  <2>4. CASE Refuses(InForce(D), FALSE, D) \/ AnswerLost(InForce(D), Begin(D))
    BY <1>1, <2>4, Beginning, FailHeld
  <2> QED
    BY <2>1, <2>3, <2>4
<1>3. CASE SetBegun
  <2>1. /\ pc' = "R" /\ stage = "begin"
        /\ stage' = IF redshift THEN "arm_own" ELSE "savepoint"
        /\ UNCHANGED <<redshift, own, handler, before>>
    BY <1>3 DEF SetBegun, Sound, Control
  <2>2. own /\ handler = "none"
    BY <2>1 DEF Sound, Owning, Held, Handlers, Armed, TypeOK
  <2>3. Handlers'
    BY <2>1, <2>2 DEF Held, Handlers, Armed
  <2> QED
    BY <2>1, <2>2, <2>3 DEF Held, Seen, Undoing
<1>4. CASE CommitTransaction
  <2>1. PICK D \in Sessions :
         \/ /\ Succeeds(Commit(D))
            /\ pc' = "committed"
            /\ UNCHANGED <<flag, name, stage, own, handler, job, before, ended>>
         \/ Refuses(TRUE, D.tx = "open", Rollback(D))
         \/ AnswerLost(TRUE, Commit(D))
    BY <1>4 DEF CommitTransaction
  <2>2. stage = "commit"
    BY <1>4 DEF CommitTransaction, Called
  <2>3. CASE /\ Succeeds(Commit(D)) /\ pc' = "committed"
             /\ UNCHANGED <<flag, name, stage, own, handler, job, before, ended>>
    <3>1. redshift' = redshift
      BY <2>3 DEF Succeeds
    <3> QED
      BY <2>2, <2>3, <3>1 DEF Held, Handlers, Seen, Undoing, Armed
  <2>4. CASE Refuses(TRUE, D.tx = "open", Rollback(D)) \/ AnswerLost(TRUE, Commit(D))
    <3>1. Rollback(D) \in Databases /\ Rollback(D).saves = <<>> /\ Commit(D) \in Databases
      BY <1>1, Ending DEF Rollback
    <3> QED
      BY <2>4, <3>1, FailHeld
  <2> QED
    BY <2>1, <2>3, <2>4
<1>5. CASE RollbackTransaction
  <2>1. PICK D \in Sessions :
         \/ /\ Succeeds(Rollback(D))
            /\ pc' = "rolled_back"
            /\ UNCHANGED <<flag, name, stage, own, handler, job, before, ended>>
         \/ AnswerLost(TRUE, Rollback(D))
    BY <1>5 DEF RollbackTransaction
  <2>2. stage = "exit" /\ handler = "transaction" /\ own
    BY <1>5 DEF RollbackTransaction, Called, Held, Handlers
  <2>3. CASE /\ Succeeds(Rollback(D)) /\ pc' = "rolled_back"
             /\ UNCHANGED <<flag, name, stage, own, handler, job, before, ended>>
    <3>1. redshift' = redshift
      BY <2>3 DEF Succeeds
    <3> QED
      BY <2>2, <2>3, <3>1 DEF Held, Handlers, Seen, Undoing, Armed
  <2>4. CASE AnswerLost(TRUE, Rollback(D))
    <3>1. Rollback(D) \in Databases /\ Rollback(D).saves = <<>>
      BY <1>1, Ending DEF Rollback
    <3> QED
      BY <2>4, <3>1, FailHeld
  <2> QED
    BY <2>1, <2>3, <2>4
<1>6. CASE SetEnded
  <2>1. CASE stage' = "none"
    BY <1>6, <2>1, HeldOutside DEF SetEnded, Locals
  <2>2. CASE stage' = "disarm"
    <3>1. stage = "commit" /\ pc' = "R" /\ UNCHANGED <<redshift, own, handler, before>>
      BY <1>6, <2>2 DEF SetEnded, Locals
    <3> QED
      BY <2>2, <3>1 DEF Held, Handlers, Seen, Undoing, Armed
  <2> QED
    BY <1>6, <2>1, <2>2 DEF SetEnded
<1>7. CASE RollbackRefused
  BY <1>7, BeforeType, RaiseHeld DEF RollbackRefused
<1> QED
  BY <1>2, <1>3, <1>4, <1>5, <1>6, <1>7 DEF Transaction

LEMMA HeldSavepoint ==
  ASSUME Sound, Held, stage # "none", SavepointCall
  PROVE  Held'
<1>1. ASSUME NEW D \in Sessions
      PROVE  /\ D \in Databases /\ Nested(D) /\ D.saves = db.saves
             /\ D.tx = "open" => D = db
             /\ Abort(D) \in Databases /\ Abort(D).saves = db.saves
  <2>1. D \in Databases /\ Nested(D) /\ (D.tx = "open" => D = db)
    BY BeforeType, SessionsType
  <2>2. D.saves = db.saves
    BY BeforeType DEF Sessions, Abort, Databases
  <2> QED
    BY <2>1, <2>2, Aborting DEF Abort, Databases
<1>2. ASSUME NEW n \in Names \cup {Writer}, SetSavepoint(n)
      PROVE  Held'
  <2> DEFINE ok(D) == D.tx = "open" /\ ~redshift
  <2>1. PICK D \in Sessions :
         \/ /\ ok(D) /\ Succeeds(Savepoint(D, n))
            /\ stage' = IF stage = "savepoint" THEN "arm" ELSE stage
            /\ UNCHANGED <<flag, pc, name, own, handler, job, before, ended>>
         \/ Refuses(ok(D), FALSE, Abort(D))
         \/ AnswerLost(ok(D), Savepoint(D, n))
    BY <1>2 DEF SetSavepoint
  <2>2. stage = "savepoint" /\ pc = "R" /\ n = Writer
    BY <1>2 DEF SetSavepoint, Called
  <2>3. CASE /\ ok(D) /\ Succeeds(Savepoint(D, n)) /\ stage' = "arm"
             /\ UNCHANGED <<flag, pc, name, own, handler, job, before, ended>>
    <3>1. D = db /\ db.tx = "open" /\ ~redshift /\ redshift' = redshift
          /\ db' = Savepoint(db, Writer) /\ link
      BY <1>1, <2>2, <2>3 DEF Succeeds
    <3>2. /\ db'.saves # <<>> /\ db'.saves[Len(db'.saves)].name = Writer
          /\ db'.saves[Len(db'.saves)].seen = db.work
      BY <3>1, BeforeType, Saving
    <3>3. db.work = before.db.work
      BY <2>2, <3>1 DEF Sound, Content, WorkDue, Unprotected
    <3>4. Seen'
      BY <2>3, <3>2, <3>3 DEF Seen, Marked, OnTop
    <3>5. Handlers'
      BY <2>2, <2>3, <3>1 DEF Held, Handlers, Armed
    <3> QED
      BY <2>3, <3>4, <3>5 DEF Held, Undoing
  <2>4. CASE Refuses(ok(D), FALSE, Abort(D)) \/ AnswerLost(ok(D), Savepoint(D, n))
    <3>1. ok(D) \in BOOLEAN /\ (ok(D) => Savepoint(D, n) \in Databases)
      BY <1>1, Saving DEF Sound, TypeOK
    <3> HIDE DEF ok
    <3> QED
      BY <1>1, <2>4, <3>1, FailHeld
  <2> QED
    BY <2>1, <2>2, <2>3, <2>4
<1>3. ASSUME NEW n \in Names \cup {Writer}, ReleaseSavepoint(n)
      PROVE  Held'
  <2> DEFINE ok(D) == D.tx = "open" /\ HasSavepoint(D, n)
  <2>1. PICK D \in Sessions :
         \/ /\ ok(D) /\ Succeeds(Release(D, n))
            /\ stage' = IF stage = "none" THEN stage ELSE AfterSavepoint
            /\ UNCHANGED <<flag, pc, name, own, handler, job, before, ended>>
         \/ Refuses(ok(D), FALSE, Abort(D))
         \/ AnswerLost(ok(D), Release(D, n))
    BY <1>3 DEF ReleaseSavepoint
  <2>2. stage = "release" /\ pc = "R"
    BY <1>3 DEF ReleaseSavepoint, Called
  <2>3. CASE /\ Succeeds(Release(D, n)) /\ stage' = AfterSavepoint
             /\ UNCHANGED <<flag, pc, name, own, handler, job, before, ended>>
    <3>1. stage' \in {"commit", "disarm"} /\ redshift' = redshift
      BY <2>3 DEF AfterSavepoint, Succeeds
    <3> QED
      BY <2>2, <2>3, <3>1 DEF Held, Handlers, Seen, Undoing, Armed
  <2>4. CASE Refuses(ok(D), FALSE, Abort(D)) \/ AnswerLost(ok(D), Release(D, n))
    <3>1. ok(D) \in BOOLEAN /\ (ok(D) => Release(D, n) \in Databases)
      BY <1>1, Releasing DEF HasSavepoint
    <3> HIDE DEF ok
    <3> QED
      BY <1>1, <2>4, <3>1, FailHeld
  <2> QED
    BY <2>1, <2>2, <2>3, <2>4
<1>4. ASSUME NEW n \in Names \cup {Writer}, RollbackToSavepoint(n)
      PROVE  Held'
  <2> DEFINE ok(D) == D.tx # "idle" /\ HasSavepoint(D, n)
  <2>1. PICK D \in Sessions :
         \/ /\ ok(D) /\ Succeeds(RollbackTo(D, n))
            /\ pc' = "release" /\ name' = n
            /\ UNCHANGED <<flag, stage, own, handler, job, before, ended>>
         \/ Refuses(ok(D), FALSE, Abort(D))
         \/ AnswerLost(ok(D), RollbackTo(D, n))
    BY <1>4 DEF RollbackToSavepoint
  <2>2. stage = "exit" /\ handler = "savepoint" /\ n = Writer
    BY <1>4 DEF RollbackToSavepoint, Called
  <2>3. CASE /\ ok(D) /\ Succeeds(RollbackTo(D, n)) /\ pc' = "release" /\ name' = n
             /\ UNCHANGED <<flag, stage, own, handler, job, before, ended>>
    <3>1. db' = RollbackTo(D, Writer) /\ redshift' = redshift /\ HasSavepoint(D, Writer)
      BY <2>2, <2>3 DEF Succeeds
    <3>2. db' \in Databases /\ db'.tx = "open"
      BY <1>1, <2>2, <3>1, RollingBack
    <3>3. ASSUME ~own, ~HasSavepoint(before.db, Writer)
          PROVE  /\ Marked /\ Outer(db) = before.db.saves /\ before.db.tx = "open"
                 /\ db'.saves = db.saves /\ db'.work = before.db.work
      <4>1. HasSavepoint(db, Writer)
        BY <1>1, <3>1, SameSaves, BeforeType
      <4>2. Marked /\ Outer(db) = before.db.saves /\ before.db.tx = "open"
        BY <2>2, <3>3, <4>1 DEF Held, Undoing
      <4>3. D.saves # <<>> /\ D.saves[Len(D.saves)].name = Writer
            /\ D.saves[Len(D.saves)].seen = before.db.work
        BY <1>1, <4>2 DEF Marked, OnTop
      <4> QED
        BY <1>1, <3>1, <4>2, <4>3, RollingBackTop
    <3>4. Undoing'
      BY <2>3, <3>2, <3>3 DEF Undoing, Marked, OnTop, Outer
    <3>5. Handlers'
      BY <2>2, <2>3, <3>1 DEF Held, Handlers, Armed
    <3> QED
      BY <2>2, <2>3, <3>4, <3>5 DEF Held, Seen, Armed
  <2>4. CASE Refuses(ok(D), FALSE, Abort(D)) \/ AnswerLost(ok(D), RollbackTo(D, n))
    <3>1. ok(D) \in BOOLEAN /\ (ok(D) => RollbackTo(D, n) \in Databases)
      BY <1>1, RollingBack DEF HasSavepoint
    <3> HIDE DEF ok
    <3> QED
      BY <1>1, <2>4, <3>1, FailHeld
  <2> QED
    BY <2>1, <2>3, <2>4
<1>5. CASE ReleaseRolledBack
  <2> DEFINE ok == db.tx = "open" /\ HasSavepoint(db, name)
  <2>1. \/ stage' = "none" /\ Locals
        \/ Refuses(ok, FALSE, Abort(db)) \/ AnswerLost(ok, Release(db, name))
    BY <1>5 DEF ReleaseRolledBack
  <2>2. name \in Names \cup {Writer} /\ Abort(db) \in Databases /\ Abort(db).saves = db.saves
    BY BeforeType, Aborting DEF Sound, TypeOK, Abort, Databases
  <2>3. ok \in BOOLEAN /\ (ok => Release(db, name) \in Databases)
    BY <2>2, BeforeType, Releasing DEF HasSavepoint
  <2>4. CASE Refuses(ok, FALSE, Abort(db)) \/ AnswerLost(ok, Release(db, name))
    <3> HIDE DEF ok
    <3> QED
      BY <2>2, <2>3, <2>4, FailHeld
  <2> QED
    BY <2>1, <2>4, HeldOutside DEF Locals
<1> QED
  BY <1>2, <1>3, <1>4, <1>5 DEF SavepointCall

\* Where a call of the user stays outside of dbWriteTable().
LEMMA StaysOutside ==
  ASSUME Sound, Held, [Next]_vars, stage = "none", ~Writing
  PROVE  stage' = "none" /\ handler' = "none"
<1>1. handler = "none" /\ AfterError = "none"
  BY DEF Held, Handlers, Armed, AfterError
<1>2. ASSUME Raise PROVE stage' = "none" /\ handler' = "none"
  BY <1>1, <1>2 DEF Raise, Locals
<1>3. CASE Transaction
  BY <1>1, <1>2, <1>3 DEF Transaction, BeginTransaction, SetBegun, CommitTransaction,
     RollbackTransaction, SetEnded, RollbackRefused, Refuses, AnswerLost, Locals
<1>4. CASE SavepointCall
  BY <1>1, <1>2, <1>4 DEF SavepointCall, SetSavepoint, ReleaseSavepoint,
     RollbackToSavepoint, ReleaseRolledBack, Refuses, AnswerLost, Locals
<1>5. CASE \E t \in {Absent, db.work \cup {"user"}} : UserStatement(t)
  BY <1>1, <1>2, <1>5 DEF UserStatement, Refuses, AnswerLost, Stay, callVars
<1>6. CASE \/ OpenQuery \/ ClearResult \/ Interrupt \/ BackendDies \/ Unreachable
           \/ Reconnect \/ UNCHANGED vars
  BY <1>1, <1>2, <1>6
     DEF OpenQuery, ClearResult, Interrupt, BackendDies, Unreachable, Reconnect, Stay, callVars, vars
<1> QED
  BY <1>3, <1>4, <1>5, <1>6 DEF Next

LEMMA HeldStep ==
  ASSUME Sound, Held, [Next]_vars
  PROVE  Held'
<1>1. CASE Writing
  BY <1>1, HeldWriting
<1>2. CASE stage = "none" /\ ~Writing
  BY <1>2, StaysOutside, HeldOutside
<1>3. CASE stage # "none" /\ ~Writing
  <2>1. CASE Transaction \/ SavepointCall
    BY <1>3, <2>1, HeldTransaction, HeldSavepoint
  <2>2. CASE \E t \in {Absent, db.work \cup {"user"}} : UserStatement(t)
    BY <1>3, <2>2 DEF UserStatement, Idle
  <2>3. CASE OpenQuery \/ ClearResult
    BY <1>3, <2>3 DEF OpenQuery, ClearResult, Idle
  <2>4. CASE Interrupt \/ Unreachable
    BY <1>3, <2>4, BeforeType, RaiseHeld DEF Interrupt, Unreachable
  <2>5. CASE BackendDies
    <3>1. /\ db' \in Databases /\ db'.saves = <<>>
          /\ UNCHANGED <<redshift, flag, pc, name, stage, own, handler, before>>
      BY <2>5, BeforeType, Ending DEF BackendDies, Rollback, Stay, callVars
    <3>2. ~HasSavepoint(db', Writer)
      BY <3>1, HasMeans
    <3>3. Handlers'
      BY <3>1 DEF Held, Handlers
    <3> QED
      BY <3>1, <3>2, <3>3 DEF Held, Seen, Undoing
  <2>6. CASE Reconnect \/ UNCHANGED vars
    <3>1. UNCHANGED <<redshift, db, flag, pc, name, stage, own, handler, before>>
      BY <2>6 DEF Reconnect, Stay, callVars, pastVars, vars
    <3> QED
      BY <3>1 DEF Held, Handlers, Seen, Undoing, Marked, OnTop, Outer
  <2> QED
    BY <1>3, <2>1, <2>2, <2>3, <2>4, <2>5, <2>6 DEF Next
<1> QED
  BY <1>1, <1>2, <1>3

-----------------------------------------------------------------------------
(* The handlers restore what they shall.                                   *)

\* The call, and what it was made in, stay while it runs.
LEMMA CallKept ==
  ASSUME Sound, [Next]_vars
  PROVE  /\ redshift' = redshift
         /\ before' \in {before, NoCall} \/ before'.db = db
         /\ stage # "none" /\ stage' # "none" => UNCHANGED <<job, before>>
         /\ stage = "none" /\ stage' # "none" => before'.db = db /\ db' = db
<1> DEFINE G == /\ redshift' = redshift
                /\ before' \in {before, NoCall}
                /\ stage' # "none" => stage # "none" /\ UNCHANGED <<job, before>>
<1>1. ASSUME Locals, redshift' = redshift, stage' # "none" => stage # "none" PROVE G
  BY <1>1 DEF Locals
<1>2. ASSUME Raise PROVE G
  BY <1>2, <1>1 DEF Raise, AfterError
<1>3. ASSUME NEW E, Succeeds(E), UNCHANGED <<job, before>>, stage' # "none" => stage # "none"
      PROVE  G
  BY <1>3 DEF Succeeds
<1>4. CASE Transaction
  <2>1. CASE SetBegun
    BY <2>1 DEF SetBegun
  <2>2. CASE SetEnded
    BY <1>1, <2>2 DEF SetEnded
  <2> QED
    BY <1>2, <1>3, <1>4, <2>1, <2>2 DEF Transaction, BeginTransaction, CommitTransaction,
       RollbackTransaction, RollbackRefused, Refuses, AnswerLost
<1>5. CASE SavepointCall
  <2>1. CASE ReleaseRolledBack
    BY <1>1, <1>2, <2>1 DEF ReleaseRolledBack, Succeeds, Refuses, AnswerLost
  <2> QED
    BY <1>2, <1>3, <1>5, <2>1 DEF SavepointCall, SetSavepoint, ReleaseSavepoint,
       RollbackToSavepoint, Refuses, AnswerLost
<1>6. CASE Writing
  <2>1. CASE \E j \in Jobs : WriteTable(j)
    BY <2>1 DEF WriteTable, Idle
  <2>2. CASE Arm \/ ArmOwn
    BY <2>2 DEF Arm, ArmOwn, Called, pastVars
  <2>3. CASE Disarm
    BY <1>1, <2>3 DEF Disarm
  <2>4. ASSUME NEW need, NEW t, NEW next, BodyStatement(need, t, next), stage # "none" PROVE G
    BY <1>2, <1>3, <2>4 DEF BodyStatement, Refuses, AnswerLost
  <2>5. CASE RemoveTable \/ ExistsTable \/ CreateTable \/ AppendTable
    BY <1>2, <2>4, <2>5 DEF RemoveTable, ExistsTable, CreateTable, AppendTable, Called, pastVars
  <2> QED
    BY <1>6, <2>1, <2>2, <2>3, <2>5 DEF Writing
<1>7. CASE \E t \in {Absent, db.work \cup {"user"}} : UserStatement(t)
  BY <1>2, <1>7 DEF UserStatement, Refuses, AnswerLost, Stay, callVars, Succeeds
<1>8. CASE Interrupt \/ Unreachable
  BY <1>2, <1>8 DEF Interrupt, Unreachable
<1>9. CASE OpenQuery \/ ClearResult \/ BackendDies \/ Reconnect \/ UNCHANGED vars
  BY <1>9 DEF OpenQuery, ClearResult, BackendDies, Reconnect, Stay, callVars, pastVars, vars
<1> QED
  BY <1>4, <1>5, <1>6, <1>7, <1>8, <1>9 DEF Next

LEMMA RestoringStep ==
  ASSUME Sound, Restoring, [Next]_vars
  PROVE  Restoring'
<1>1. Settled(db)'
  BY SettledStep DEF Restoring, Settled
<1>2. Settled(before.db)'
  <2>1. Settled(NoCall.db)
    BY DEF Settled, NoCall
  <2> QED
    BY <2>1, CallKept DEF Restoring, Settled
<1>3. DurableKept'
  <2>1. CASE stage # "none" /\ stage' # "none"
    <3>1. redshift' = redshift /\ before' = before /\ job' = job
      BY <2>1, CallKept
    <3>2. Complete' = Complete /\ (Unprotected' <=> Unprotected)
      BY <3>1 DEF Complete, Unprotected
    <3> QED
      BY <2>1, <3>1, <3>2, DurableStep DEF Restoring, DurableKept
  <2>2. CASE stage = "none" /\ stage' # "none"
    BY <2>2, CallKept DEF DurableKept
  <2> QED
    BY <2>1, <2>2 DEF DurableKept
<1>4. Held'
  BY HeldStep DEF Restoring, Held
<1> QED
  BY <1>1, <1>2, <1>3, <1>4 DEF Restoring, Held

LEMMA AlwaysRestoring == Spec => [](Sound /\ Restoring)
<1>1. Init => Restoring
  BY DEF Init, Restoring, Settled, NoCall, DurableKept, Handlers, Seen, Undoing, Armed
<1>2. Restoring /\ Sound /\ [Next]_vars => Restoring'
  BY RestoringStep
<1> QED
  BY <1>1, <1>2, AlwaysSound, PTL DEF Spec

\* A dbWriteTable() that fails, called by a user whose flag is right and who
\* has no savepoint of that name, and whose handler of on.exit() runs to its
\* end, leaves the table, the transaction and the savepoints as they were; the
\* table may also be complete, when an interrupt came after COMMIT.
THEOREM HandlersRestore == Spec => UndoneIsRestored
<1>1. ASSUME Sound, Restoring, [Next]_vars, ended = "running", ended' = "undone",
             KnownBefore, ~HasSavepoint(before.db, Writer), own => handler = "transaction"
      PROVE  /\ flag' = before.flag
             /\ db'.tx = before.db.tx /\ db'.saves = before.db.saves
             /\ db'.work \in {before.db.work, Complete}
  <2>1. ASSUME SetEnded, stage = "exit"
        PROVE  /\ flag' = before.flag
               /\ db'.tx = before.db.tx /\ db'.saves = before.db.saves
               /\ db'.work \in {before.db.work, Complete}
    <3>1. pc = "rolled_back" /\ flag' = FALSE /\ db' = db
      BY <1>1, <2>1 DEF SetEnded, Sound, Control
    <3>2. own /\ before.flag = FALSE
      BY <1>1, <2>1, <3>1 DEF Restoring, Handlers, Sound, TypeOK
    <3>3. db.tx = "idle" /\ before.db.tx = "idle"
      BY <1>1, <3>1, <3>2, BeforeType DEF Sound, Belief, KnownBefore
    <3>4. db.saves = <<>> /\ before.db.saves = <<>>
      BY <1>1, <3>3 DEF Sound, SavesNested, Nested
    <3>5. db.work \in {before.db.work, Complete}
      BY <1>1, <2>1, <3>2, <3>3 DEF Restoring, Settled, DurableKept, Unprotected
    <3> QED
      BY <3>1, <3>2, <3>3, <3>4, <3>5
  <2>2. ASSUME db.tx = "open", HasSavepoint(db, name), Succeeds(Release(db, name)),
               pc = "release", stage = "exit", flag' = flag
        PROVE  /\ flag' = before.flag
               /\ db'.tx = before.db.tx /\ db'.saves = before.db.saves
               /\ db'.work \in {before.db.work, Complete}
    <3>1. name = Writer /\ ~own /\ flag
      BY <1>1, <2>2 DEF Restoring, Handlers
    <3>2. before.flag = TRUE /\ flag = TRUE
      BY <1>1, <2>2, <3>1 DEF Restoring, Handlers, Sound, TypeOK
    <3>3. /\ Marked /\ Outer(db) = before.db.saves /\ before.db.tx = "open"
          /\ db.work = before.db.work
      BY <1>1, <2>2, <3>1 DEF Restoring, Undoing
    <3>4. db'.tx = "open" /\ db'.saves = Outer(db) /\ db'.work = db.work
      BY <1>1, <2>2, <3>1, <3>3, BeforeType, Releasing DEF Succeeds, Marked, OnTop
    <3> QED
      BY <2>2, <3>2, <3>3, <3>4
  <2>3. ~Raise
    BY <1>1 DEF Raise
  <2>4. CASE Transaction
    BY <1>1, <2>1, <2>3, <2>4 DEF Transaction, BeginTransaction, SetBegun, CommitTransaction,
       RollbackTransaction, SetEnded, RollbackRefused, Refuses, AnswerLost
  <2>5. CASE SavepointCall
    <3>1. CASE ReleaseRolledBack
      BY <1>1, <2>2, <2>3, <3>1 DEF ReleaseRolledBack, Refuses, AnswerLost
    <3> QED
      BY <1>1, <2>3, <2>5, <3>1 DEF SavepointCall, SetSavepoint, ReleaseSavepoint,
         RollbackToSavepoint, Refuses, AnswerLost
  <2>6. ~Writing
    <3>1. ASSUME NEW need, NEW t, NEW next, BodyStatement(need, t, next) PROVE FALSE
      BY <1>1, <2>3, <3>1 DEF BodyStatement, Refuses, AnswerLost
    <3> QED
      BY <1>1, <2>3, <3>1 DEF Writing, WriteTable, Arm, ArmOwn, RemoveTable,
         ExistsTable, CreateTable, AppendTable, Disarm, pastVars
  <2>7. ~\E t \in {Absent, db.work \cup {"user"}} : UserStatement(t)
    BY <1>1, <2>3 DEF UserStatement, Refuses, AnswerLost, Stay
  <2> QED
    BY <1>1, <2>3, <2>4, <2>5, <2>6, <2>7
       DEF Next, OpenQuery, ClearResult, Interrupt, BackendDies, Unreachable, Reconnect,
           Stay, vars, pastVars
<1> QED
  BY <1>1, AlwaysRestoring, PTL DEF Spec, UndoneIsRestored

=============================================================================
