---------------------------- MODULE Session_proofs ----------------------------
(* Proofs about Session, for any set of results, any bound on the rows and   *)
(* any set of faults the theorem does not exclude.                           *)
EXTENDS Session, TLAPS

(***************************************************************************)
(* Type correctness.                                                       *)
(***************************************************************************)

LEMMA TypeInit == Init => TypeOK
  BY RowsAssumption DEF Init, TypeOK, Kinds

LEMMA TypeCreate ==
  ASSUME TypeOK, NEW r \in Results, NEW k \in Kinds, BeginCreate(r, k)
  PROVE  TypeOK'
<1>1. /\ server' \in BOOLEAN /\ link' \in BOOLEAN /\ conPtr' \in BOOLEAN
      /\ conn' \in {"ok", "bad", "finished"}
      /\ current' \in Results \cup {None}
      /\ stmt' \in Results \cup {None}
      /\ wire' \in Results \cup {None, CopyIn, CopyTail}
      /\ call' = "set_current" /\ thread' = "running"
  BY DEF TypeOK, BeginCreate, CheckConnection, Reset, connVars
<1>2. heap' \in [Results -> {"free", "ctor", "live"}]
  BY DEF TypeOK, BeginCreate
<1>3. kind' \in [Results -> Kinds]
  BY DEF TypeOK, BeginCreate
<1>4. /\ ready' \in [Results -> BOOLEAN] /\ complete' \in [Results -> BOOLEAN]
      /\ told' \in [Results -> BOOLEAN]
  BY DEF TypeOK, BeginCreate
<1>5. owed' \in [Results -> 0..MaxRows]
  BY RowsAssumption DEF TypeOK, BeginCreate
<1>6. ran' \in [Results -> Results \cup {None}]
  BY DEF TypeOK, BeginCreate
<1> QED
  BY <1>1, <1>2, <1>3, <1>4, <1>5, <1>6 DEF TypeOK

LEMMA TypeConstructor ==
  ASSUME TypeOK, NEW r \in Results, Constructor(r)
  PROVE  TypeOK'
<1>1. CASE SetCurrentResult(r)
  BY <1>1 DEF TypeOK, SetCurrentResult, CleanupQuery, FinishQuery, Reset, connVars, resVars
<1>2. CASE SetCurrentSpins(r) \/ SetCurrentDangles(r) \/ ConstructorSpins(r)
  BY <1>2 DEF TypeOK, SetCurrentSpins, SetCurrentDangles, ConstructorSpins,
              linkVars, connVars, resVars
<1>3. CASE Prepare(r)
  BY <1>3 DEF TypeOK, Prepare, PrepareUnnamed, linkVars
<1>4. CASE Execute(r)
  BY <1>4 DEF TypeOK, Execute, StartStatement, linkVars
<1>5. CASE ConstructorFails(r)
  BY <1>5 DEF TypeOK, ConstructorFails, ResetCurrent, linkVars, resVars
<1> QED
  BY <1>1, <1>2, <1>3, <1>4, <1>5 DEF Constructor

LEMMA TypeRelease ==
  ASSUME TypeOK, NEW r \in Results, Release(r)
  PROVE  TypeOK'
<1>1. CASE ReleaseInactive(r)
  BY <1>1 DEF TypeOK, ReleaseInactive, Finish, connVars, resVars
<1>2. CASE ReleaseActive(r)
  BY <1>2 DEF TypeOK, ReleaseActive, Finish, CleanupQuery, FinishQuery, Reset,
              ResetCurrent, connVars, resVars
<1>3. CASE ReleaseSwallows(r)
  BY <1>3 DEF TypeOK, ReleaseSwallows, Finish, connVars, resVars
<1>4. CASE ReleaseSpins(r)
  BY <1>4 DEF TypeOK, ReleaseSpins, linkVars, connVars, resVars
<1> QED
  BY <1>1, <1>2, <1>3, <1>4 DEF Release

LEMMA TypeFetch ==
  ASSUME TypeOK, NEW r \in Results, Fetch(r)
  PROVE  TypeOK'
<1>1. HandOver(r) => owed' \in [Results -> 0..MaxRows]
  BY RowsAssumption DEF TypeOK, HandOver
<1>2. CASE FetchRow(r)
  BY <1>1, <1>2 DEF TypeOK, FetchRow, linkVars, connVars
<1>3. CASE FetchToEnd(r)
  BY <1>1, <1>3 DEF TypeOK, FetchToEnd, linkVars
<1>4. CASE FetchFails(r)
  BY <1>4 DEF TypeOK, FetchFails, linkVars
<1>5. CASE FetchFindsCopy(r)
  BY <1>1, <1>5 DEF TypeOK, FetchFindsCopy, linkVars, connVars
<1>6. CASE FetchForeign(r)
  BY <1>1, <1>6 DEF TypeOK, FetchForeign, linkVars, connVars
<1>7. CASE FetchLate(r)
  BY <1>7 DEF TypeOK, FetchLate, linkVars, connVars, resVars
<1> QED
  BY <1>2, <1>3, <1>4, <1>5, <1>6, <1>7 DEF Fetch

LEMMA TypeBind ==
  ASSUME TypeOK, NEW r \in Results, BindCall(r)
  PROVE  TypeOK'
<1>1. CASE Bind(r)
  BY <1>1 DEF TypeOK, Bind, StartStatement, linkVars
<1>2. CASE BindFails(r)
  <2>1. /\ told' \in [Results -> BOOLEAN] /\ ready' \in [Results -> BOOLEAN]
        /\ complete' \in [Results -> BOOLEAN]
    BY <1>2 DEF TypeOK, BindFails
  <2>2. owed' \in [Results -> 0..MaxRows]
    BY <1>2, RowsAssumption DEF TypeOK, BindFails
  <2>3. /\ conn' \in {"ok", "bad", "finished"}
        /\ wire' \in Results \cup {None, CopyIn, CopyTail}
    BY <1>2 DEF TypeOK, BindFails
  <2> QED
    BY <1>2, <2>1, <2>2, <2>3 DEF TypeOK, BindFails, linkVars
<1>3. CASE BindSpins(r) \/ BindLate(r)
  BY <1>3 DEF TypeOK, BindSpins, BindLate, linkVars, connVars, resVars
<1>4. CASE BindNothing(r)
  BY <1>4, RowsAssumption DEF TypeOK, BindNothing, linkVars, connVars
<1> QED
  BY <1>1, <1>2, <1>3, <1>4 DEF BindCall

LEMMA TypeConnection ==
  ASSUME TypeOK, Connection
  PROVE  TypeOK'
<1>1. CASE Copy
  BY <1>1 DEF TypeOK, Copy, CopyBegin, CopyRefused, CopyDone, CopyLost, CopyFails,
              EndCopy, SyncCall, SyncLost, linkVars, resVars
<1>2. CASE LargeObject \/ WaitForNotify
  BY <1>2 DEF TypeOK, LargeObject, WaitForNotify, SyncCall, SyncLost, linkVars, resVars
<1>3. CASE CheckCall \/ Disconnect \/ CollectConnection
  BY <1>3 DEF TypeOK, CheckCall, Disconnect, CollectConnection, Reset, Finish,
              connVars, resVars
<1> QED
  BY <1>1, <1>2, <1>3 DEF Connection

LEMMA TypeEnvironment ==
  ASSUME TypeOK, Environment
  PROVE  TypeOK'
  BY DEF TypeOK, Environment, BackendDies, ServerGoes, ServerReturns, connVars, resVars

LEMMA TypeNext == TypeOK /\ [Next]_vars => TypeOK'
<1> SUFFICES ASSUME TypeOK, [Next]_vars PROVE TypeOK'
  OBVIOUS
<1>1. CASE UNCHANGED vars
  BY <1>1 DEF TypeOK, vars, linkVars, connVars, resVars
<1>2. CASE Next
  BY <1>2, TypeCreate, TypeConstructor, TypeRelease, TypeFetch, TypeBind,
     TypeConnection, TypeEnvironment DEF Next
<1> QED
  BY <1>1, <1>2

\* Whatever the faults, every state of the session is well formed.
THEOREM TypeCorrect == Spec => []TypeOK
  BY TypeInit, TypeNext, PTL DEF Spec

(***************************************************************************)
(* What holds while a result is being constructed.  A constructor is       *)
(* several steps, and the garbage collector releases other results between *)
(* them: this is the part of the state that they leave to the constructor. *)
(***************************************************************************)

\* At most one DbResult is being constructed, it is the current one as soon as
\* set_current_result() has returned, and nobody takes the unnamed statement
\* from it before it is executed.  R holds the connection during a call.
Constructing ==
  /\ \A p, q \in Results : heap[p] = "ctor" /\ heap[q] = "ctor" => p = q
  /\ \A p \in Results : heap[p] = "ctor" => call \in {"set_current", "prepare", "execute"}
  /\ call \in {"prepare", "execute"} => current \in Results /\ heap[current] = "ctor"
  /\ call = "execute" => kind[current] = "immediate" \/ stmt = current
  /\ call = "copy" => stmt = None
  /\ call # "idle" => conPtr

LEMMA ConstructingInit == Init => Constructing
  BY DEF Init, Constructing

LEMMA ConstructingCreate ==
  ASSUME TypeOK, Constructing, NEW r \in Results, NEW k \in Kinds, BeginCreate(r, k)
  PROVE  Constructing'
  BY DEF TypeOK, Constructing, BeginCreate

LEMMA ConstructingConstructor ==
  ASSUME TypeOK, Constructing, NEW r \in Results, Constructor(r)
  PROVE  Constructing'
<1>1. CASE SetCurrentResult(r)
  BY <1>1 DEF TypeOK, Constructing, SetCurrentResult, resVars
<1>2. CASE SetCurrentSpins(r) \/ SetCurrentDangles(r) \/ ConstructorSpins(r)
  BY <1>2 DEF Constructing, SetCurrentSpins, SetCurrentDangles, ConstructorSpins,
              linkVars, connVars, resVars
<1>3. CASE Prepare(r)
  BY <1>3 DEF TypeOK, Constructing, Prepare, PrepareUnnamed
<1>4. CASE Execute(r)
  BY <1>4 DEF TypeOK, Constructing, Execute
<1>5. CASE ConstructorFails(r)
  BY <1>5 DEF TypeOK, Constructing, ConstructorFails
<1> QED
  BY <1>1, <1>2, <1>3, <1>4, <1>5 DEF Constructor

LEMMA ConstructingRelease ==
  ASSUME TypeOK, Constructing, NEW r \in Results, Release(r)
  PROVE  Constructing'
<1>1. CASE ReleaseInactive(r)
  BY <1>1 DEF TypeOK, Constructing, ReleaseInactive, LastOwner, connVars, resVars
<1>2. CASE ReleaseActive(r)
  BY <1>2 DEF TypeOK, Constructing, ReleaseActive, LastOwner, resVars,
              CleanupQuery, FinishQuery, Reset, connVars
<1>3. CASE ReleaseSwallows(r)
  BY <1>3 DEF TypeOK, Constructing, ReleaseSwallows, LastOwner, connVars, resVars
<1>4. CASE ReleaseSpins(r)
  BY <1>4 DEF Constructing, ReleaseSpins, linkVars, connVars, resVars
<1> QED
  BY <1>1, <1>2, <1>3, <1>4 DEF Release

LEMMA ConstructingFetch ==
  ASSUME TypeOK, Constructing, NEW r \in Results, Fetch(r)
  PROVE  Constructing'
  BY DEF Constructing, Fetch, Fetching, FetchRow, FetchToEnd, FetchFails,
         FetchFindsCopy, FetchForeign, FetchLate, linkVars, connVars, resVars

LEMMA ConstructingBind ==
  ASSUME TypeOK, Constructing, NEW r \in Results, BindCall(r)
  PROVE  Constructing'
  BY DEF Constructing, BindCall, Binding, Bind, StartStatement, BindFails,
         BindSpins, BindLate, BindNothing, linkVars, connVars, resVars

LEMMA ConstructingConnection ==
  ASSUME TypeOK, Constructing, Connection
  PROVE  Constructing'
<1>1. CASE CopyBegin \/ CopyRefused \/ CopyDone \/ CopyLost \/ CopyFails
  BY <1>1 DEF TypeOK, Constructing, MayCall, CopyBegin, CopyRefused, CopyDone, CopyLost,
              CopyFails, linkVars, resVars
<1>2. CASE LargeObject \/ WaitForNotify \/ CheckCall \/ Disconnect \/ CollectConnection
  BY <1>2 DEF TypeOK, Constructing, MayCall, LargeObject, WaitForNotify, CheckCall,
              Disconnect, CollectConnection, resVars
<1> QED
  BY <1>1, <1>2 DEF Connection, Copy

LEMMA ConstructingEnvironment ==
  ASSUME TypeOK, Constructing, Environment
  PROVE  Constructing'
  BY DEF Constructing, Environment, BackendDies, ServerGoes, ServerReturns,
         connVars, resVars

LEMMA ConstructingNext == TypeOK /\ Constructing /\ [Next]_vars => Constructing'
<1> SUFFICES ASSUME TypeOK, Constructing, [Next]_vars PROVE Constructing'
  OBVIOUS
<1>1. CASE UNCHANGED vars
  BY <1>1 DEF Constructing, vars, linkVars, connVars, resVars
<1>2. CASE Next
  BY <1>2, ConstructingCreate, ConstructingConstructor, ConstructingRelease,
     ConstructingFetch, ConstructingBind, ConstructingConnection,
     ConstructingEnvironment DEF Next
<1> QED
  BY <1>1, <1>2

\* Whatever the collector does in the middle of a constructor, it leaves the
\* constructor's result, its statement and its connection alone.
THEOREM ConstructorIsAlone == Spec => []Constructing
<1>1. Init => TypeOK /\ Constructing
  BY TypeInit, ConstructingInit
<1>2. TypeOK /\ Constructing /\ [Next]_vars => (TypeOK /\ Constructing)'
  BY TypeNext, ConstructingNext
<1> QED
  BY <1>1, <1>2, PTL DEF Spec

(***************************************************************************)
(* The unnamed statement of the backend belongs to the current result.     *)
(***************************************************************************)

LEMMA OwnerInit == Init => ActiveOwnsStatement
  BY DEF Init, ActiveOwnsStatement

LEMMA OwnerConstructor ==
  ASSUME TypeOK, Constructing, ActiveOwnsStatement, NEW r \in Results, Constructor(r)
  PROVE  ActiveOwnsStatement'
<1>1. CASE SetCurrentResult(r) \/ SetCurrentSpins(r) \/ SetCurrentDangles(r)
  BY <1>1 DEF Constructing, ActiveOwnsStatement, SetCurrentResult, SetCurrentSpins,
              SetCurrentDangles
<1>2. CASE Prepare(r)
  BY <1>2 DEF TypeOK, Constructing, ActiveOwnsStatement, Prepare, PrepareUnnamed
<1>3. CASE Execute(r)
  BY <1>3 DEF TypeOK, Constructing, ActiveOwnsStatement, Execute, StartStatement
<1>4. CASE ConstructorFails(r)
  BY <1>4 DEF ActiveOwnsStatement, ConstructorFails, ResetCurrent
<1>5. CASE ConstructorSpins(r)
  BY <1>5 DEF ActiveOwnsStatement, ConstructorSpins
<1> QED
  BY <1>1, <1>2, <1>3, <1>4, <1>5 DEF Constructor

LEMMA OwnerRelease ==
  ASSUME TypeOK, Constructing, ActiveOwnsStatement, NEW r \in Results, Release(r)
  PROVE  ActiveOwnsStatement'
<1>1. CASE ReleaseActive(r)
  BY <1>1 DEF ActiveOwnsStatement, ReleaseActive, ResetCurrent
<1>2. CASE ReleaseInactive(r) \/ ReleaseSwallows(r) \/ ReleaseSpins(r)
  BY <1>2 DEF ActiveOwnsStatement, ReleaseInactive, ReleaseSwallows, ReleaseSpins,
              Finish, connVars, resVars
<1> QED
  BY <1>1, <1>2 DEF Release

LEMMA OwnerFetch ==
  ASSUME ActiveOwnsStatement, NEW r \in Results, Fetch(r)
  PROVE  ActiveOwnsStatement'
  BY DEF ActiveOwnsStatement, Fetch, FetchRow, FetchToEnd, FetchFails,
         FetchFindsCopy, FetchForeign, FetchLate, connVars, resVars

LEMMA OwnerBind ==
  ASSUME ActiveOwnsStatement, NEW r \in Results, BindCall(r)
  PROVE  ActiveOwnsStatement'
  BY DEF ActiveOwnsStatement, BindCall, Binding, Bind, StartStatement, BindFails,
         BindSpins, BindLate, BindNothing, connVars, resVars

LEMMA OwnerConnection ==
  ASSUME TypeOK, Constructing, ActiveOwnsStatement, Connection
  PROVE  ActiveOwnsStatement'
  BY DEF Constructing, ActiveOwnsStatement, Connection, Copy, CopyBegin, CopyRefused,
         CopyDone, CopyLost, CopyFails, LargeObject, WaitForNotify, CheckCall, Disconnect,
         CollectConnection, SyncCall, SyncLost, Reset, Finish, connVars, resVars

LEMMA OwnerNext ==
  TypeOK /\ Constructing /\ ActiveOwnsStatement /\ [Next]_vars => ActiveOwnsStatement'
<1> SUFFICES ASSUME TypeOK, Constructing, ActiveOwnsStatement, [Next]_vars
             PROVE  ActiveOwnsStatement'
  OBVIOUS
<1>1. CASE UNCHANGED vars
  BY <1>1 DEF ActiveOwnsStatement, vars, connVars, resVars
<1>2. ASSUME NEW r \in Results, NEW k \in Kinds, BeginCreate(r, k)
      PROVE  ActiveOwnsStatement'
  BY <1>2 DEF ActiveOwnsStatement, BeginCreate
<1>3. CASE Environment
  BY <1>3 DEF ActiveOwnsStatement, Environment, BackendDies, ServerGoes, ServerReturns,
              connVars, resVars
<1> QED
  BY <1>1, <1>2, <1>3, OwnerConstructor, OwnerRelease, OwnerFetch, OwnerBind,
     OwnerConnection DEF Next

\* The invariant that carries the theorems below.
Owner == TypeOK /\ Constructing /\ ActiveOwnsStatement

LEMMA OwnerAlways == Spec => []Owner
<1>1. Init => Owner
  BY TypeInit, ConstructingInit, OwnerInit DEF Owner
<1>2. Owner /\ [Next]_vars => Owner'
  BY TypeNext, ConstructingNext, OwnerNext DEF Owner
<1> QED
  BY <1>1, <1>2, PTL DEF Spec

\* Whatever fails, the unnamed statement, when there is one, was prepared for
\* the current result: every prepared dbBind() on it runs its own SQL.
THEOREM StatementIsOwned == Spec => []ActiveOwnsStatement
<1>1. Owner => ActiveOwnsStatement
  BY DEF Owner
<1> QED
  BY <1>1, OwnerAlways, PTL

(***************************************************************************)
(* What waits on the wire belongs to the current result.                   *)
(***************************************************************************)

\* PQfinish() leaves nothing to read.
FinishedIsSilent == conn = "finished" => wire = None

Wire == WireBelongsToCurrent /\ FinishedIsSilent

LEMMA WireConstructor ==
  ASSUME TypeOK, Constructing, Wire, NEW r \in Results, Constructor(r)
  PROVE  Wire'
<1>1. CASE SetCurrentResult(r)
  BY <1>1, NamesAssumption DEF TypeOK, Wire, WireBelongsToCurrent, FinishedIsSilent,
     SetCurrentResult, CleanupQuery, FinishQuery, Reset, connVars
<1>2. CASE SetCurrentSpins(r) \/ SetCurrentDangles(r) \/ ConstructorSpins(r)
  BY <1>2 DEF Wire, WireBelongsToCurrent, FinishedIsSilent, SetCurrentSpins,
     SetCurrentDangles, ConstructorSpins, connVars
<1>3. CASE Prepare(r)
  BY <1>3, NamesAssumption DEF Wire, WireBelongsToCurrent, FinishedIsSilent, Prepare,
     PrepareUnnamed
<1>4. CASE Execute(r)
  BY <1>4, NamesAssumption DEF Constructing, Wire, WireBelongsToCurrent,
     FinishedIsSilent, Execute, StartStatement
<1>5. CASE ConstructorFails(r)
  BY <1>5, NamesAssumption DEF Wire, WireBelongsToCurrent, FinishedIsSilent,
     ConstructorFails
<1> QED
  BY <1>1, <1>2, <1>3, <1>4, <1>5 DEF Constructor

LEMMA WireRelease ==
  ASSUME TypeOK, Constructing, Wire, NEW r \in Results, Release(r)
  PROVE  Wire'
<1>1. CASE ReleaseActive(r)
  BY <1>1, NamesAssumption DEF Wire, WireBelongsToCurrent, FinishedIsSilent,
     ReleaseActive, Finish, CleanupQuery, FinishQuery, Reset, connVars
<1>2. CASE ReleaseInactive(r) \/ ReleaseSwallows(r) \/ ReleaseSpins(r)
  BY <1>2, NamesAssumption DEF Wire, WireBelongsToCurrent, FinishedIsSilent,
     ReleaseInactive, ReleaseSwallows, ReleaseSpins, Finish, connVars
<1> QED
  BY <1>1, <1>2 DEF Release

LEMMA WireFetch ==
  ASSUME Wire, NEW r \in Results, Fetch(r)
  PROVE  Wire'
  BY NamesAssumption DEF Wire, WireBelongsToCurrent, FinishedIsSilent, Fetch, FetchRow,
     FetchToEnd, FetchFails, FetchFindsCopy, FetchForeign, FetchLate, connVars

LEMMA WireBind ==
  ASSUME Wire, "stale_bind" \notin Faults, NEW r \in Results, BindCall(r)
  PROVE  Wire'
  BY NamesAssumption DEF Wire, WireBelongsToCurrent, FinishedIsSilent, BindCall, Binding,
     Sendable, Bind, StartStatement, BindFails, BindSpins, BindLate, BindNothing, connVars

LEMMA WireConnection ==
  ASSUME Constructing, Wire, Connection
  PROVE  Wire'
<1>1. CASE Copy
  BY <1>1, NamesAssumption DEF Wire, WireBelongsToCurrent, FinishedIsSilent, Copy,
     CopyBegin, CopyRefused, CopyDone, EndCopy, CopyLost, CopyFails, SyncFails,
     SyncCall, SyncLost
<1>2. CASE LargeObject \/ WaitForNotify
  BY <1>2, NamesAssumption DEF Wire, WireBelongsToCurrent, FinishedIsSilent,
     LargeObject, WaitForNotify, SyncFails, SyncCall, SyncLost
<1>3. CASE CheckCall \/ Disconnect \/ CollectConnection
  BY <1>3, NamesAssumption DEF Wire, WireBelongsToCurrent, FinishedIsSilent,
     CheckCall, Disconnect, CollectConnection, Finish, Reset, connVars
<1> QED
  BY <1>1, <1>2, <1>3 DEF Connection

LEMMA WireNext ==
  ASSUME "stale_bind" \notin Faults
  PROVE  Owner /\ Wire /\ [Next]_vars => Wire'
<1> SUFFICES ASSUME Owner, Wire, [Next]_vars PROVE Wire'
  OBVIOUS
<1> USE DEF Owner
<1>1. CASE UNCHANGED vars
  BY <1>1 DEF Wire, WireBelongsToCurrent, FinishedIsSilent, vars, connVars
<1>2. ASSUME NEW r \in Results, NEW k \in Kinds, BeginCreate(r, k)
      PROVE  Wire'
  BY <1>2, NamesAssumption DEF Wire, WireBelongsToCurrent, FinishedIsSilent, BeginCreate,
     CheckConnection, Reset, connVars
<1>3. CASE Environment
  BY <1>3 DEF Wire, WireBelongsToCurrent, FinishedIsSilent, Environment, BackendDies,
     ServerGoes, ServerReturns, connVars
<1> QED
  BY <1>1, <1>2, <1>3, WireConstructor, WireRelease, WireFetch, WireBind,
     WireConnection DEF Next

LEMMA WireAlways ==
  ASSUME "stale_bind" \notin Faults
  PROVE  Spec => [](Owner /\ Wire)
<1>1. Init => Wire
  BY NamesAssumption DEF Init, Wire, WireBelongsToCurrent, FinishedIsSilent
<1>2. Owner /\ Wire /\ [Next]_vars => Wire'
  BY WireNext
<1> QED
  BY <1>1, <1>2, OwnerAlways, PTL DEF Spec

\* Unless a replaced result is bound again, nobody can read the rows of
\* another result, through any order of releases, rebinds and failures.
THEOREM WireIsOwned ==
  ASSUME "stale_bind" \notin Faults
  PROVE  Spec => []WireBelongsToCurrent
<1>1. Owner /\ Wire => WireBelongsToCurrent
  BY DEF Wire
<1> QED
  BY <1>1, WireAlways, PTL

(***************************************************************************)
(* The promises that cost an assumption on the faults.                     *)
(***************************************************************************)

(***************************************************************************)
(* A result executes and hands out its own statement only.                 *)
(***************************************************************************)

LEMMA RanNext ==
  ASSUME "stale_bind" \notin Faults
  PROVE  Owner /\ Wire /\ RunsOwnStatement /\ [Next]_vars => RunsOwnStatement'
<1> SUFFICES ASSUME Owner, Wire, RunsOwnStatement, [Next]_vars
             PROVE  RunsOwnStatement'
  OBVIOUS
<1> USE DEF Owner, RunsOwnStatement
<1>1. ASSUME NEW r \in Results, NEW k \in Kinds, BeginCreate(r, k)
      PROVE  RunsOwnStatement'
  BY <1>1 DEF TypeOK, BeginCreate
<1>2. ASSUME NEW r \in Results, Execute(r)
      PROVE  RunsOwnStatement'
  BY <1>2 DEF TypeOK, Constructing, Execute, StartStatement
<1>3. ASSUME NEW r \in Results, Bind(r)
      PROVE  RunsOwnStatement'
  BY <1>3, NamesAssumption DEF TypeOK, ActiveOwnsStatement, Bind, Binding, StartStatement
<1>4. ASSUME NEW r \in Results, FetchForeign(r)
      PROVE  RunsOwnStatement'
  BY <1>4 DEF FetchForeign, Fetching, Wire, WireBelongsToCurrent
<1>5. CASE UNCHANGED ran
  BY <1>5
<1>6. ASSUME NEW r \in Results, Constructor(r) \/ Release(r)
      PROVE  RunsOwnStatement'
  BY <1>2, <1>5, <1>6 DEF Constructor, Release, SetCurrentResult, SetCurrentSpins,
     SetCurrentDangles, Prepare, ConstructorFails, ConstructorSpins, ReleaseInactive,
     ReleaseActive, ReleaseSwallows, ReleaseSpins, resVars
<1>7. ASSUME NEW r \in Results, Fetch(r) \/ BindCall(r)
      PROVE  RunsOwnStatement'
  BY <1>3, <1>4, <1>5, <1>7 DEF Fetch, BindCall, FetchRow, FetchToEnd, FetchFails,
     FetchFindsCopy, FetchLate, BindFails, BindSpins, BindLate, BindNothing, resVars
<1>8. CASE Connection \/ Environment \/ UNCHANGED vars
  BY <1>5, <1>8 DEF Connection, Copy, CopyBegin, CopyRefused, CopyDone, CopyLost,
     CopyFails, LargeObject, WaitForNotify, CheckCall, Disconnect, CollectConnection,
     Environment, BackendDies, ServerGoes, ServerReturns, vars, resVars
<1> QED
  BY <1>1, <1>6, <1>7, <1>8 DEF Next

\* Unless a replaced result is bound again, no result ever executes, or hands
\* out a row of, a statement other than the one it was created with.
THEOREM OwnStatementOnly ==
  ASSUME "stale_bind" \notin Faults
  PROVE  Spec => []RunsOwnStatement
<1>1. Init => RunsOwnStatement
  BY DEF Init, RunsOwnStatement
<1>2. Owner /\ Wire /\ RunsOwnStatement /\ [Next]_vars => RunsOwnStatement'
  BY RanNext
<1> QED
  BY <1>1, <1>2, WireAlways, PTL DEF Spec

(***************************************************************************)
(* The current result is an allocated object as long as every reconnection *)
(* succeeds: ~DbResult then never swallows an error before the reset.      *)
(***************************************************************************)

Reachable == server = TRUE /\ CurrentIsAllocated

LEMMA ReachableNext ==
  ASSUME "outage" \notin Faults
  PROVE  TypeOK /\ Reachable /\ [Next]_vars => Reachable'
<1> SUFFICES ASSUME TypeOK, Reachable, [Next]_vars PROVE Reachable'
  OBVIOUS
<1> USE DEF TypeOK, Reachable, CurrentIsAllocated
<1>1. ASSUME NEW r \in Results, NEW k \in Kinds, BeginCreate(r, k)
      PROVE  Reachable'
  BY <1>1 DEF BeginCreate
<1>2. ASSUME NEW r \in Results, Constructor(r)
      PROVE  Reachable'
  BY <1>2 DEF Constructor, SetCurrentResult, SetCurrentSpins, SetCurrentDangles, Prepare,
     Execute, ConstructorFails, ConstructorSpins, ResetCurrent, linkVars
<1>3. ASSUME NEW r \in Results, Release(r)
      PROVE  Reachable'
  BY <1>3 DEF Release, ReleaseInactive, ReleaseActive, ReleaseSwallows, ReleaseSpins,
     ResetCurrent, CleanupThrows, CheckThrows, linkVars
<1>4. ASSUME NEW r \in Results, Fetch(r) \/ BindCall(r)
      PROVE  Reachable'
  BY <1>4 DEF Fetch, FetchRow, FetchToEnd, FetchFails, FetchFindsCopy, FetchForeign,
     FetchLate, BindCall, Bind, BindFails, BindSpins, BindLate, BindNothing, linkVars
<1>5. CASE Connection
  BY <1>5 DEF Connection, Copy, CopyBegin, CopyRefused, CopyDone, CopyLost, CopyFails,
     LargeObject, WaitForNotify, CheckCall, Disconnect, CollectConnection, linkVars
<1>6. CASE Environment \/ UNCHANGED vars
  BY <1>6 DEF Environment, BackendDies, ServerGoes, ServerReturns, vars, linkVars
<1> QED
  BY <1>1, <1>2, <1>3, <1>4, <1>5, <1>6 DEF Next

\* While the server accepts connections, pCurrentResult_ never dangles, in
\* spite of dying backends, misuse and the garbage collector.
THEOREM CurrentIsSafe ==
  ASSUME "outage" \notin Faults
  PROVE  Spec => []CurrentIsAllocated
<1>1. Init => TypeOK /\ Reachable
  BY TypeInit DEF Init, Reachable, CurrentIsAllocated
<1>2. TypeOK /\ Reachable /\ [Next]_vars => (TypeOK /\ Reachable)'
  BY TypeNext, ReachableNext
<1>3. Reachable => CurrentIsAllocated
  BY DEF Reachable
<1> QED
  BY <1>1, <1>2, <1>3, PTL DEF Spec

\* If moreover results are left alone after dbDisconnect(), no call works on a
\* destroyed DbResult or a freed PGconn.
THEOREM NoUndefinedBehaviour ==
  ASSUME "outage" \notin Faults, "late_use" \notin Faults
  PROVE  Spec => []NeverDangles
<1>1. Init => TypeOK /\ Reachable /\ NeverDangles
  BY TypeInit DEF Init, Reachable, CurrentIsAllocated, NeverDangles
<1>2. TypeOK /\ Reachable /\ NeverDangles /\ [Next]_vars
        => (TypeOK /\ Reachable /\ NeverDangles)'
  <2> SUFFICES ASSUME TypeOK, Reachable, NeverDangles, [Next]_vars
               PROVE  NeverDangles'
    BY TypeNext, ReachableNext
  <2> USE DEF NeverDangles
  <2>1. CASE UNCHANGED thread
    BY <2>1
  <2>2. ASSUME NEW r \in Results, Constructor(r)
        PROVE  NeverDangles'
    BY <2>1, <2>2 DEF Constructor, SetCurrentResult, SetCurrentSpins, SetCurrentDangles,
       Reachable, CurrentIsAllocated, Prepare, Execute, ConstructorFails, ConstructorSpins
  <2>3. ASSUME NEW r \in Results, Release(r)
        PROVE  NeverDangles'
    BY <2>1, <2>3 DEF Release, ReleaseInactive, ReleaseActive, ReleaseSwallows,
       ReleaseSpins
  <2>4. ASSUME NEW r \in Results, Fetch(r) \/ BindCall(r)
        PROVE  NeverDangles'
    BY <2>1, <2>4 DEF Fetch, FetchRow, FetchToEnd, FetchFails, FetchFindsCopy,
       FetchForeign, FetchLate, BindCall, Bind, BindFails, BindSpins, BindLate, BindNothing
  <2>5. CASE Connection
    BY <2>1, <2>5 DEF Connection, Copy, CopyBegin, CopyRefused, CopyDone, CopyLost,
       CopyFails, LargeObject, WaitForNotify, CheckCall, Disconnect, CollectConnection
  <2>6. CASE Environment \/ UNCHANGED vars \/ \E r \in Results, k \in Kinds : BeginCreate(r, k)
    BY <2>1, <2>6 DEF Environment, BackendDies, ServerGoes, ServerReturns, vars, BeginCreate
  <2> QED
    BY <2>2, <2>3, <2>4, <2>5, <2>6 DEF Next
<1> QED
  BY <1>1, <1>2, PTL DEF Spec

(***************************************************************************)
(* A result that has been replaced stays replaced.                         *)
(***************************************************************************)

Retired(r) ==
  heap[r] = "live" /\ current # r =>
    current' # r /\ owed'[r] = owed[r] /\ ran'[r] = ran[r]

LEMMA RetiredStep ==
  ASSUME "stale_bind" \notin Faults, Owner, [Next]_vars, NEW r \in Results
  PROVE  Retired(r)
<1> USE DEF Owner, Retired
<1>1. CASE current' = current /\ owed' = owed /\ ran' = ran
  BY <1>1
<1>2. ASSUME NEW q \in Results, NEW k \in Kinds, BeginCreate(q, k)
      PROVE  Retired(r)
  BY <1>2 DEF TypeOK, BeginCreate
<1>3. ASSUME NEW q \in Results, Constructor(q)
      PROVE  Retired(r)
  BY <1>1, <1>3, NamesAssumption DEF TypeOK, Constructor, SetCurrentResult, SetCurrentSpins,
     SetCurrentDangles, Prepare, Execute, StartStatement, ConstructorFails,
     ConstructorSpins, ResetCurrent, resVars
<1>4. ASSUME NEW q \in Results, Release(q)
      PROVE  Retired(r)
  BY <1>1, <1>4, NamesAssumption DEF Release, ReleaseInactive, ReleaseActive,
     ReleaseSwallows, ReleaseSpins, ResetCurrent, resVars
<1>5. ASSUME NEW q \in Results, Fetch(q)
      PROVE  Retired(r)
  BY <1>1, <1>5 DEF TypeOK, Fetch, Fetching, FetchRow, FetchToEnd, FetchFails,
     FetchFindsCopy, FetchForeign, FetchLate, HandOver, resVars
<1>6. ASSUME NEW q \in Results, BindCall(q)
      PROVE  Retired(r)
  BY <1>1, <1>6 DEF TypeOK, BindCall, Binding, Bind, StartStatement, BindFails,
     BindSpins, BindLate, BindNothing, resVars
<1>7. CASE Connection \/ Environment \/ UNCHANGED vars
  BY <1>1, <1>7 DEF Connection, Copy, CopyBegin, CopyRefused, CopyDone, CopyLost,
     CopyFails, LargeObject, WaitForNotify, CheckCall, Disconnect, CollectConnection,
     Environment, BackendDies, ServerGoes, ServerReturns, vars, resVars
<1> QED
  BY <1>2, <1>3, <1>4, <1>5, <1>6, <1>7 DEF Next

\* Unless a replaced result is bound again, it never becomes current again,
\* hands out a row or executes anything: dbSendQuery() has ended it for good.
THEOREM ReplacedForGood ==
  ASSUME "stale_bind" \notin Faults
  PROVE  Spec => InactiveIsFinal
<1>1. Owner /\ [Next]_vars => [\A r \in Results : Retired(r)]_vars
  BY RetiredStep
<1> QED
  BY <1>1, OwnerAlways, PTL DEF Spec, InactiveIsFinal, Retired

(***************************************************************************)
(* The PGconn does not leak.                                               *)
(***************************************************************************)

LEMMA ReleasedNext ==
  Owner /\ ConnectionIsReleased /\ [Next]_vars => ConnectionIsReleased'
<1> SUFFICES ASSUME Owner, ConnectionIsReleased, [Next]_vars
             PROVE  ConnectionIsReleased'
  OBVIOUS
<1> USE DEF Owner, ConnectionIsReleased
<1>1. ASSUME NEW r \in Results, NEW k \in Kinds, BeginCreate(r, k)
      PROVE  ConnectionIsReleased'
  BY <1>1 DEF BeginCreate
<1>2. ASSUME NEW r \in Results, Constructor(r)
      PROVE  ConnectionIsReleased'
  BY <1>2 DEF Constructing, Constructor, SetCurrentResult, SetCurrentSpins,
     SetCurrentDangles, Prepare, Execute, ConstructorFails, ConstructorSpins
<1>3. ASSUME NEW r \in Results, ReleaseActive(r)
      PROVE  ConnectionIsReleased'
  <2>1. CASE LastOwner(r)
    BY <1>3, <2>1 DEF ReleaseActive, Finish
  <2>2. CASE ~LastOwner(r)
    BY <1>3, <2>2 DEF TypeOK, ReleaseActive, LastOwner
  <2> QED
    BY <2>1, <2>2
<1>4. ASSUME NEW r \in Results,
             ReleaseInactive(r) \/ ReleaseSwallows(r) \/ ReleaseSpins(r)
      PROVE  ConnectionIsReleased'
  BY <1>4 DEF TypeOK, ReleaseInactive, ReleaseSwallows, ReleaseSpins, LastOwner, Finish,
     connVars
<1>5. ASSUME NEW r \in Results, Fetch(r) \/ BindCall(r)
      PROVE  ConnectionIsReleased'
  BY <1>5 DEF Fetch, Fetching, FetchRow, FetchToEnd, FetchFails, FetchFindsCopy,
     FetchForeign, FetchLate, BindCall, Binding, Bind, BindFails, BindSpins, BindLate,
     BindNothing, connVars
<1>6. CASE Connection
  BY <1>6 DEF Connection, Constructing, MayCall, Copy, CopyBegin, CopyRefused, CopyDone,
     CopyLost, CopyFails, LargeObject, WaitForNotify, CheckCall, Disconnect,
     CollectConnection, Finish
<1>7. CASE Environment \/ UNCHANGED vars
  BY <1>7 DEF Environment, BackendDies, ServerGoes, ServerReturns, vars, connVars
<1> QED
  BY <1>1, <1>2, <1>3, <1>4, <1>5, <1>6, <1>7 DEF Next, Release

\* In whatever order R drops the connection and its results, and whatever
\* failed before, the last of them finishes the PGconn.
THEOREM ConnectionIsFreed == Spec => []ConnectionIsReleased
<1>1. Init => ConnectionIsReleased
  BY DEF Init, ConnectionIsReleased
<1>2. Owner /\ ConnectionIsReleased /\ [Next]_vars => ConnectionIsReleased'
  BY ReleasedNext
<1> QED
  BY <1>1, <1>2, OwnerAlways, PTL DEF Spec

(***************************************************************************)
(* When COPY ends properly, and only runs while no result is open, libpq   *)
(* is never left in the middle of a COPY.                                  *)
(***************************************************************************)

CopyIsTidy ==
  /\ wire # CopyTail
  /\ wire = CopyIn => call = "copy"
  /\ call = "copy" => current = None

LEMMA TidyNext ==
  ASSUME "busy_call" \notin Faults, "copy_error" \notin Faults
  PROVE  Owner /\ CopyIsTidy /\ [Next]_vars => CopyIsTidy'
<1> SUFFICES ASSUME Owner, CopyIsTidy, [Next]_vars PROVE CopyIsTidy'
  OBVIOUS
<1> USE NamesAssumption DEF Owner, CopyIsTidy
<1>1. ASSUME NEW r \in Results, NEW k \in Kinds, BeginCreate(r, k)
      PROVE  CopyIsTidy'
  BY <1>1 DEF BeginCreate, CheckConnection, Reset, connVars
<1>2. ASSUME NEW r \in Results, Constructor(r)
      PROVE  CopyIsTidy'
  BY <1>2 DEF Constructor, SetCurrentResult, CleanupQuery, FinishQuery, Reset,
     SetCurrentSpins, SetCurrentDangles, Prepare, PrepareUnnamed, Execute,
     StartStatement, ConstructorFails, ConstructorSpins, connVars
<1>3. ASSUME NEW r \in Results, Release(r)
      PROVE  CopyIsTidy'
  BY <1>3 DEF Release, ReleaseInactive, ReleaseActive, ReleaseSwallows, ReleaseSpins,
     CleanupQuery, FinishQuery, ResetCurrent, Reset, Finish, connVars
<1>4. ASSUME NEW r \in Results, Fetch(r)
      PROVE  CopyIsTidy'
  BY <1>4 DEF Fetch, Fetching, FetchRow, FetchToEnd, FetchFails, FetchFindsCopy,
     FetchForeign, FetchLate, connVars
<1>5. ASSUME NEW r \in Results, BindCall(r)
      PROVE  CopyIsTidy'
  BY <1>5 DEF BindCall, Binding, Bind, StartStatement, BindFails, BindSpins, BindLate,
     BindNothing, connVars
<1>6. CASE Copy
  BY <1>6 DEF Copy, MayCall, CopyBegin, CopyRefused, CopyDone, EndCopy, CopyLost,
     CopyFails, SyncCall, SyncLost
<1>7. CASE LargeObject \/ WaitForNotify \/ CheckCall \/ Disconnect \/ CollectConnection
  BY <1>7 DEF MayCall, LargeObject, WaitForNotify, CheckCall, Disconnect,
     CollectConnection, SyncCall, SyncLost, Reset, Finish, connVars
<1>8. CASE Environment \/ UNCHANGED vars
  BY <1>8 DEF Environment, BackendDies, ServerGoes, ServerReturns, vars, connVars
<1> QED
  BY <1>1, <1>2, <1>3, <1>4, <1>5, <1>6, <1>7, <1>8 DEF Next, Connection

LEMMA TidyAlways ==
  ASSUME "busy_call" \notin Faults, "copy_error" \notin Faults
  PROVE  Spec => [](Owner /\ CopyIsTidy)
<1>1. Init => CopyIsTidy
  BY NamesAssumption DEF Init, CopyIsTidy
<1>2. Owner /\ CopyIsTidy /\ [Next]_vars => CopyIsTidy'
  BY TidyNext
<1> QED
  BY <1>1, <1>2, OwnerAlways, PTL DEF Spec

LEMMA SpinsNext ==
  Owner /\ CopyIsTidy /\ NeverSpins /\ [Next]_vars => NeverSpins'
<1> SUFFICES ASSUME Owner, CopyIsTidy, NeverSpins, [Next]_vars PROVE NeverSpins'
  OBVIOUS
<1> USE NamesAssumption DEF NeverSpins, CopyIsTidy
<1>1. ASSUME NEW r \in Results, NEW k \in Kinds, BeginCreate(r, k)
      PROVE  NeverSpins'
  BY <1>1 DEF BeginCreate
<1>2. ASSUME NEW r \in Results, Constructor(r)
      PROVE  NeverSpins'
  BY <1>2 DEF Constructor, SetCurrentResult, SetCurrentSpins, CleanupSpins, FinishSpins,
     SetCurrentDangles, Prepare, Execute, ConstructorFails, ConstructorSpins
<1>3. ASSUME NEW r \in Results, Release(r)
      PROVE  NeverSpins'
  BY <1>3 DEF Release, ReleaseInactive, ReleaseActive, ReleaseSwallows, ReleaseSpins,
     CleanupSpins, FinishSpins
<1>4. ASSUME NEW r \in Results, Fetch(r) \/ BindCall(r)
      PROVE  NeverSpins'
  BY <1>4 DEF Fetch, Fetching, FetchRow, FetchToEnd, FetchFails, FetchFindsCopy,
     FetchForeign, FetchLate, BindCall, Binding, Bind, BindFails, BindSpins, FinishSpins,
     BindLate, BindNothing
<1>5. CASE Connection \/ Environment \/ UNCHANGED vars
  BY <1>5 DEF Connection, Copy, CopyBegin, CopyRefused, CopyDone, CopyLost, CopyFails,
     LargeObject, WaitForNotify, CheckCall, Disconnect, CollectConnection,
     Environment, BackendDies, ServerGoes, ServerReturns, vars
<1> QED
  BY <1>1, <1>2, <1>3, <1>4, <1>5 DEF Next

\* As long as COPY succeeds and runs while no result is open, finish_query()
\* always ends.
THEOREM FinishEnds ==
  ASSUME "busy_call" \notin Faults, "copy_error" \notin Faults
  PROVE  Spec => []NeverSpins
<1>1. Init => NeverSpins
  BY DEF Init, NeverSpins
<1>2. Owner /\ CopyIsTidy /\ NeverSpins /\ [Next]_vars => NeverSpins'
  BY SpinsNext
<1> QED
  BY <1>1, <1>2, TidyAlways, PTL DEF Spec

(***************************************************************************)
(* The wire is idle when a constructor sends, because every way to lose or *)
(* to replace the current result has emptied it before.                    *)
(***************************************************************************)

Orderly ==
  /\ conn = "bad" => wire = None
  /\ current \in Results /\ heap[current] = "free" => wire = None
  /\ current \in Results /\ heap[current] = "ctor" /\ call = "set_current" => wire = None
  /\ SendFindsIdleWire

Calm == Owner /\ Wire /\ CopyIsTidy

LEMMA OrderlyConstructor ==
  ASSUME Calm, Orderly, NEW r \in Results, Constructor(r)
  PROVE  Orderly'
<1> USE NamesAssumption DEF Calm, Owner, Orderly, SendFindsIdleWire
<1>1. CASE SetCurrentResult(r)
  <2>1. current \in {None, r} => wire' = None
    BY <1>1 DEF TypeOK, SetCurrentResult, Wire, WireBelongsToCurrent, CopyIsTidy, connVars
  <2>2. current \notin {None, r} => wire' = None
    BY <1>1 DEF SetCurrentResult, CleanupQuery, FinishQuery, Reset, Wire,
       FinishedIsSilent, connVars
  <2> QED
    BY <2>1, <2>2
<1>2. CASE SetCurrentSpins(r) \/ SetCurrentDangles(r) \/ ConstructorSpins(r)
  BY <1>2 DEF SetCurrentSpins, SetCurrentDangles, ConstructorSpins, connVars
<1>3. CASE Prepare(r)
  BY <1>3 DEF Prepare, PrepareUnnamed
<1>4. CASE Execute(r)
  BY <1>4 DEF TypeOK, Constructing, Execute
<1>5. CASE ConstructorFails(r)
  BY <1>5 DEF ConstructorFails
<1> QED
  BY <1>1, <1>2, <1>3, <1>4, <1>5 DEF Constructor

LEMMA OrderlyRelease ==
  ASSUME Calm, Orderly, NEW r \in Results, Release(r)
  PROVE  Orderly'
<1> USE NamesAssumption DEF Calm, Owner, Orderly, SendFindsIdleWire
<1>1. CASE ReleaseInactive(r)
  BY <1>1 DEF TypeOK, ReleaseInactive, Finish, connVars
<1>2. CASE ReleaseActive(r)
  BY <1>2 DEF ReleaseActive, ResetCurrent, Finish, CleanupQuery, FinishQuery, Reset, connVars
<1>3. CASE ReleaseSwallows(r)
  BY <1>3 DEF TypeOK, ReleaseSwallows, CleanupThrows, CheckThrows, Finish, connVars
<1>4. CASE ReleaseSpins(r)
  BY <1>4 DEF ReleaseSpins, connVars
<1> QED
  BY <1>1, <1>2, <1>3, <1>4 DEF Release

LEMMA OrderlyNext ==
  ASSUME "stale_bind" \notin Faults, "busy_call" \notin Faults
  PROVE  Calm /\ Orderly /\ [Next]_vars => Orderly'
<1> SUFFICES ASSUME Calm, Orderly, [Next]_vars PROVE Orderly'
  OBVIOUS
<1> USE NamesAssumption DEF Calm, Owner, Orderly, SendFindsIdleWire
<1>1. ASSUME NEW r \in Results, NEW k \in Kinds, BeginCreate(r, k)
      PROVE  Orderly'
  BY <1>1 DEF TypeOK, Constructing, BeginCreate, CheckConnection, Reset, connVars
<1>2. ASSUME NEW r \in Results, Fetch(r)
      PROVE  Orderly'
  BY <1>2 DEF Fetch, Fetching, FetchRow, FetchToEnd, FetchFails, FetchFindsCopy,
     FetchForeign, FetchLate, connVars
<1>3. ASSUME NEW r \in Results, BindCall(r)
      PROVE  Orderly'
  BY <1>3 DEF BindCall, Binding, Sendable, Bind, StartStatement, BindFails, BindSpins,
     BindLate, BindNothing, connVars
<1>4. CASE Copy
  BY <1>4 DEF Copy, MayCall, CopyBegin, CopyRefused, CopyDone, EndCopy, CopyLost,
     CopyFails, SyncFails, SyncCall, SyncLost, CopyIsTidy
<1>5. CASE LargeObject
  BY <1>5 DEF MayCall, LargeObject, SyncCall, SyncLost
<1>6. CASE WaitForNotify
  BY <1>6 DEF TypeOK, MayCall, WaitForNotify, Wire, WireBelongsToCurrent, CopyIsTidy
<1>7. CASE CheckCall \/ Disconnect \/ CollectConnection
  BY <1>7 DEF CheckCall, Disconnect, CollectConnection, Finish, Reset, connVars
<1>8. CASE Environment \/ UNCHANGED vars
  BY <1>8 DEF Environment, BackendDies, ServerGoes, ServerReturns, vars, connVars
<1> QED
  BY <1>1, <1>2, <1>3, <1>4, <1>5, <1>6, <1>7, <1>8, OrderlyConstructor, OrderlyRelease
  DEF Next, Connection

\* The assumption under which nothing but dbBind() on the current result, the
\* constructors and the destructors touch the wire.
Disciplined == Faults \subseteq {"outage", "late_use"}

LEMMA OrderlyAlways == ASSUME Disciplined PROVE Spec => [](Calm /\ Orderly)
<1>0. "stale_bind" \notin Faults /\ "busy_call" \notin Faults /\ "copy_error" \notin Faults
  BY DEF Disciplined
<1>1. Spec => [](Owner /\ Wire)
  BY <1>0, WireAlways
<1>2. Spec => [](Owner /\ CopyIsTidy)
  BY <1>0, TidyAlways
<1>3. Init => Orderly
  BY NamesAssumption DEF Init, Orderly, SendFindsIdleWire
<1>4. Calm /\ Orderly /\ [Next]_vars => Orderly'
  BY <1>0, OrderlyNext
<1>5. Owner /\ Wire /\ Owner /\ CopyIsTidy => Calm
  BY DEF Calm
<1> QED
  BY <1>1, <1>2, <1>3, <1>4, <1>5, PTL DEF Spec

\* Whatever the server and the collector do, a disciplined user's constructor
\* never finds another command in progress when it sends.
THEOREM SendIsAccepted == ASSUME Disciplined PROVE Spec => []SendFindsIdleWire
<1>1. Calm /\ Orderly => SendFindsIdleWire
  BY DEF Orderly
<1> QED
  BY <1>1, OrderlyAlways, PTL

(***************************************************************************)
(* A complete result has handed over all its rows or told its user.        *)
(***************************************************************************)

\* Until an error is told, the rest of the current result is on the wire.
Kept ==
  \A r \in Results :
    /\ heap[r] = "ctor" => ~ready[r]
    /\ heap[r] = "live" /\ ready[r] /\ ~complete[r] /\ ~told[r]
         /\ current = r /\ conn # "finished" => wire = r

Told == Kept /\ NoSilentTruncation

\* What StartStatement leaves: only r changes, and what it owes is on the wire.
LEMMA Started ==
  ASSUME TypeOK, NEW r \in Results, StartStatement(r)
  PROVE  /\ ready'[r] /\ (complete'[r] => owed'[r] = 0) /\ (~complete'[r] => wire' = r)
         /\ \A q \in Results \ {r} :
              /\ ready'[q] = ready[q] /\ complete'[q] = complete[q]
              /\ told'[q] = told[q] /\ owed'[q] = owed[q]
<1>1. PICK rows \in 0..MaxRows, query \in BOOLEAN :
        /\ ready' = [ready EXCEPT ![r] = TRUE]
        /\ complete' = [complete EXCEPT ![r] = (rows = 0)]
        /\ owed' = [owed EXCEPT ![r] = rows]
        /\ told' = [told EXCEPT ![r] = FALSE]
        /\ wire' = IF rows > 0 \/ (~query /\ kind[r] # "immediate") THEN r ELSE None
  BY DEF StartStatement
<1>2. rows \in Int /\ rows >= 0
  BY RowsAssumption
<1>3. ready'[r] /\ owed'[r] = rows /\ (complete'[r] <=> rows = 0)
  BY <1>1, Zenon DEF TypeOK
<1>4. (complete'[r] => owed'[r] = 0) /\ (~complete'[r] => wire' = r)
  <2>1. CASE rows = 0
    BY <1>3, <2>1
  <2>2. CASE rows > 0
    BY <1>1, <1>3, <2>2
  <2> QED
    BY <1>2, <2>1, <2>2
<1>5. ASSUME NEW q \in Results \ {r}
      PROVE  /\ ready'[q] = ready[q] /\ complete'[q] = complete[q]
             /\ told'[q] = told[q] /\ owed'[q] = owed[q]
  BY <1>1 DEF TypeOK
<1> QED
  BY <1>3, <1>4, <1>5, Zenon

LEMMA ToldConstructor ==
  ASSUME Calm, Orderly, Told, NEW r \in Results, Constructor(r)
  PROVE  Told'
<1> USE NamesAssumption DEF Calm, Owner, Told, Kept, NoSilentTruncation
<1>1. CASE SetCurrentResult(r)
  BY <1>1 DEF SetCurrentResult, resVars
<1>2. CASE SetCurrentSpins(r) \/ SetCurrentDangles(r) \/ ConstructorSpins(r)
  BY <1>2 DEF SetCurrentSpins, SetCurrentDangles, ConstructorSpins, connVars, resVars
<1>3. CASE Prepare(r)
  BY <1>3 DEF TypeOK, Constructing, Prepare, PrepareUnnamed
<1>4. CASE Execute(r)
  BY <1>4, Started DEF TypeOK, Constructing, Execute
<1>5. CASE ConstructorFails(r)
  BY <1>5 DEF TypeOK, ConstructorFails, ResetCurrent, resVars
<1> QED
  BY <1>1, <1>2, <1>3, <1>4, <1>5 DEF Constructor

LEMMA ToldRelease ==
  ASSUME Calm, Orderly, Told, NEW r \in Results, Release(r)
  PROVE  Told'
<1> USE NamesAssumption DEF Calm, Owner, Told, Kept, NoSilentTruncation
<1>1. CASE ReleaseInactive(r) \/ ReleaseSwallows(r) \/ ReleaseSpins(r)
  BY <1>1 DEF TypeOK, ReleaseInactive, ReleaseSwallows, ReleaseSpins, LastOwner, Finish,
     linkVars, connVars, resVars
<1>2. CASE ReleaseActive(r)
  BY <1>2 DEF TypeOK, ReleaseActive, ResetCurrent, resVars
<1> QED
  BY <1>1, <1>2 DEF Release

LEMMA ToldFetch ==
  ASSUME Calm, Orderly, Told, NEW r \in Results, Fetch(r)
  PROVE  Told'
<1> USE NamesAssumption DEF Calm, Owner, Told, Kept, NoSilentTruncation
<1>1. CASE FetchRow(r)
  BY <1>1 DEF TypeOK, FetchRow, Fetching, HandOver, connVars
<1>2. CASE FetchToEnd(r)
  <2>1. told[r] \/ owed[r] = 1
    BY <1>2 DEF FetchToEnd, Fetching, AtEnd, CopyIsTidy
  <2> QED
    BY <1>2, <2>1 DEF TypeOK, FetchToEnd, Fetching, HandOver
<1>3. CASE FetchFails(r)
  BY <1>3 DEF TypeOK, FetchFails, Fetching
<1>4. CASE FetchFindsCopy(r)
  BY <1>4 DEF FetchFindsCopy, Fetching, CopyIsTidy
<1>5. CASE FetchForeign(r)
  BY <1>5 DEF FetchForeign, Fetching, Wire, WireBelongsToCurrent
<1>6. CASE FetchLate(r)
  BY <1>6 DEF FetchLate, connVars, resVars
<1> QED
  BY <1>1, <1>2, <1>3, <1>4, <1>5, <1>6 DEF Fetch

LEMMA ToldBind ==
  ASSUME "stale_bind" \notin Faults,
         Calm, Orderly, Told, NEW r \in Results, BindCall(r)
  PROVE  Told'
<1> USE NamesAssumption DEF Calm, Owner, Told, Kept, NoSilentTruncation
<1>1. CASE Bind(r)
  BY <1>1, Started DEF TypeOK, Bind, Binding
<1>2. CASE BindFails(r)
  BY <1>2 DEF TypeOK, BindFails, Binding
<1>3. CASE BindSpins(r) \/ BindLate(r)
  BY <1>3 DEF BindSpins, BindLate, connVars, resVars
<1>4. CASE BindNothing(r)
  BY <1>4 DEF TypeOK, BindNothing, Binding, connVars
<1> QED
  BY <1>1, <1>2, <1>3, <1>4 DEF BindCall

LEMMA ToldNext ==
  ASSUME "stale_bind" \notin Faults, "busy_call" \notin Faults
  PROVE  Calm /\ Orderly /\ Told /\ [Next]_vars => Told'
<1> SUFFICES ASSUME Calm, Orderly, Told, [Next]_vars PROVE Told'
  OBVIOUS
<1> USE NamesAssumption DEF Calm, Owner, Told, Kept, NoSilentTruncation
<1>1. ASSUME NEW r \in Results, NEW k \in Kinds, BeginCreate(r, k)
      PROVE  Told'
  BY <1>1 DEF TypeOK, BeginCreate, CheckConnection, Reset, Orderly, connVars
<1>2. CASE Copy
  BY <1>2 DEF Constructing, Copy, MayCall, CopyBegin, CopyRefused, CopyDone, CopyLost,
     CopyFails, CopyIsTidy, resVars
<1>3. CASE LargeObject \/ WaitForNotify
  BY <1>3 DEF MayCall, LargeObject, WaitForNotify, resVars
<1>4. CASE CheckCall \/ Disconnect \/ CollectConnection
  BY <1>4 DEF CheckCall, Disconnect, CollectConnection, Finish, Reset, Orderly,
     connVars, resVars
<1>5. CASE Environment \/ UNCHANGED vars
  BY <1>5 DEF Environment, BackendDies, ServerGoes, ServerReturns, vars, connVars, resVars
<1> QED
  BY <1>1, <1>2, <1>3, <1>4, <1>5, ToldConstructor, ToldRelease, ToldFetch, ToldBind
  DEF Next, Connection

\* Whatever the server and the collector do, a disciplined user who sees a
\* complete result and no error has been given every row.
THEOREM NothingIsCutOff == ASSUME Disciplined PROVE Spec => []NoSilentTruncation
<1>0. "stale_bind" \notin Faults /\ "busy_call" \notin Faults
  BY DEF Disciplined
<1>1. Init => Told
  BY DEF Init, Told, Kept, NoSilentTruncation
<1>2. Calm /\ Orderly /\ Told /\ [Next]_vars => Told'
  BY <1>0, ToldNext
<1>3. Told => NoSilentTruncation
  BY DEF Told
<1> QED
  BY <1>1, <1>2, <1>3, OrderlyAlways, PTL DEF Spec

=============================================================================
