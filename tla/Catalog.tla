------------------------------- MODULE Catalog -------------------------------
(***************************************************************************)
(* Which table a name means: to the queries that RPostgres sends to        *)
(* information_schema (list_tables(), exists_table(), list_fields()), to   *)
(* the statements of dbRemoveTable() and dbWriteTable(), and to the server *)
(* that resolves it along search_path.  dbWriteTable() is several          *)
(* statements of one transaction, between which other sessions create,     *)
(* change and drop tables; a reconnection takes the temporary schema away. *)
(* The role owns every table.                                              *)
(***************************************************************************)
EXTENDS Integers, Sequences, FiniteSets, SequencesExt

CONSTANTS
  Schemas,      \* the permanent schemas
  TempSchemas,  \* the schemas that sessions get for temporary tables
  Names,        \* names of tables
  Catalogued,   \* those that pg_catalog has, too
  Paths,        \* settings of search_path
  Frames,       \* data frames: a sequence of column names, and whether it has rows
  Dialects,     \* classes of the connection: "postgres", "redshift"
  Resets,       \* the dialects whose connection is ever reset
  MaxAppends,   \* bound on the appends to a table
  MaxOthers,    \* bound on the changes other sessions make
  MaxCalls      \* bound on the calls of dbWriteTable()

PgCatalog == "pg_catalog"
NoSchema == "no schema"     \* NULL, NA or no qualification
NoTable == "no table"

ASSUME CatalogAssumption ==
  /\ Catalogued \subseteq Names /\ NoTable \notin Names
  /\ Schemas \cap TempSchemas = {}
  /\ {PgCatalog, "pg_temp", NoSchema} \cap (Schemas \cup TempSchemas) = {}
  /\ \A p \in Paths : p \in Seq(Schemas) /\ IsInjective(p)
  /\ \A f \in Frames : f.fields \in Seq(STRING) /\ f.rows \in BOOLEAN
  /\ Dialects \subseteq {"postgres", "redshift"} /\ Resets \subseteq Dialects
  /\ MaxAppends \in Nat /\ MaxOthers \in Nat /\ MaxCalls \in Nat

VARIABLES
  dialect,     \* the class of the connection
  path,        \* search_path
  own,         \* the temporary schema of the session, NoSchema before its first table
  tempSchema,  \* temp_schema_ of the DbConnection, NoSchema for NA
  tables,      \* what is committed: a table for each place
  view,        \* what the session sees: its own changes on top of that
  changed,     \* the places that dbWriteTable() has changed, and locks
  touched,     \* the places that others have changed since it began
  others,      \* the number of changes that others made
  calls,       \* the number of calls of dbWriteTable()
  call,        \* its arguments, and own when it began
  pc           \* "idle", or what dbWriteTable() does next

vars == <<dialect, path, own, tempSchema, tables, view, changed, touched, others, calls, call, pc>>

-----------------------------------------------------------------------------
(* The server.                                                             *)

Places == (Schemas \cup TempSchemas \cup {PgCatalog}) \X Names
Absent == [there |-> FALSE, fields |-> <<>>, rows |-> 0]
Table(fields, rows) == [there |-> TRUE, fields |-> fields, rows |-> rows]

\* current_schemas(true): temporary tables come first, then the catalog.
SearchPath == (IF own = NoSchema THEN <<PgCatalog>> ELSE <<own, PgCatalog>>) \o path

\* The alias of the own temporary schema.
Expand(s) == IF s = "pg_temp" THEN own ELSE s

\* Where on the path a table of that name is found: behind none other.
Hits(t, name) ==
  {k \in DOMAIN SearchPath : /\ t[<<SearchPath[k], name>>].there
                            /\ \A j \in 1..(k - 1) : ~t[<<SearchPath[j], name>>].there}

\* The schema in which the server finds a name; NoSchema if there is none.
Schema(t, id) ==
  IF id.schema # NoSchema THEN IF t[<<id.schema, id.table>>].there THEN id.schema ELSE NoSchema
  ELSE IF Hits(t, id.table) = {} THEN NoSchema
  ELSE SearchPath[CHOOSE k \in Hits(t, id.table) : TRUE]

\* The table that SELECT * FROM it reads, as in dbReadTable().
Read(t, id) == IF Schema(t, id) = NoSchema THEN Absent ELSE t[<<Schema(t, id), id.table>>]

\* INFORMATION_SCHEMA hides the temporary tables of the other sessions.
InformationSchema == {p \in Places : view[p].there /\ p[1] \notin TempSchemas \ {own}}

-----------------------------------------------------------------------------
(* tables.R                                                                *)

\* Mutant of Listed: current_schemas(false), which has no implicit schemas.
ListedWithoutTemp(id) ==
  {p \in InformationSchema : IF id.schema # NoSchema THEN p[1] = id.schema ELSE p[1] \in ToSet(path)}

\* list_tables(): without a schema, those on the path but for the catalog.
Listed(id) ==
  {p \in InformationSchema :
     IF id.schema # NoSchema THEN p[1] = id.schema
     ELSE p[1] \in ToSet(SearchPath) /\ p[1] # PgCatalog}

\* exists_table()
ExistsTable(id) == \E p \in Listed(id) : p[2] = id.table

\* The columns that list_fields() joins, by nr, the position on the path of the
\* schema that they are in; the catalog is left out unless it is named.
FieldsOnPath(id) ==
  LET schemas == IF id.schema # NoSchema THEN <<id.schema>> ELSE SearchPath
      Joined(s) == <<s, id.table>> \in InformationSchema /\ (s = PgCatalog => s = id.schema)
  IN [nr \in DOMAIN schemas |->
        IF Joined(schemas[nr]) THEN view[<<schemas[nr], id.table>>].fields ELSE <<>>]

\* Where a table of that name has columns, and where rank() OVER (ORDER BY nr) is 1.
Ranked(id) == {nr \in DOMAIN FieldsOnPath(id) : FieldsOnPath(id)[nr] # <<>>}
First(id) == {nr \in Ranked(id) : \A k \in Ranked(id) : nr <= k}

\* Mutant of ListFields: rank() and rnr = 1 are forgotten.
ListFieldsAll(id) == FlattenSeq(FieldsOnPath(id))

\* list_fields(), which stops if this is empty.  It does not rank the columns on
\* Redshift, nor when a schema is named.
ListFields(id) ==
  IF dialect = "redshift" \/ id.schema # NoSchema THEN FlattenSeq(FieldsOnPath(id))
  ELSE FlattenSeq([nr \in DOMAIN FieldsOnPath(id) |->
                     IF nr \in First(id) THEN FieldsOnPath(id)[nr] ELSE <<>>])

\* The top level of dbListObjects(): tables on the path, and all schemas.
ListObjects ==
  {[schema |-> NoSchema, table |-> p[2]] : p \in Listed([schema |-> NoSchema, table |-> NoTable])}
    \cup {[schema |-> p[1], table |-> NoTable] : p \in InformationSchema}

\* dbListObjects(prefix = Id(schema = s))
ListPrefix(s) == {[schema |-> p[1], table |-> p[2]] : p \in {q \in InformationSchema : q[1] = s}}

\* find_temp_schema(): on Redshift it asks the server, once per connection;
\* NoSchema if there is no temporary schema yet.
FindTempSchema ==
  IF tempSchema # NoSchema THEN tempSchema
  ELSE IF dialect = "redshift" THEN own ELSE "pg_temp"

\* Mutant of DropSchema: the prefix of the temporary schema is forgotten.
DropAnySchema(t, id, temporary) == Schema(t, id)

\* The schema from which DROP TABLE takes a table; NoSchema if there is none.
DropSchema(t, id, temporary) ==
  IF ~temporary THEN Schema(t, id)
  ELSE LET s == Expand(FindTempSchema) IN
       IF s # NoSchema /\ t[<<s, id.table>>].there THEN s ELSE NoSchema

\* DROP TABLE pg_temp."schema"."table" refers to another database.
DropRefused(id, temporary) ==
  \/ temporary /\ FindTempSchema # NoSchema /\ id.schema # NoSchema
  \/ DropSchema(view, id, temporary) = PgCatalog

Drop(t, id, temporary) ==
  IF DropSchema(t, id, temporary) = NoSchema THEN t
  ELSE [t EXCEPT ![<<DropSchema(t, id, temporary), id.table>>] = Absent]

-----------------------------------------------------------------------------
Id == [schema : Schemas \cup {NoSchema}, table : Names]

NoCall == [id |-> [schema |-> NoSchema, table |-> NoTable], overwrite |-> FALSE, append |-> FALSE,
           temporary |-> FALSE, frame |-> [fields |-> <<>>, rows |-> FALSE], own |-> NoSchema]

Init ==
  /\ dialect \in Dialects /\ path \in Paths
  /\ own = NoSchema /\ tempSchema = NoSchema
  /\ tables = [p \in Places |-> IF p[1] = PgCatalog /\ p[2] \in Catalogued
                                THEN Table(<<"oid">>, 1) ELSE Absent]
  /\ view = tables
  /\ changed = {} /\ touched = {} /\ others = 0 /\ calls = 0
  /\ call = NoCall /\ pc = "idle"

\* Another session, or a statement of the user's own between two calls,
\* creates, replaces or drops a table that is not locked.
OtherSession(p, t) ==
  /\ others < MaxOthers /\ p[1] # PgCatalog
  /\ p[1] = own => pc = "idle"
  /\ p \notin changed /\ t # view[p]
  /\ tables' = [tables EXCEPT ![p] = t] /\ view' = [view EXCEPT ![p] = t]
  /\ touched' = IF pc = "idle" THEN {} ELSE touched \cup {p}
  /\ others' = others + 1
  /\ UNCHANGED <<dialect, path, own, tempSchema, changed, calls, call, pc>>

\* SET search_path, by the user.
SetPath(p) ==
  /\ pc = "idle" /\ p # path
  /\ path' = p
  /\ UNCHANGED <<dialect, own, tempSchema, tables, view, changed, touched, others, calls, call, pc>>

\* check_connection() resets the connection: a new session for the server, in
\* which search_path has its default, for a DbConnection that keeps its fields.
Reset(p) ==
  /\ pc = "idle" /\ dialect \in Resets
  /\ own' = NoSchema /\ path' = p
  /\ tables' = [q \in Places |-> IF q[1] = own THEN Absent ELSE tables[q]]
  /\ view' = tables'
  /\ UNCHANGED <<dialect, tempSchema, changed, touched, others, calls, call, pc>>

\* dbRemoveTable(), as a statement of its own.  Without a temporary schema on
\* Redshift it stops or returns TRUE.
RemoveTable(id, temporary) ==
  /\ pc = "idle"
  /\ tempSchema' = IF temporary THEN FindTempSchema ELSE tempSchema
  /\ tables' = IF DropRefused(id, temporary) THEN tables ELSE Drop(tables, id, temporary)
  /\ view' = tables'
  /\ UNCHANGED <<dialect, path, own, changed, touched, others, calls, call, pc>>

\* dbWriteTable() up to its savepoint.
WriteTable(id, overwrite, append, temporary, frame) ==
  /\ pc = "idle" /\ calls < MaxCalls
  /\ ~(overwrite /\ append)
  /\ call' = [id |-> id, overwrite |-> overwrite, append |-> append,
              temporary |-> temporary, frame |-> frame, own |-> own]
  /\ calls' = calls + 1
  /\ pc' = IF overwrite THEN "remove" ELSE "exists"
  /\ UNCHANGED <<dialect, path, own, tempSchema, tables, view, changed, touched, others>>

\* Back to R, with all the call's changes or with none.
End ==
  /\ changed' = {} /\ touched' = {}
  /\ call' = NoCall /\ pc' = "idle"
  /\ UNCHANGED <<dialect, path, others, calls>>

\* A statement fails, or stopc(): on.exit rolls back.
Fail == view' = tables /\ own' = call.own /\ UNCHANGED tables /\ End

\* The session's view changes to v, in one place, and the next thing is step.
Change(v, place, step) ==
  /\ view' = v /\ changed' = changed \cup {place}
  /\ pc' = step
  /\ UNCHANGED <<dialect, path, tables, touched, others, calls, call>>

Unchanged(step) ==
  /\ pc' = step
  /\ UNCHANGED <<dialect, path, own, tables, view, changed, touched, others, calls, call>>

\* dbRemoveTable(fail_if_missing = FALSE)
RemoveOld ==
  /\ pc = "remove"
  /\ tempSchema' = IF call.temporary THEN FindTempSchema ELSE tempSchema
  /\ LET s == DropSchema(view, call.id, call.temporary) IN
     IF DropRefused(call.id, call.temporary) THEN Fail
     ELSE IF s = NoSchema THEN Unchanged("create")
     ELSE /\ Change(Drop(view, call.id, call.temporary), <<s, call.id.table>>, "create")
          /\ UNCHANGED own

\* Mutant of Refused: a table that exists is appended to.
RefusedNever == FALSE

\* "exists in database, and both overwrite and append are FALSE"
Refused == ExistsTable(call.id) /\ ~call.append

\* What follows once the table is there: nothing if there are no rows.
AfterCreate == IF call.frame.rows THEN "append" ELSE "commit"

Exists ==
  /\ pc = "exists"
  /\ UNCHANGED tempSchema
  /\ IF Refused THEN Fail
     ELSE Unchanged(IF ExistsTable(call.id) THEN AfterCreate ELSE "create")

\* The schemas that CREATE TABLE may take.  The first temporary table gives
\* the session a schema of its own.
CreateSchemas ==
  IF call.temporary
    THEN IF call.id.schema # NoSchema THEN {}
         ELSE IF own # NoSchema THEN {own}
         ELSE {s \in TempSchemas : \A n \in Names : ~view[<<s, n>>].there}
    ELSE IF call.id.schema # NoSchema THEN {call.id.schema}
         ELSE {path[k] : k \in DOMAIN path \cap {1}}

\* dbCreateTable()
Create ==
  /\ pc = "create"
  /\ UNCHANGED tempSchema
  /\ LET free == {s \in CreateSchemas : ~view[<<s, call.id.table>>].there} IN
     \/ \E s \in free :
          /\ Change([view EXCEPT ![<<s, call.id.table>>] = Table(call.frame.fields, 0)],
                    <<s, call.id.table>>, AfterCreate)
          /\ own' = IF call.temporary THEN s ELSE own
     \/ free = {} /\ Fail

\* db_append_table(): COPY names the columns of the data frame.
AppendTable ==
  /\ pc = "append"
  /\ UNCHANGED tempSchema
  /\ LET s == Schema(view, call.id)
         t == Read(view, call.id)
         place == <<s, call.id.table>>
         fits == /\ t.there /\ s # PgCatalog /\ t.rows < MaxAppends
                 /\ ToSet(call.frame.fields) \subseteq ToSet(t.fields)
     IN IF fits THEN Change([view EXCEPT ![place].rows = @ + 1], place, "commit") /\ UNCHANGED own
        ELSE Fail

Commit ==
  /\ pc = "commit"
  /\ tables' = view
  /\ UNCHANGED <<own, tempSchema, view>>
  /\ End

Bare == {Absent, Table(<<>>, 0)} \cup {Table(f.fields, 0) : f \in Frames}

Next ==
  \/ \E p \in Places, t \in Bare : OtherSession(p, t)
  \/ \E p \in Paths : SetPath(p) \/ Reset(p)
  \/ \E id \in Id, temporary \in BOOLEAN : RemoveTable(id, temporary)
  \/ \E id \in Id, overwrite, append, temporary \in BOOLEAN, f \in Frames :
       WriteTable(id, overwrite, append, temporary, f)
  \/ RemoveOld \/ Exists \/ Create \/ AppendTable \/ Commit

Spec == Init /\ [][Next]_vars

-----------------------------------------------------------------------------
(* What makes a name mean the same thing to everyone.                      *)

\* dbExistsTable() is TRUE exactly for the names that SELECT finds, temporary
\* tables and other schemas on the path included.  The catalog's own tables
\* are not taken for tables.
ExistsIffRead ==
  \A id \in Id : id.table \notin Catalogued => (ExistsTable(id) <=> Read(view, id).there)

\* dbListFields() names the columns of the table that SELECT reads, not those of
\* another schema's.  Redshift gives the columns of all the tables of that
\* name; a table without columns counts as none.
FieldsAreThoseRead ==
  \A id \in Id :
    LET t == Read(view, id) IN
    /\ t.there /\ t.fields # <<>> /\ id.table \notin Catalogued
    /\ dialect = "postgres" \/ \A j, k \in Ranked(id) : j = k
    => ListFields(id) = t.fields

\* What dbListObjects() lists can be read under the name it gives, a schema it
\* lists is not empty, and no table that can be read is missing.
ObjectsAreComplete ==
  /\ \A o \in ListObjects : o.table # NoTable => Read(view, o).there
  /\ \A o \in ListObjects : o.table = NoTable => ListPrefix(o.schema) # {}
  /\ \A id \in Id : Read(view, id).there =>
        \E o \in ListObjects : [schema |-> Schema(view, id), table |-> id.table] \in ListPrefix(o.schema)

\* The queries of the catalog that R makes on its own agree with the server's
\* resolution of the name.
QueriesAgree == ExistsIffRead /\ FieldsAreThoseRead /\ ObjectsAreComplete

\* When dbWriteTable() returns, its name reads the data frame it wrote, and after
\* append = TRUE perhaps a table that was there and has the new rows: the table
\* that was looked for, the one dropped, the one created, the one copied into
\* and the one read are the same, unless another session has put a table in
\* front of it meanwhile, or pg_catalog has one, which exists_table() ignores.
WrittenIsRead ==
  pc = "commit" /\ call.id.table \notin Catalogued =>
    LET p == <<Schema(view, call.id), call.id.table>>
        added == IF call.frame.rows THEN 1 ELSE 0
        t == Read(view, call.id)
    IN \/ p \in touched \ changed
       \/ changed = {}    \* found, and there are no rows to add
       \/ t = Table(call.frame.fields, added)
       \/ call.append /\ t.there /\ t = [tables[p] EXCEPT !.rows = @ + added]

\* dbWriteTable() changes only tables of the name it was given.  It replaces one
\* only for overwrite = TRUE, and adds rows to one that was there only for
\* append = TRUE; else it makes a new one.
ChangesAreAskedFor ==
  \A p \in changed :
    /\ p[2] = call.id.table
    /\ call.id.schema \in {NoSchema, p[1]}
    /\ tables[p].there =>
         \/ call.overwrite
         \/ call.append /\ view[p] = [tables[p] EXCEPT !.rows = @ + 1]

\* "If `TRUE`, only temporary tables are considered" (dbRemoveTable): for
\* temporary = TRUE nothing but tables of the session's own temporary schema
\* is dropped or created.  With append = TRUE dbWriteTable() adds to any table.
TemporaryStaysOwn ==
  [][/\ call.temporary /\ ~call.append => \A p \in changed : p[1] = own
     /\ \A id \in Id : RemoveTable(id, TRUE) =>
          \A p \in Places : tables'[p] # tables[p] => p[1] = own]_vars

=============================================================================
