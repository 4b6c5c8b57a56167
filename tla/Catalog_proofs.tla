---------------------------- MODULE Catalog_proofs ----------------------------
(***************************************************************************)
(* What a name means to dbWriteTable(), dbRemoveTable() and                *)
(* dbExistsTable(), for any schemas, search paths and names, and any other *)
(* sessions.                                                               *)
(*                                                                         *)
(* The argument is about which table is the first of its name on the path: *)
(* dbWriteTable() creates one where nothing can cover it but a table that  *)
(* another session creates later, and the tables it has changed are        *)
(* locked.                                                                 *)
(***************************************************************************)
EXTENDS Catalog, FiniteSetTheorems, WellFoundedInduction, TLAPS

\* The columns of a table, and the tables.
Lists == {<<>>, <<"oid">>} \cup {f.fields : f \in Frames}
Tabs == [there : BOOLEAN, fields : Lists, rows : Nat]
OwnSchemas == TempSchemas \cup {NoSchema}
Calls == [id : Id, overwrite : BOOLEAN, append : BOOLEAN, temporary : BOOLEAN,
          frame : Frames, own : OwnSchemas]

TypeOK ==
  /\ dialect \in Dialects /\ path \in Paths
  /\ own \in OwnSchemas /\ tempSchema \in OwnSchemas \cup {"pg_temp"}
  /\ tables \in [Places -> Tabs] /\ view \in [Places -> Tabs]
  /\ changed \subseteq Places /\ touched \subseteq Places
  /\ pc \in {"idle", "remove", "exists", "create", "append", "commit"}
  /\ pc # "idle" => call \in Calls

\* The place of the table that dbWriteTable() is about, in that schema.
Place(s) == <<s, call.id.table>>

\* The session sees what is committed, but for its own changes.
Seeing ==
  /\ \A p \in Places \ changed : view[p] = tables[p]
  /\ pc \in {"idle", "remove", "exists"} => changed = {}
  /\ \A p \in changed : p[1] # PgCatalog

\* The tables of the catalog are there for good.
CatalogStays ==
  \A n \in Names : view[<<PgCatalog, n>>].there <=> n \in Catalogued

\* The temporary schema that R knows is the session's, or an alias for it, as
\* long as no connection to Redshift is reset.
TempKnown ==
  "redshift" \notin Resets =>
    /\ dialect = "postgres" => tempSchema \in {NoSchema, "pg_temp"}
    /\ dialect = "redshift" => tempSchema \in {NoSchema, own}
    /\ dialect = "redshift" /\ pc # "idle" => tempSchema \in {NoSchema, call.own}

\* The arguments, and the stages they lead to.
Stages ==
  pc # "idle" =>
    /\ ~(call.overwrite /\ call.append)
    /\ pc = "remove" => call.overwrite
    /\ pc = "exists" => ~call.overwrite
    /\ pc \in {"remove", "exists", "create"} => own = call.own
    /\ pc = "create" /\ ~call.overwrite => changed = {}
    /\ pc = "append" => call.frame.rows

\* What has been changed is what the call is about.
Asked ==
  \A p \in changed :
    /\ pc # "idle" /\ p[2] = call.id.table
    /\ call.id.schema \in {NoSchema, p[1]}
    /\ "redshift" \notin Resets /\ call.temporary /\ ~call.append => p[1] = own

\* No temporary table hides the one to be created.
Uncovered ==
  ~call.temporary /\ call.id.schema = NoSchema /\ own # NoSchema => ~view[Place(own)].there

\* Where dbCreateTable() creates the table.
Target == IF call.id.schema # NoSchema THEN call.id.schema
          ELSE IF call.temporary THEN own ELSE path[1]

\* The table is the one just created, with the rows just added.
Created ==
  /\ call.temporary => call.id.schema = NoSchema /\ own # NoSchema
  /\ call.id.schema = NoSchema /\ ~call.temporary => path # <<>>
  /\ Uncovered
  /\ Place(Target) \in changed
  /\ ~call.overwrite => changed = {Place(Target)} /\ ~tables[Place(Target)].there
  /\ view[Place(Target)] =
       Table(call.frame.fields, IF pc = "commit" /\ call.frame.rows THEN 1 ELSE 0)

\* Rows were added to the table in schema s, the first of its name then.
Extended(s) ==
  LET c == Place(s) IN
  /\ changed = {c} /\ call.frame.rows
  /\ tables[c].there /\ view[c] = [tables[c] EXCEPT !.rows = @ + 1]
  /\ IF call.id.schema # NoSchema THEN s = call.id.schema
     ELSE \E i \in DOMAIN SearchPath :
            /\ s = SearchPath[i]
            /\ \A j \in 1..(i - 1) : view[Place(SearchPath[j])].there => Place(SearchPath[j]) \in touched

\* The table was found; there was nothing to add, or it has been added.
Found ==
  /\ call.append
  /\ changed # {} => pc = "commit" /\ \E s \in Schemas \cup TempSchemas : Extended(s)

Written ==
  /\ pc = "create" => Uncovered
  /\ pc \in {"append", "commit"} => Created \/ Found

Inv == TypeOK /\ Seeing /\ CatalogStays /\ TempKnown /\ Stages /\ Asked /\ Written

-----------------------------------------------------------------------------
(* Names and places.                                                       *)

LEMMA Constants ==
  /\ NoSchema \notin Schemas \cup TempSchemas \cup {PgCatalog}
  /\ PgCatalog \notin Schemas \cup TempSchemas /\ PgCatalog # NoSchema
  /\ "pg_temp" \notin Schemas \cup TempSchemas /\ Schemas \cap TempSchemas = {}
  /\ \A p \in Paths : p \in Seq(Schemas)
  /\ \A f \in Frames : f.rows \in BOOLEAN /\ f.fields \in Lists
  /\ Dialects \subseteq {"postgres", "redshift"} /\ Resets \subseteq Dialects
  /\ MaxAppends \in Nat /\ "pg_temp" # NoSchema /\ "postgres" # "redshift"
<1>1. PgCatalog # NoSchema /\ "pg_temp" # NoSchema /\ "postgres" # "redshift"
  BY DEF PgCatalog, NoSchema
<1> QED
  BY <1>1, CatalogAssumption DEF Lists

LEMMA PlaceIs ==
  ASSUME NEW p \in Places
  PROVE  /\ p = <<p[1], p[2]>> /\ p[2] \in Names
         /\ p[1] \in Schemas \cup TempSchemas \cup {PgCatalog}
BY DEF Places

LEMMA IsPlace ==
  ASSUME NEW s \in Schemas \cup TempSchemas \cup {PgCatalog}, NEW n \in Names
  PROVE  <<s, n>> \in Places /\ <<s, n>>[1] = s /\ <<s, n>>[2] = n
BY DEF Places

LEMMA TableIs ==
  /\ Absent \in Tabs /\ Absent.there = FALSE
  /\ \A f \in Lists, r \in Nat : Table(f, r) \in Tabs /\ Table(f, r).there = TRUE
  /\ \A f \in Lists : [Table(f, 0) EXCEPT !.rows = @ + 1] = Table(f, 1)
<1>1. <<>> \in Lists /\ 1 = 0 + 1
  BY DEF Lists
<1>2. ASSUME NEW t \in Tabs
      PROVE  [t EXCEPT !.rows = @ + 1]
             = [there |-> t.there, fields |-> t.fields, rows |-> t.rows + 1]
  BY DEF Tabs
<1>3. /\ Absent \in Tabs /\ Absent.there = FALSE
      /\ \A f \in Lists, r \in Nat : Table(f, r) \in Tabs /\ Table(f, r).there = TRUE
  BY <1>1 DEF Absent, Table, Tabs
<1>4. ASSUME NEW f \in Lists PROVE [Table(f, 0) EXCEPT !.rows = @ + 1] = Table(f, 1)
  <2>1. [Table(f, 0) EXCEPT !.rows = @ + 1]
        = [there |-> Table(f, 0).there, fields |-> Table(f, 0).fields, rows |-> Table(f, 0).rows + 1]
    BY <1>2, <1>3
  <2>2. Table(f, 0).there = TRUE /\ Table(f, 0).fields = f /\ Table(f, 0).rows = 0
    BY DEF Table
  <2> QED
    BY <1>1, <2>1, <2>2 DEF Table
<1> QED
  BY <1>3, <1>4

\* A nonempty set of positions has a least element: among the intervals before
\* its elements, one has no other one inside.
LEMMA Least ==
  ASSUME NEW n \in Nat, NEW S \in SUBSET (1..n), S # {}
  PROVE  \E i \in S : \A j \in S : i <= j
<1> DEFINE Before(i) == 1..(i - 1)
           T == {Before(i) : i \in S}
<1>1. IsFiniteSet(1..n)
  BY FS_Interval
<1>2. IsWellFoundedOn(StrictSubsetOrdering(1..n), SUBSET (1..n))
  BY <1>1, FS_FiniteSubsetsOfFinite, FS_StrictSubsetOrderingWellFounded
<1>3. T \subseteq SUBSET (1..n) /\ T # {}
  <2>1. \A i \in S : Before(i) \subseteq 1..n
    OBVIOUS
  <2> HIDE DEF Before
  <2> QED
    BY <2>1
<1>4. PICK x \in T : \A y \in T : <<y, x>> \notin StrictSubsetOrdering(1..n)
  <2> HIDE DEF T
  <2> QED
    BY <1>2, <1>3, WFMin
<1>5. PICK i \in S : x = Before(i)
  BY <1>4
<1>6. ASSUME NEW j \in S, ~(i <= j) PROVE FALSE
  <2>1. Before(j) \subseteq Before(i) /\ j \in Before(i) /\ j \notin Before(j)
    BY <1>6
  <2>2. <<Before(j), x>> \in StrictSubsetOrdering(1..n)
    BY <1>5, <2>1 DEF StrictSubsetOrdering
  <2> QED
    BY <1>4, <2>2
<1> QED
  BY <1>6

-----------------------------------------------------------------------------
(* The search path.                                                        *)

LEMMA PathType ==
  ASSUME TypeOK
  PROVE  /\ path \in Seq(Schemas) /\ Len(path) \in Nat /\ own \in TempSchemas \cup {NoSchema}
         /\ own # NoSchema => SearchPath = <<own, PgCatalog>> \o path
         /\ own = NoSchema => SearchPath = <<PgCatalog>> \o path
         /\ SearchPath \in Seq(Schemas \cup TempSchemas \cup {PgCatalog})
         /\ Len(SearchPath) \in Nat /\ DOMAIN SearchPath = 1..Len(SearchPath)
<1> DEFINE U == Schemas \cup TempSchemas \cup {PgCatalog}
<1>1. path \in Seq(Schemas) /\ own \in TempSchemas \cup {NoSchema}
  BY Constants DEF TypeOK, OwnSchemas
<1>2. path \in Seq(U)
  <2>1. Len(path) \in Nat /\ path \in [1..Len(path) -> Schemas]
    BY <1>1
  <2>2. path \in [1..Len(path) -> U]
    BY <2>1
  <2> QED
    BY <2>1, <2>2
<1>3. CASE own = NoSchema
  <2>1. SearchPath = <<PgCatalog>> \o path
    BY <1>3 DEF SearchPath
  <2>2. <<PgCatalog>> \in Seq(U)
    OBVIOUS
  <2> HIDE DEF U
  <2>3. SearchPath \in Seq(U)
    BY <1>2, <2>1, <2>2
  <2> QED
    BY <1>1, <1>3, <2>1, <2>3 DEF U
<1>4. CASE own # NoSchema
  <2>1. SearchPath = <<own, PgCatalog>> \o path
    BY <1>4 DEF SearchPath
  <2>2. <<own, PgCatalog>> \in Seq(U)
    BY <1>1, <1>4
  <2> HIDE DEF U
  <2>3. SearchPath \in Seq(U)
    BY <1>2, <2>1, <2>2
  <2> QED
    BY <1>1, <1>4, <2>1, <2>3 DEF U
<1> QED
  BY <1>3, <1>4

LEMMA PathIs ==
  ASSUME TypeOK
  PROVE  /\ own # NoSchema => /\ Len(SearchPath) = Len(path) + 2
                        /\ SearchPath[1] = own /\ SearchPath[2] = PgCatalog
                        /\ \A j \in 1..Len(path) : SearchPath[j + 2] = path[j]
         /\ own = NoSchema => /\ Len(SearchPath) = Len(path) + 1
                        /\ SearchPath[1] = PgCatalog
                        /\ \A j \in 1..Len(path) : SearchPath[j + 1] = path[j]
         /\ \A k \in 1..Len(SearchPath) : SearchPath[k] \in (Schemas \cup {own, PgCatalog}) \ {NoSchema}
<1>1. path \in Seq(Schemas) /\ Len(path) \in Nat /\ own \in TempSchemas \cup {NoSchema}
  BY PathType
<1>2. CASE own = NoSchema
  <2>1. SearchPath = <<PgCatalog>> \o path
    BY <1>2, PathType
  <2>2. /\ Len(SearchPath) = Len(path) + 1
        /\ SearchPath[1] = PgCatalog
        /\ \A j \in 1..Len(path) : SearchPath[j + 1] = path[j]
    BY <1>1, <2>1
  <2>3. ASSUME NEW k \in 1..Len(SearchPath) PROVE SearchPath[k] \in Schemas \cup {PgCatalog}
    <3>1. CASE k = 1
      BY <2>2, <3>1
    <3>2. CASE k # 1
      <4>1. k - 1 \in 1..Len(path) /\ SearchPath[(k - 1) + 1] = path[k - 1]
        BY <1>1, <2>2, <3>2
      <4> QED
        BY <1>1, <4>1
    <3> QED
      BY <3>1, <3>2
  <2> QED
    BY <1>2, <2>2, <2>3, Constants
<1>3. CASE own # NoSchema
  <2>1. SearchPath = <<own, PgCatalog>> \o path
    BY <1>3, PathType
  <2>2. /\ Len(SearchPath) = Len(path) + 2
        /\ SearchPath[1] = own /\ SearchPath[2] = PgCatalog
        /\ \A j \in 1..Len(path) : SearchPath[j + 2] = path[j]
    BY <1>1, <2>1
  <2>3. ASSUME NEW k \in 1..Len(SearchPath) PROVE SearchPath[k] \in Schemas \cup {own, PgCatalog}
    <3>1. CASE k \in {1, 2}
      BY <2>2, <3>1
    <3>2. CASE k \notin {1, 2}
      <4>1. k - 2 \in 1..Len(path) /\ SearchPath[(k - 2) + 2] = path[k - 2]
        BY <1>1, <2>2, <3>2
      <4> QED
        BY <1>1, <4>1
    <3> QED
      BY <3>1, <3>2
  <2> QED
    BY <1>3, <2>2, <2>3, Constants
<1> QED
  BY <1>2, <1>3

LEMMA OnPath ==
  ASSUME TypeOK, NEW k \in DOMAIN SearchPath
  PROVE  /\ k \in Nat /\ 1 <= k /\ k \in 1..Len(SearchPath) /\ Len(SearchPath) \in Nat
         /\ SearchPath[k] \in Schemas \cup {own, PgCatalog}
         /\ SearchPath[k] \in Schemas \cup TempSchemas \cup {PgCatalog}
         /\ SearchPath[k] # NoSchema
<1> DEFINE n == Len(SearchPath)
           D == DOMAIN SearchPath
<1>1. n \in Nat /\ D = 1..n /\ own \in TempSchemas \cup {NoSchema}
  BY PathType
<1>2. \A i \in 1..n : SearchPath[i] \in (Schemas \cup {own, PgCatalog}) \ {NoSchema}
  BY PathIs
<1>3. k \in D
  OBVIOUS
<1> HIDE DEF D
<1>4. k \in 1..n
  BY <1>1, <1>3
<1>5. SearchPath[k] \in (Schemas \cup {own, PgCatalog}) \ {NoSchema}
  BY <1>2, <1>4
<1>6. k \in Nat /\ 1 <= k
  BY <1>1, <1>4
<1>7. SearchPath[k] \in Schemas \cup TempSchemas \cup {PgCatalog}
  <2> DEFINE s == SearchPath[k]
  <2>1. s \in Schemas \cup {own, PgCatalog} /\ s # NoSchema
    BY <1>5
  <2> HIDE DEF s
  <2>2. s \in Schemas \cup TempSchemas \cup {PgCatalog}
    BY <1>1, <2>1
  <2> QED
    BY <2>2 DEF s
<1>8. SearchPath[k] \in Schemas \cup {own, PgCatalog} /\ SearchPath[k] # NoSchema
  BY <1>5
<1> QED
  BY <1>1, <1>4, <1>6, <1>7, <1>8

\* The first place on the path decides.
LEMMA FirstDecides ==
  ASSUME TypeOK, NEW t, NEW id \in Id, id.schema = NoSchema, NEW k \in DOMAIN SearchPath,
         t[<<SearchPath[k], id.table>>].there,
         \A j \in 1..(k - 1) : ~t[<<SearchPath[j], id.table>>].there
  PROVE  Schema(t, id) = SearchPath[k]
<1>1. k \in Hits(t, id.table)
  BY DEF Hits
<1>2. ASSUME NEW i \in Hits(t, id.table) PROVE i = k
  <2>1. i \in Nat /\ k \in Nat /\ 1 <= i /\ 1 <= k
    <3>1. i \in DOMAIN SearchPath
      BY DEF Hits
    <3> QED
      BY <3>1, OnPath
  <2>2. ~(i < k) /\ ~(k < i)
    BY <2>1 DEF Hits
  <2> QED
    BY <2>1, <2>2
<1> QED
  BY <1>1, <1>2 DEF Schema

LEMMA Resolves ==
  ASSUME TypeOK, NEW t, NEW id \in Id
  PROVE  /\ id.schema # NoSchema => Schema(t, id) = IF t[<<id.schema, id.table>>].there THEN id.schema ELSE NoSchema
         /\ id.schema = NoSchema /\ Schema(t, id) # NoSchema =>
              \E k \in DOMAIN SearchPath :
                /\ Schema(t, id) = SearchPath[k] /\ t[<<SearchPath[k], id.table>>].there
                /\ \A j \in 1..(k - 1) : ~t[<<SearchPath[j], id.table>>].there
         /\ id.schema = NoSchema /\ Schema(t, id) = NoSchema =>
              \A k \in DOMAIN SearchPath : ~t[<<SearchPath[k], id.table>>].there
<1>1. id.schema # NoSchema => Schema(t, id) = IF t[<<id.schema, id.table>>].there THEN id.schema ELSE NoSchema
  BY DEF Schema
<1>2. ASSUME id.schema = NoSchema, Hits(t, id.table) # {}
      PROVE  /\ Schema(t, id) # NoSchema
             /\ \E k \in DOMAIN SearchPath :
                /\ Schema(t, id) = SearchPath[k] /\ t[<<SearchPath[k], id.table>>].there
                /\ \A j \in 1..(k - 1) : ~t[<<SearchPath[j], id.table>>].there
  <2>1. PICK k \in Hits(t, id.table) : Schema(t, id) = SearchPath[k]
    BY <1>2 DEF Schema
  <2>2. k \in DOMAIN SearchPath /\ t[<<SearchPath[k], id.table>>].there
        /\ \A j \in 1..(k - 1) : ~t[<<SearchPath[j], id.table>>].there
    BY DEF Hits
  <2>3. SearchPath[k] # NoSchema
    BY <2>2, OnPath
  <2> QED
    BY <2>1, <2>2, <2>3
<1>3. ASSUME id.schema = NoSchema, Hits(t, id.table) = {},
             NEW k \in DOMAIN SearchPath, t[<<SearchPath[k], id.table>>].there
      PROVE  FALSE
  <2> DEFINE S == {j \in 1..Len(SearchPath) : t[<<SearchPath[j], id.table>>].there}
  <2>1. k \in S /\ S \in SUBSET (1..Len(SearchPath)) /\ Len(SearchPath) \in Nat
    BY <1>3, PathType
  <2>2. PICK i \in S : \A j \in S : i <= j
    BY <2>1, Least
  <2>3. \A j \in 1..(i - 1) : j \in 1..Len(SearchPath) /\ ~(i <= j)
    BY <2>1, <2>2
  <2>4. i \in Hits(t, id.table)
    BY <2>2, <2>3, PathType DEF Hits
  <2> QED
    BY <1>3, <2>4
<1>4. id.schema = NoSchema /\ Hits(t, id.table) = {} => Schema(t, id) = NoSchema
  BY DEF Schema
<1> QED
  BY <1>1, <1>2, <1>3, <1>4

\* The table that a name means is there, and in a schema.
LEMMA ResolvesType ==
  ASSUME TypeOK, NEW t, NEW id \in Id, Schema(t, id) # NoSchema
  PROVE  /\ Schema(t, id) \in Schemas \cup TempSchemas \cup {PgCatalog}
         /\ <<Schema(t, id), id.table>> \in Places
         /\ t[<<Schema(t, id), id.table>>].there
         /\ id.schema \in {NoSchema, Schema(t, id)}
<1>1. id.table \in Names /\ id.schema \in Schemas \cup {NoSchema}
  BY DEF Id
<1>2. Schema(t, id) \in Schemas \cup TempSchemas \cup {PgCatalog}
      /\ t[<<Schema(t, id), id.table>>].there /\ id.schema \in {NoSchema, Schema(t, id)}
  <2>1. CASE id.schema # NoSchema
    BY <1>1, <2>1, Resolves
  <2>2. CASE id.schema = NoSchema
    <3>1. PICK k \in DOMAIN SearchPath :
            Schema(t, id) = SearchPath[k] /\ t[<<SearchPath[k], id.table>>].there
      BY <2>2, Resolves
    <3>2. SearchPath[k] \in Schemas \cup TempSchemas \cup {PgCatalog}
      BY <3>1, OnPath
    <3> QED
      BY <2>2, <3>1, <3>2
  <2> QED
    BY <2>1, <2>2
<1> QED
  BY <1>1, <1>2, IsPlace

-----------------------------------------------------------------------------
(* What the statements do to the tables.                                   *)

LEMMA CallIs ==
  ASSUME TypeOK, pc # "idle"
  PROVE  /\ call.id \in Id /\ call.id.table \in Names /\ call.id.schema \in Schemas \cup {NoSchema}
         /\ call.overwrite \in BOOLEAN /\ call.append \in BOOLEAN /\ call.temporary \in BOOLEAN
         /\ call.frame.fields \in Lists /\ call.frame.rows \in BOOLEAN
         /\ call.own \in TempSchemas \cup {NoSchema}
<1>1. call \in Calls
  BY DEF TypeOK
<1>2. call.id \in Id /\ call.frame \in Frames
  BY <1>1 DEF Calls
<1>3. call.frame.fields \in Lists /\ call.frame.rows \in BOOLEAN
  BY <1>2, Constants
<1> QED
  BY <1>1, <1>2, <1>3 DEF Calls, Id, OwnSchemas

\* The temporary schema that R asks for is that of the session.
LEMMA TempIs ==
  ASSUME TypeOK, TempKnown
  PROVE  /\ FindTempSchema \in OwnSchemas \cup {"pg_temp"}
         /\ Expand(FindTempSchema) \in TempSchemas \cup {NoSchema}
         /\ "redshift" \notin Resets => /\ Expand(FindTempSchema) = own
                                        /\ dialect = "postgres" => FindTempSchema = "pg_temp"
                                        /\ dialect = "redshift" => FindTempSchema = own
<1>1. own \in TempSchemas \cup {NoSchema} /\ tempSchema \in TempSchemas \cup {NoSchema, "pg_temp"}
      /\ dialect \in {"postgres", "redshift"} /\ "postgres" # "redshift"
  BY Constants DEF TypeOK, OwnSchemas
<1>2. "pg_temp" \notin TempSchemas /\ "pg_temp" # NoSchema
  BY Constants
<1>3. FindTempSchema \in TempSchemas \cup {NoSchema, "pg_temp"}
  BY <1>1 DEF FindTempSchema
<1>4. \A s \in TempSchemas \cup {NoSchema} : Expand(s) = s
  BY <1>2 DEF Expand
<1>5. Expand("pg_temp") = own
  BY DEF Expand
<1>6. "redshift" \notin Resets => /\ dialect = "postgres" => FindTempSchema = "pg_temp"
                                  /\ dialect = "redshift" => FindTempSchema = own
  BY <1>1 DEF FindTempSchema, TempKnown
<1> QED
  BY <1>1, <1>3, <1>4, <1>5, <1>6 DEF OwnSchemas

LEMMA DropSchemaIs ==
  ASSUME TypeOK, TempKnown, NEW t, NEW id \in Id, NEW temporary \in BOOLEAN,
         DropSchema(t, id, temporary) # NoSchema
  PROVE  LET s == DropSchema(t, id, temporary) IN
         /\ s \in Schemas \cup TempSchemas \cup {PgCatalog}
         /\ <<s, id.table>> \in Places /\ t[<<s, id.table>>].there
         /\ ~temporary => s = Schema(t, id) /\ id.schema \in {NoSchema, s}
         /\ temporary => /\ s = Expand(FindTempSchema)
                         /\ "redshift" \notin Resets => s = own
                         /\ ~DropRefused(id, temporary) => id.schema = NoSchema
<1> DEFINE s == DropSchema(t, id, temporary)
<1>1. CASE ~temporary
  <2>1. s = Schema(t, id)
    BY <1>1 DEF DropSchema
  <2> HIDE DEF s
  <2>2. Schema(t, id) # NoSchema
    BY <2>1 DEF s
  <2>3. /\ s \in Schemas \cup TempSchemas \cup {PgCatalog}
        /\ <<s, id.table>> \in Places /\ t[<<s, id.table>>].there
        /\ id.schema \in {NoSchema, s}
    BY <2>1, <2>2, ResolvesType
  <2> QED
    BY <1>1, <2>1, <2>3 DEF s
<1>2. CASE temporary
  <2> DEFINE e == Expand(FindTempSchema)
  <2>1. s = e /\ e # NoSchema /\ t[<<e, id.table>>].there
    BY <1>2 DEF DropSchema
  <2>2. e \in TempSchemas /\ ("redshift" \notin Resets => e = own)
    BY <2>1, TempIs
  <2>3. FindTempSchema # NoSchema
    <3>1. FindTempSchema = NoSchema => e = NoSchema
      BY Constants DEF Expand
    <3> QED
      BY <2>1, <3>1
  <2>4. ~DropRefused(id, temporary) => id.schema = NoSchema
    BY <1>2, <2>3 DEF DropRefused
  <2>5. id.table \in Names
    BY DEF Id
  <2> HIDE DEF s, e
  <2>6. <<s, id.table>> \in Places
    BY <2>1, <2>2, <2>5, IsPlace
  <2> QED
    BY <1>2, <2>1, <2>2, <2>4, <2>6 DEF s, e
<1> QED
  BY <1>1, <1>2

LEMMA DropIs ==
  ASSUME TypeOK, TempKnown, NEW t \in [Places -> Tabs], NEW id \in Id, NEW temporary \in BOOLEAN
  PROVE  LET s == DropSchema(t, id, temporary) IN
         /\ Drop(t, id, temporary) \in [Places -> Tabs]
         /\ s = NoSchema => Drop(t, id, temporary) = t
         /\ s # NoSchema => /\ Drop(t, id, temporary)[<<s, id.table>>] = Absent
                            /\ \A p \in Places \ {<<s, id.table>>} : Drop(t, id, temporary)[p] = t[p]
<1> DEFINE s == DropSchema(t, id, temporary)
<1>1. CASE s = NoSchema
  BY <1>1 DEF Drop
<1>2. CASE s # NoSchema
  <2>1. <<s, id.table>> \in Places
    BY <1>2, DropSchemaIs
  <2>2. Drop(t, id, temporary) = [t EXCEPT ![<<s, id.table>>] = Absent]
    BY <1>2 DEF Drop
  <2>3. Absent \in Tabs
    BY TableIs
  <2> HIDE DEF s
  <2>4. /\ Drop(t, id, temporary) \in [Places -> Tabs]
        /\ Drop(t, id, temporary)[<<s, id.table>>] = Absent
        /\ \A p \in Places \ {<<s, id.table>>} : Drop(t, id, temporary)[p] = t[p]
    BY <2>1, <2>2, <2>3
  <2> QED
    BY <1>2, <2>4 DEF s
<1> QED
  BY <1>1, <1>2

\* Every other place is left alone.
LEMMA DropElsewhere ==
  ASSUME TypeOK, TempKnown, NEW t \in [Places -> Tabs], NEW id \in Id, NEW temporary \in BOOLEAN,
         NEW p \in Places, p # <<DropSchema(t, id, temporary), id.table>>
  PROVE  Drop(t, id, temporary)[p] = t[p]
<1> DEFINE s == DropSchema(t, id, temporary)
           d == Drop(t, id, temporary)
<1>1. s = NoSchema => d = t
  BY DropIs
<1>2. s # NoSchema => \A q \in Places \ {<<s, id.table>>} : d[q] = t[q]
  BY DropIs
<1> HIDE DEF d
<1> QED
  BY <1>1, <1>2 DEF d

\* The table just created is the one that its name means.
LEMMA TargetIsRead ==
  ASSUME TypeOK, CatalogStays, pc \in {"append", "commit"}, Created
  PROVE  /\ Target \in Schemas \cup TempSchemas /\ Place(Target) \in Places
         /\ Schema(view, call.id) \in {Target, PgCatalog}
         /\ call.id.table \notin Catalogued => Schema(view, call.id) = Target
<1> DEFINE id == call.id
<1>1. id \in Id /\ id.table \in Names /\ id.schema \in Schemas \cup {NoSchema}
      /\ call.temporary \in BOOLEAN /\ call.frame.fields \in Lists
  BY CallIs
<1>2. view[Place(Target)].there
  BY <1>1, TableIs DEF Created
<1>3. path \in Seq(Schemas) /\ Len(path) \in Nat /\ own \in TempSchemas \cup {NoSchema}
  BY PathType
<1>4. CASE id.schema # NoSchema
  <2>1. Target = id.schema
    BY <1>4 DEF Target
  <2>2. Schema(view, id) = Target
    BY <1>1, <1>2, <1>4, <2>1, Resolves DEF Place
  <2> QED
    BY <1>1, <1>4, <2>1, <2>2, IsPlace DEF Place
<1>5. CASE id.schema = NoSchema /\ call.temporary
  <2>1. own # NoSchema /\ Target = own
    BY <1>5 DEF Created, Target
  <2>2. 1 \in DOMAIN SearchPath /\ SearchPath[1] = own
    BY <1>3, <2>1, PathIs, PathType
  <2>3. Schema(view, id) = own
    BY <1>1, <1>2, <1>5, <2>1, <2>2, FirstDecides DEF Place
  <2> QED
    BY <1>1, <1>3, <2>1, <2>3, IsPlace DEF Place
<1>6. CASE id.schema = NoSchema /\ ~call.temporary
  <2> DEFINE n == IF own = NoSchema THEN 2 ELSE 3
  <2>1. path # <<>> /\ Target = path[1]
    BY <1>6 DEF Created, Target
  <2>2. 1 \in 1..Len(path) /\ path[1] \in Schemas
    BY <1>3, <2>1
  <2>3. n \in DOMAIN SearchPath /\ SearchPath[n] = path[1]
    <3>1. CASE own = NoSchema
      <4>1. SearchPath[1 + 1] = path[1] /\ 2 \in 1..Len(SearchPath)
        BY <1>3, <2>2, <3>1, PathIs
      <4> QED
        BY <3>1, <4>1, PathType
    <3>2. CASE own # NoSchema
      <4>1. SearchPath[1 + 2] = path[1] /\ 3 \in 1..Len(SearchPath)
        BY <1>3, <2>2, <3>2, PathIs
      <4> QED
        BY <3>2, <4>1, PathType
    <3> QED
      BY <3>1, <3>2
  <2>4. view[<<SearchPath[n], id.table>>].there
    BY <1>2, <2>1, <2>3 DEF Place
  <2>5. Schema(view, id) # NoSchema
    BY <1>1, <1>6, <2>3, <2>4, Resolves
  <2>6. PICK k \in DOMAIN SearchPath :
          /\ Schema(view, id) = SearchPath[k] /\ view[<<SearchPath[k], id.table>>].there
          /\ \A j \in 1..(k - 1) : ~view[<<SearchPath[j], id.table>>].there
    BY <1>1, <1>6, <2>5, Resolves
  <2>7. k \in Nat /\ 1 <= k
    BY <2>6, OnPath
  <2>8. k <= n
    BY <2>4, <2>6, <2>7
  <2>9. own # NoSchema => k # 1
    <3>1. own # NoSchema => SearchPath[1] = own /\ ~view[<<own, id.table>>].there
      BY <1>6, PathIs DEF Created, Uncovered, Place
    <3> QED
      BY <2>6, <3>1
  <2>10. k = n \/ SearchPath[k] = PgCatalog
    BY <2>7, <2>8, <2>9, PathIs
  <2>11. Schema(view, id) \in {Target, PgCatalog}
    BY <2>1, <2>3, <2>6, <2>10
  <2>12. Schema(view, id) = PgCatalog => id.table \in Catalogued
    BY <1>1, <2>6 DEF CatalogStays
  <2> QED
    BY <1>1, <2>1, <2>2, <2>11, <2>12, IsPlace DEF Place
<1> QED
  BY <1>4, <1>5, <1>6

-----------------------------------------------------------------------------
(* Every step keeps the invariant.                                         *)

LEMMA InvIs ==
  Inv <=> TypeOK /\ Seeing /\ CatalogStays /\ TempKnown /\ Stages /\ Asked /\ Written
BY DEF Inv

\* Between two calls there is little to say.
LEMMA AtRest ==
  ASSUME TypeOK', pc' = "idle", changed' = {}, view' = tables', CatalogStays', TempKnown'
  PROVE  Inv'
<1>1. Seeing' /\ Stages' /\ Asked' /\ Written'
  BY DEF Seeing, Stages, Asked, Written, TypeOK
<1> QED
  BY <1>1 DEF Inv

\* What is committed has the tables of the catalog, too.
LEMMA Committed ==
  ASSUME Inv
  PROVE  /\ \A n \in Names : tables[<<PgCatalog, n>>].there <=> n \in Catalogued
         /\ pc = "idle" => view = tables
<1>1. ASSUME NEW n \in Names PROVE tables[<<PgCatalog, n>>].there <=> n \in Catalogued
  <2>1. <<PgCatalog, n>> \in Places /\ <<PgCatalog, n>>[1] = PgCatalog
    BY IsPlace
  <2>2. tables[<<PgCatalog, n>>] = view[<<PgCatalog, n>>]
    BY <2>1 DEF Inv, Seeing
  <2> QED
    BY <2>2 DEF Inv, CatalogStays
<1>2. pc = "idle" => view = tables
  BY DEF Inv, Seeing, TypeOK
<1> QED
  BY <1>1, <1>2

LEMMA InvInit == Init => Inv
<1> SUFFICES ASSUME Init PROVE Inv
  OBVIOUS
<1>1. <<"oid">> \in Lists
  BY DEF Lists
<1>2. Table(<<"oid">>, 1) \in Tabs /\ Table(<<"oid">>, 1).there /\ Absent \in Tabs /\ ~Absent.there
  BY <1>1, TableIs
<1>3. tables \in [Places -> Tabs] /\ view = tables
  BY <1>2 DEF Init
<1>4. TypeOK
  BY <1>3 DEF Init, TypeOK, OwnSchemas
<1>5. CatalogStays
  <2>1. ASSUME NEW n \in Names PROVE view[<<PgCatalog, n>>].there <=> n \in Catalogued
    <3>1. <<PgCatalog, n>> \in Places /\ <<PgCatalog, n>>[1] = PgCatalog /\ <<PgCatalog, n>>[2] = n
      BY IsPlace
    <3>2. view[<<PgCatalog, n>>] = IF n \in Catalogued THEN Table(<<"oid">>, 1) ELSE Absent
      BY <3>1 DEF Init
    <3> QED
      BY <1>2, <3>2
  <2> QED
    BY <2>1 DEF CatalogStays
<1>6. Seeing /\ TempKnown /\ Stages /\ Asked /\ Written
  BY <1>3 DEF Init, Seeing, TempKnown, Stages, Asked, Written
<1> QED
  BY <1>4, <1>5, <1>6 DEF Inv

LEMMA InvFail ==
  ASSUME Inv, pc # "idle", Fail, dialect' = dialect,
         tempSchema' = tempSchema \/ (tempSchema' = FindTempSchema /\ pc = "remove")
  PROVE  Inv'
<1>1. /\ view' = tables /\ tables' = tables /\ own' = call.own /\ changed' = {} /\ touched' = {}
      /\ pc' = "idle" /\ path' = path
  BY DEF Fail, End
<1>2. TypeOK /\ TempKnown
  BY DEF Inv
<1>3. call.own \in OwnSchemas /\ FindTempSchema \in OwnSchemas \cup {"pg_temp"}
  BY <1>2, CallIs, TempIs DEF OwnSchemas
<1>4. TypeOK'
  BY <1>1, <1>2, <1>3 DEF TypeOK
<1>5. CatalogStays'
  BY <1>1, Committed DEF CatalogStays
<1>6. TempKnown'
  <2>1. pc = "remove" => own = call.own
    BY DEF Inv, Stages
  <2> QED
    BY <1>1, <1>2, <2>1, TempIs DEF TempKnown
<1> QED
  BY <1>1, <1>4, <1>5, <1>6, AtRest

LEMMA InvCommit ==
  ASSUME Inv, Commit
  PROVE  Inv'
<1>1. /\ view' = view /\ tables' = view /\ own' = own /\ changed' = {} /\ touched' = {}
      /\ pc' = "idle" /\ path' = path /\ dialect' = dialect /\ tempSchema' = tempSchema
  BY DEF Commit, End
<1>2. TypeOK' /\ CatalogStays' /\ TempKnown'
  BY <1>1 DEF Inv, TypeOK, CatalogStays, TempKnown
<1> QED
  BY <1>1, <1>2, AtRest

LEMMA InvSetPath ==
  ASSUME Inv, NEW p \in Paths, SetPath(p)
  PROVE  Inv'
<1>1. /\ pc = "idle" /\ path' = p
      /\ UNCHANGED <<dialect, own, tempSchema, tables, view, changed, touched, call, pc>>
  BY DEF SetPath
<1>2. TypeOK' /\ CatalogStays' /\ TempKnown'
  BY <1>1 DEF Inv, TypeOK, CatalogStays, TempKnown
<1>3. changed' = {} /\ view' = tables'
  BY <1>1, Committed DEF Inv, Seeing
<1> QED
  BY <1>1, <1>2, <1>3, AtRest

LEMMA InvReset ==
  ASSUME Inv, NEW p \in Paths, Reset(p)
  PROVE  Inv'
<1>1. /\ pc = "idle" /\ dialect \in Resets /\ own' = NoSchema /\ path' = p
      /\ tables' = [q \in Places |-> IF q[1] = own THEN Absent ELSE tables[q]]
      /\ view' = tables'
      /\ UNCHANGED <<dialect, tempSchema, changed, touched, call, pc>>
  BY DEF Reset
<1>2. TypeOK /\ changed = {}
  BY <1>1 DEF Inv, Seeing
<1>3. TypeOK'
  <2>1. tables' \in [Places -> Tabs]
    BY <1>1, <1>2, TableIs DEF TypeOK
  <2> QED
    BY <1>1, <1>2, <2>1 DEF TypeOK, OwnSchemas
<1>4. CatalogStays'
  <2>1. ASSUME NEW n \in Names PROVE view'[<<PgCatalog, n>>].there <=> n \in Catalogued
    <3>1. <<PgCatalog, n>> \in Places /\ <<PgCatalog, n>>[1] = PgCatalog
      BY IsPlace
    <3>2. own # PgCatalog
      BY <1>2, Constants DEF TypeOK, OwnSchemas
    <3>3. view'[<<PgCatalog, n>>] = tables[<<PgCatalog, n>>]
      BY <1>1, <3>1, <3>2
    <3> QED
      BY <3>3, Committed
  <2> QED
    BY <2>1 DEF CatalogStays
<1>5. TempKnown'
  BY <1>1 DEF Inv, TempKnown
<1> QED
  BY <1>1, <1>2, <1>3, <1>4, <1>5, AtRest

LEMMA InvRemoveTable ==
  ASSUME Inv, NEW id \in Id, NEW temporary \in BOOLEAN, RemoveTable(id, temporary)
  PROVE  Inv'
<1>1. /\ pc = "idle" /\ tempSchema' = IF temporary THEN FindTempSchema ELSE tempSchema
      /\ tables' = IF DropRefused(id, temporary) THEN tables ELSE Drop(tables, id, temporary)
      /\ view' = tables'
      /\ UNCHANGED <<dialect, path, own, changed, touched, call, pc>>
  BY DEF RemoveTable
<1>2. TypeOK /\ TempKnown /\ changed = {} /\ tables \in [Places -> Tabs] /\ view = tables
  BY <1>1, Committed DEF Inv, Seeing, TypeOK
<1>3. tables' \in [Places -> Tabs]
  BY <1>1, <1>2, DropIs
<1>4. TypeOK'
  BY <1>1, <1>2, <1>3, TempIs DEF TypeOK
<1>5. CatalogStays'
  <2>1. ASSUME NEW n \in Names PROVE view'[<<PgCatalog, n>>].there <=> n \in Catalogued
    <3> DEFINE s == DropSchema(tables, id, temporary)
    <3>1. <<PgCatalog, n>> \in Places /\ <<PgCatalog, n>>[1] = PgCatalog
      BY IsPlace
    <3>2. s = PgCatalog => DropRefused(id, temporary)
      BY <1>2 DEF DropRefused
    <3>3. view'[<<PgCatalog, n>>] = tables[<<PgCatalog, n>>]
      <4>1. CASE DropRefused(id, temporary)
        BY <1>1, <4>1
      <4>2. CASE ~DropRefused(id, temporary) /\ s = NoSchema
        BY <1>1, <1>2, <4>2, DropIs
      <4>3. CASE ~DropRefused(id, temporary) /\ s # NoSchema
        <5>1. <<PgCatalog, n>> \in Places \ {<<s, id.table>>}
          BY <3>1, <3>2, <4>3
        <5>2. Drop(tables, id, temporary)[<<PgCatalog, n>>] = tables[<<PgCatalog, n>>]
          BY <1>2, <5>1, DropElsewhere
        <5> QED
          BY <1>1, <4>3, <5>2
      <4> QED
        BY <4>1, <4>2, <4>3
    <3> QED
      BY <3>3, Committed
  <2> QED
    BY <2>1 DEF CatalogStays
<1>6. TempKnown'
  BY <1>1, <1>2, TempIs DEF TempKnown
<1> QED
  BY <1>1, <1>2, <1>4, <1>5, <1>6, AtRest

LEMMA InvOther ==
  ASSUME Inv, NEW p \in Places, NEW t \in Bare, OtherSession(p, t)
  PROVE  Inv'
<1>1. /\ p[1] # PgCatalog /\ (p[1] = own => pc = "idle") /\ p \notin changed
      /\ tables' = [tables EXCEPT ![p] = t] /\ view' = [view EXCEPT ![p] = t]
      /\ touched' = IF pc = "idle" THEN {} ELSE touched \cup {p}
      /\ UNCHANGED <<dialect, path, own, tempSchema, changed, call, pc>>
  BY DEF OtherSession
<1>2. t \in Tabs
  <2>1. \A f \in Frames : Table(f.fields, 0) \in Tabs
    BY Constants, TableIs
  <2>2. Absent \in Tabs /\ Table(<<>>, 0) \in Tabs
    <3>1. <<>> \in Lists
      BY DEF Lists
    <3> QED
      BY <3>1, TableIs
  <2> QED
    BY <2>1, <2>2 DEF Bare
<1>3. TypeOK
  BY DEF Inv
<1>4. \A q \in Places \ {p} : view'[q] = view[q] /\ tables'[q] = tables[q]
  BY <1>1, <1>3 DEF TypeOK
<1>5. view'[p] = t /\ tables'[p] = t
  BY <1>1, <1>3 DEF TypeOK
<1>6. TypeOK'
  BY <1>1, <1>2, <1>3 DEF TypeOK
<1>7. Seeing'
  BY <1>1, <1>4, <1>5 DEF Inv, Seeing
<1>8. CatalogStays'
  <2>1. ASSUME NEW n \in Names PROVE view'[<<PgCatalog, n>>] = view[<<PgCatalog, n>>]
    <3>1. <<PgCatalog, n>> \in Places /\ <<PgCatalog, n>> # p
      BY <1>1, IsPlace
    <3> QED
      BY <1>4, <3>1
  <2> QED
    BY <2>1 DEF Inv, CatalogStays
<1>9. TempKnown' /\ Stages' /\ Asked'
  BY <1>1 DEF Inv, TempKnown, Stages, Asked
<1>10. Written'
  <2>1. CASE pc = "idle"
    BY <1>1, <2>1 DEF Written
  <2>2. CASE pc # "idle"
    <3>1. call.id.table \in Names /\ own \in TempSchemas \cup {NoSchema} /\ touched' = touched \cup {p}
      BY <1>1, <1>3, <2>2, CallIs DEF TypeOK, OwnSchemas
    <3>2. \A s : Place(s)' = Place(s)
      BY <1>1 DEF Place
    <3>3. Uncovered => Uncovered'
      <4>1. own # NoSchema => Place(own) \in Places /\ Place(own)[1] = own
        BY <3>1, IsPlace DEF Place
      <4>2. own # NoSchema => view'[Place(own)] = view[Place(own)]
        BY <1>1, <1>4, <2>2, <4>1
      <4> QED
        BY <1>1, <4>2 DEF Uncovered, Place
    <3>4. Created => Created'
      <4>1. ASSUME Created
            PROVE  /\ view'[Place(Target)] = view[Place(Target)]
                   /\ tables'[Place(Target)] = tables[Place(Target)]
        BY <1>1, <1>3, <1>4, <4>1 DEF Created, TypeOK
      <4>2. Target' = Target
        BY <1>1 DEF Target
      <4> QED
        BY <1>1, <3>3, <4>1, <4>2 DEF Created, Place
    <3>5. ASSUME NEW s \in Schemas \cup TempSchemas, Extended(s) PROVE Extended(s)'
      <4>1. Place(s) # p /\ Place(s) \in Places
        BY <1>1, <3>1, <3>5, IsPlace DEF Extended, Place
      <4>2. view'[Place(s)] = view[Place(s)] /\ tables'[Place(s)] = tables[Place(s)]
        BY <1>4, <4>1
      <4>3. SearchPath' = SearchPath
        BY <1>1 DEF SearchPath
      <4>4. ASSUME NEW i \in DOMAIN SearchPath, NEW j \in 1..(i - 1),
                   view[Place(SearchPath[j])].there => Place(SearchPath[j]) \in touched
            PROVE  view'[Place(SearchPath[j])].there => Place(SearchPath[j]) \in touched'
        <5>1. j \in DOMAIN SearchPath
          <6>1. i \in 1..Len(SearchPath) /\ Len(SearchPath) \in Nat
            BY <1>3, OnPath
          <6>2. j \in 1..Len(SearchPath)
            BY <6>1
          <6> QED
            BY <1>3, <6>2, PathType
        <5>2. Place(SearchPath[j]) \in Places
          BY <1>3, <3>1, <5>1, OnPath, IsPlace DEF Place
        <5> QED
          BY <1>4, <3>1, <4>4, <5>2
      <4>5. CASE call.id.schema # NoSchema
        BY <1>1, <3>5, <4>2, <4>5 DEF Extended, Place
      <4>6. CASE call.id.schema = NoSchema
        <5>1. PICK i \in DOMAIN SearchPath :
                /\ s = SearchPath[i]
                /\ \A j \in 1..(i - 1) : view[Place(SearchPath[j])].there => Place(SearchPath[j]) \in touched
          BY <3>5, <4>6 DEF Extended
        <5>2. \A j \in 1..(i - 1) : view'[Place(SearchPath[j])].there => Place(SearchPath[j]) \in touched'
          BY <4>4, <5>1
        <5> QED
          BY <1>1, <3>2, <3>5, <4>2, <4>3, <4>6, <5>1, <5>2 DEF Extended
      <4> QED
        BY <4>5, <4>6
    <3>6. Found => Found'
      BY <1>1, <3>5 DEF Found
    <3> QED
      BY <1>1, <3>3, <3>4, <3>6 DEF Inv, Written
  <2> QED
    BY <2>1, <2>2
<1> QED
  BY <1>6, <1>7, <1>8, <1>9, <1>10 DEF Inv

LEMMA InvWriteTable ==
  ASSUME Inv, NEW id \in Id, NEW overwrite \in BOOLEAN, NEW append \in BOOLEAN,
         NEW temporary \in BOOLEAN, NEW f \in Frames,
         WriteTable(id, overwrite, append, temporary, f)
  PROVE  Inv'
<1>1. /\ pc = "idle" /\ ~(overwrite /\ append)
      /\ call' = [id |-> id, overwrite |-> overwrite, append |-> append,
                  temporary |-> temporary, frame |-> f, own |-> own]
      /\ pc' = IF overwrite THEN "remove" ELSE "exists"
      /\ UNCHANGED <<dialect, path, own, tempSchema, tables, view, changed, touched>>
  BY DEF WriteTable
<1>2. call' \in Calls
  BY <1>1 DEF Inv, TypeOK, Calls
<1>3. TypeOK'
  BY <1>1, <1>2 DEF Inv, TypeOK
<1>4. Seeing' /\ CatalogStays' /\ TempKnown' /\ Stages' /\ Asked' /\ Written'
  BY <1>1 DEF Inv, Seeing, CatalogStays, TempKnown, Stages, Asked, Written
<1> QED
  BY <1>3, <1>4 DEF Inv

\* A temporary table of the session's own is first on the path.
LEMMA OwnIsFirst ==
  ASSUME TypeOK, NEW t, NEW id \in Id, id.schema = NoSchema, own # NoSchema,
         t[<<own, id.table>>].there
  PROVE  Schema(t, id) = own
<1>1. own \in TempSchemas /\ Len(SearchPath) = Len(path) + 2 /\ Len(path) \in Nat
      /\ SearchPath[1] = own
  BY PathType, PathIs
<1>2. 1 \in DOMAIN SearchPath
  BY <1>1, PathType
<1> QED
  BY <1>1, <1>2, FirstDecides

LEMMA InvRemoveOld ==
  ASSUME Inv, RemoveOld
  PROVE  Inv'
<1> DEFINE s == DropSchema(view, call.id, call.temporary)
           c == <<s, call.id.table>>
<1>1. /\ pc = "remove" /\ tempSchema' = IF call.temporary THEN FindTempSchema ELSE tempSchema
      /\ IF DropRefused(call.id, call.temporary) THEN Fail
         ELSE IF s = NoSchema THEN Unchanged("create")
         ELSE Change(Drop(view, call.id, call.temporary), c, "create") /\ own' = own
  BY DEF RemoveOld
<1>2. TypeOK /\ TempKnown /\ changed = {} /\ view \in [Places -> Tabs] /\ pc # "idle"
      /\ call.overwrite /\ own = call.own /\ ~call.append
  BY <1>1 DEF Inv, TypeOK, Seeing, Stages
<1>3. call.id \in Id /\ call.temporary \in BOOLEAN /\ call.id.table \in Names
      /\ call.id.schema \in Schemas \cup {NoSchema}
  BY <1>2, CallIs
<1>4. CASE DropRefused(call.id, call.temporary)
  <2>1. Fail /\ dialect' = dialect
    BY <1>1, <1>4 DEF Fail, End
  <2> QED
    BY <1>1, <2>1, InvFail
<1>5. ASSUME view' = Drop(view, call.id, call.temporary),
             changed' = IF s = NoSchema THEN {} ELSE {c}, pc' = "create", ~DropRefused(call.id, call.temporary),
             UNCHANGED <<dialect, path, own, tables, touched, call>>
      PROVE  Inv'
  <2>1. TypeOK'
    <3>1. view' \in [Places -> Tabs] /\ tempSchema' \in OwnSchemas \cup {"pg_temp"}
      BY <1>1, <1>2, <1>3, <1>5, DropIs, TempIs DEF TypeOK
    <3>2. changed' \subseteq Places
      BY <1>2, <1>3, <1>5, DropSchemaIs
    <3> QED
      BY <1>2, <1>5, <3>1, <3>2 DEF TypeOK
  <2>2. \A q \in Places : q # c => view'[q] = view[q]
    <3>1. CASE s = NoSchema
      <4>1. view' = view
        BY <1>5, <3>1 DEF Drop
      <4> QED
        BY <4>1
    <3>2. CASE s # NoSchema
      <4>1. \A q \in Places \ {c} : Drop(view, call.id, call.temporary)[q] = view[q]
        BY <1>2, <1>3, <3>2, DropIs
      <4> HIDE DEF c
      <4> QED
        BY <1>5, <4>1
    <3> QED
      BY <3>1, <3>2
  <2>3. s # NoSchema => /\ view'[c] = Absent /\ c[1] # PgCatalog /\ c[1] = s /\ c[2] = call.id.table
                        /\ call.id.schema \in {NoSchema, s}
                        /\ call.temporary /\ "redshift" \notin Resets => s = own
    <3>1. s # PgCatalog /\ c[1] = s /\ c[2] = call.id.table
      BY <1>5 DEF DropRefused
    <3>2. s # NoSchema => view'[c] = Absent
      BY <1>2, <1>3, <1>5, DropIs
    <3>3. s # NoSchema /\ ~call.temporary => call.id.schema \in {NoSchema, s}
      BY <1>2, <1>3, DropSchemaIs
    <3>4. s # NoSchema /\ call.temporary =>
            /\ call.id.schema = NoSchema
            /\ "redshift" \notin Resets => s = own
      BY <1>2, <1>3, <1>5, DropSchemaIs
    <3> HIDE DEF s, c
    <3> QED
      BY <1>3, <3>1, <3>2, <3>3, <3>4
  <2>4. s = NoSchema => view' = view
    BY <1>2, <1>3, <1>5, DropIs
  <2>5. Seeing'
    <3>1. \A q \in Places : view[q] = tables[q]
      BY <1>2 DEF Inv, Seeing
    <3> QED
      BY <1>5, <2>2, <2>3, <2>4, <3>1 DEF Seeing
  <2>6. CatalogStays'
    <3>1. ASSUME NEW n \in Names PROVE view'[<<PgCatalog, n>>] = view[<<PgCatalog, n>>]
      <4>1. <<PgCatalog, n>> \in Places /\ <<PgCatalog, n>>[1] = PgCatalog
        BY IsPlace
      <4> QED
        BY <2>2, <2>3, <2>4, <4>1
    <3> QED
      BY <3>1 DEF Inv, CatalogStays
  <2>7. TempKnown'
    BY <1>1, <1>2, <1>5, TempIs DEF TempKnown
  <2>8. Stages'
    BY <1>2, <1>5 DEF Stages
  <2>9. Asked'
    BY <1>5, <2>3 DEF Asked
  <2>10. Uncovered'
    <3>1. ASSUME ~call.temporary, call.id.schema = NoSchema, own # NoSchema
          PROVE  ~view'[Place(own)].there
      <4>1. own \in TempSchemas /\ Place(own) \in Places
        BY <1>2, <1>3, <3>1, IsPlace, PathType DEF Place
      <4>2. CASE view[Place(own)].there
        <5>1. s = own
          BY <1>2, <1>3, <3>1, <4>2, OwnIsFirst DEF Place, DropSchema
        <5> QED
          BY <2>3, <3>1, <5>1, TableIs DEF Place
      <4>3. CASE ~view[Place(own)].there
        <5>1. Place(own) = c => s # NoSchema
          BY <3>1 DEF Place
        <5> QED
          BY <2>2, <2>3, <4>1, <4>3, <5>1, TableIs
      <4> QED
        BY <4>2, <4>3
    <3> QED
      BY <1>5, <3>1 DEF Uncovered, Place
  <2> QED
    BY <1>5, <2>1, <2>5, <2>6, <2>7, <2>8, <2>9, <2>10 DEF Inv, Written
<1>6. CASE ~DropRefused(call.id, call.temporary) /\ s = NoSchema
  <2>1. /\ pc' = "create"
        /\ UNCHANGED <<dialect, path, own, tables, view, changed, touched, call>>
    BY <1>1, <1>6 DEF Unchanged
  <2>2. Drop(view, call.id, call.temporary) = view
    BY <1>6 DEF Drop
  <2> QED
    BY <1>2, <1>5, <1>6, <2>1, <2>2
<1>7. CASE ~DropRefused(call.id, call.temporary) /\ s # NoSchema
  <2>1. /\ view' = Drop(view, call.id, call.temporary) /\ changed' = changed \cup {c}
        /\ pc' = "create" /\ UNCHANGED <<dialect, path, own, tables, touched, call>>
    BY <1>1, <1>7 DEF Change
  <2> QED
    BY <1>2, <1>5, <1>7, <2>1
<1> QED
  BY <1>4, <1>6, <1>7

\* exists_table() finds a temporary table of the session's own.
LEMMA OwnIsListed ==
  ASSUME TypeOK, NEW id \in Id, id.schema = NoSchema, own # NoSchema,
         view[<<own, id.table>>].there
  PROVE  ExistsTable(id)
<1> DEFINE p == <<own, id.table>>
<1>1. own \in TempSchemas /\ id.table \in Names /\ own # PgCatalog
  BY PathType, Constants DEF Id
<1>2. p \in Places /\ p[1] = own /\ p[2] = id.table
  BY <1>1, IsPlace
<1>3. 1 \in DOMAIN SearchPath /\ SearchPath[1] = own
  <2>1. 1 \in 1..Len(SearchPath) /\ SearchPath[1] = own
    BY PathType, PathIs
  <2> QED
    BY <2>1, PathType
<1>4. own \in ToSet(SearchPath)
  BY <1>3 DEF ToSet
<1> HIDE DEF p
<1>5. p \in InformationSchema
  BY <1>1, <1>2 DEF InformationSchema, p
<1>6. p \in Listed(id)
  BY <1>1, <1>2, <1>4, <1>5 DEF Listed
<1> QED
  BY <1>2, <1>6 DEF ExistsTable

LEMMA InvExists ==
  ASSUME Inv, Exists
  PROVE  Inv'
<1>1. /\ pc = "exists" /\ tempSchema' = tempSchema
      /\ IF Refused THEN Fail
         ELSE Unchanged(IF ExistsTable(call.id) THEN AfterCreate ELSE "create")
  BY DEF Exists
<1>2. TypeOK /\ pc # "idle" /\ changed = {} /\ ~call.overwrite /\ own = call.own
  BY <1>1 DEF Inv, Seeing, Stages
<1>3. call.id \in Id /\ call.append \in BOOLEAN /\ call.frame.rows \in BOOLEAN
  BY <1>2, CallIs
<1>4. CASE Refused
  <2>1. Fail /\ dialect' = dialect
    BY <1>1, <1>4 DEF Fail, End
  <2> QED
    BY <1>1, <1>2, <2>1, InvFail
<1>5. CASE ~Refused
  <2>1. /\ pc' = IF ExistsTable(call.id) THEN AfterCreate ELSE "create"
        /\ UNCHANGED <<dialect, path, own, tempSchema, tables, view, changed, touched, call>>
    BY <1>1, <1>5 DEF Unchanged
  <2>2. pc' \in {"create", "append", "commit"} /\ (pc' = "append" => call.frame.rows)
        /\ (pc' # "create" => call.append)
    BY <1>3, <1>5, <2>1 DEF AfterCreate, Refused
  <2>3. TypeOK' /\ Seeing' /\ CatalogStays' /\ TempKnown'
    BY <1>2, <2>1, <2>2 DEF Inv, TypeOK, Seeing, CatalogStays, TempKnown
  <2>4. Stages' /\ Asked'
    BY <1>2, <2>1, <2>2 DEF Inv, Stages, Asked
  <2>5. pc' = "create" => Uncovered'
    <3>1. pc' = "create" => ~ExistsTable(call.id)
      BY <2>1 DEF AfterCreate
    <3>2. ~ExistsTable(call.id) => Uncovered
      BY <1>2, <1>3, OwnIsListed DEF Uncovered, Place
    <3> QED
      BY <2>1, <3>1, <3>2 DEF Uncovered, Place
  <2>6. pc' # "create" => Found'
    BY <1>2, <2>1, <2>2 DEF Found
  <2> QED
    BY <2>2, <2>3, <2>4, <2>5, <2>6 DEF Inv, Written
<1> QED
  BY <1>4, <1>5

LEMMA InvCreate ==
  ASSUME Inv, Create
  PROVE  Inv'
<1> DEFINE free == {s \in CreateSchemas : ~view[<<s, call.id.table>>].there}
<1>1. /\ pc = "create" /\ tempSchema' = tempSchema
      /\ \/ \E s \in free :
              /\ Change([view EXCEPT ![<<s, call.id.table>>] = Table(call.frame.fields, 0)],
                        <<s, call.id.table>>, AfterCreate)
              /\ own' = IF call.temporary THEN s ELSE own
         \/ free = {} /\ Fail
  BY DEF Create
<1>2. TypeOK /\ pc # "idle" /\ own = call.own /\ Uncovered
      /\ (~call.overwrite => changed = {}) /\ ~(call.overwrite /\ call.append)
      /\ view \in [Places -> Tabs]
  BY <1>1 DEF Inv, Stages, Written, TypeOK
<1>3. /\ call.id \in Id /\ call.append \in BOOLEAN /\ call.frame.rows \in BOOLEAN
      /\ call.id.table \in Names /\ call.temporary \in BOOLEAN /\ call.frame.fields \in Lists
      /\ call.id.schema \in Schemas \cup {NoSchema}
  BY <1>2, CallIs
<1>4. CASE free = {} /\ Fail
  <2>1. Fail /\ dialect' = dialect
    BY <1>4 DEF Fail, End
  <2> QED
    BY <1>1, <1>2, <2>1, InvFail
<1>5. ASSUME NEW s \in free,
             Change([view EXCEPT ![<<s, call.id.table>>] = Table(call.frame.fields, 0)],
                    <<s, call.id.table>>, AfterCreate),
             own' = IF call.temporary THEN s ELSE own
      PROVE  Inv'
  <2> DEFINE c == <<s, call.id.table>>
             new == Table(call.frame.fields, 0)
  <2>1. own \in TempSchemas \cup {NoSchema} /\ path \in Seq(Schemas)
    BY <1>2, PathType
  <2>2. s \in CreateSchemas /\ ~view[c].there
    OBVIOUS
  <2>3. /\ call.temporary => /\ call.id.schema = NoSchema /\ s \in TempSchemas
                             /\ own # NoSchema => s = own
        /\ ~call.temporary => /\ s \in Schemas
                              /\ call.id.schema # NoSchema => s = call.id.schema
                              /\ call.id.schema = NoSchema => path # <<>> /\ s = path[1]
    <3>1. CASE call.temporary
      BY <2>1, <2>2, <3>1 DEF CreateSchemas
    <3>2. CASE ~call.temporary /\ call.id.schema # NoSchema
      BY <1>3, <2>2, <3>2 DEF CreateSchemas
    <3>3. CASE ~call.temporary /\ call.id.schema = NoSchema
      <4>1. s \in {path[k] : k \in DOMAIN path \cap {1}}
        BY <2>2, <3>3 DEF CreateSchemas
      <4>2. 1 \in DOMAIN path /\ s = path[1]
        BY <4>1
      <4> QED
        BY <2>1, <3>3, <4>2
    <3> QED
      BY <1>3, <3>1, <3>2, <3>3
  <2>4. s \in Schemas \cup TempSchemas /\ s # NoSchema /\ s # PgCatalog
    BY <1>3, <2>3, Constants
  <2>5. c \in Places /\ c[1] = s /\ c[2] = call.id.table
    BY <1>3, <2>4, IsPlace
  <2>6. /\ view' = [view EXCEPT ![c] = new] /\ changed' = changed \cup {c}
        /\ pc' = IF call.frame.rows THEN "append" ELSE "commit"
        /\ UNCHANGED <<dialect, path, tempSchema, tables, touched, call>>
    BY <1>1, <1>5 DEF Change, AfterCreate
  <2>7. new \in Tabs /\ new.there
    BY <1>3, TableIs
  <2> HIDE DEF c, new, free
  <2>8. view'[c] = new /\ \A q \in Places \ {c} : view'[q] = view[q]
    BY <1>2, <2>5, <2>6
  <2>9. own' \in TempSchemas \cup {NoSchema} /\ (own # NoSchema => own' = own)
        /\ (call.temporary => own' = s)
    BY <1>3, <1>5, <2>1, <2>3
  <2>10. TypeOK'
    BY <1>2, <1>3, <2>5, <2>6, <2>7, <2>9 DEF TypeOK, OwnSchemas
  <2>11. Seeing'
    BY <1>3, <2>4, <2>5, <2>6, <2>8 DEF Inv, Seeing
  <2>12. CatalogStays'
    <3>1. ASSUME NEW n \in Names PROVE view'[<<PgCatalog, n>>] = view[<<PgCatalog, n>>]
      <4>1. <<PgCatalog, n>> \in Places /\ <<PgCatalog, n>>[1] = PgCatalog
        BY IsPlace
      <4> QED
        BY <2>4, <2>5, <2>8, <4>1
    <3> QED
      BY <3>1 DEF Inv, CatalogStays
  <2>13. TempKnown'
    BY <1>2, <2>6, <2>9 DEF Inv, TempKnown
  <2>14. Stages'
    BY <1>1, <1>2, <1>3, <2>6 DEF Inv, Stages
  <2>15. Asked'
    <3>1. ASSUME NEW q \in changed', "redshift" \notin Resets, call.temporary, ~call.append
          PROVE  q[1] = own'
      <4>1. CASE q = c
        BY <2>5, <2>9, <3>1, <4>1
      <4>2. CASE q \in changed
        <5>1. q[1] = own /\ q \in Places
          BY <1>2, <3>1, <4>2 DEF Inv, Asked, TypeOK
        <5>2. own # NoSchema
          BY <5>1, PlaceIs, Constants
        <5> QED
          BY <2>9, <5>1, <5>2
      <4> QED
        BY <2>6, <4>1, <4>2
    <3>2. ASSUME NEW q \in changed'
          PROVE  q[2] = call.id.table /\ call.id.schema \in {NoSchema, q[1]}
      BY <1>3, <2>3, <2>5, <2>6 DEF Inv, Asked
    <3> QED
      BY <1>3, <2>6, <3>1, <3>2 DEF Asked
  <2>16. Uncovered'
    <3>1. ASSUME ~call.temporary, call.id.schema = NoSchema, own' # NoSchema
          PROVE  ~view'[Place(own)].there /\ own' = own
      <4>1. own' = own /\ own \in TempSchemas /\ own # s
        BY <1>5, <2>1, <2>3, <3>1, Constants
      <4>2. Place(own) \in Places /\ Place(own)[1] = own
        BY <1>3, <4>1, IsPlace DEF Place
      <4>3. view'[Place(own)] = view[Place(own)]
        BY <2>5, <2>8, <4>1, <4>2
      <4> QED
        BY <1>2, <3>1, <4>1, <4>3 DEF Uncovered
    <3> QED
      BY <2>6, <3>1 DEF Uncovered, Place
  <2>17. Created'
    <3>1. Target' = s
      BY <1>3, <2>3, <2>6, <2>9 DEF Target
    <3>2. Place(Target)' = c
      BY <2>6, <3>1 DEF Place, c
    <3>3. ~call.overwrite => changed' = {c} /\ ~tables[c].there
      <4>1. ~call.overwrite => view[c] = tables[c]
        BY <1>2, <2>5 DEF Inv, Seeing
      <4> QED
        BY <1>2, <2>2, <2>6, <4>1 DEF c
    <3>4. view'[c] = Table(call.frame.fields, IF pc' = "commit" /\ call.frame.rows THEN 1 ELSE 0)
      BY <2>6, <2>8 DEF new
    <3>5. call.temporary => call.id.schema = NoSchema /\ own' # NoSchema
      BY <2>3, <2>4, <2>9
    <3> QED
      BY <2>3, <2>6, <2>16, <3>2, <3>3, <3>4, <3>5 DEF Created
  <2> QED
    BY <1>3, <2>6, <2>10, <2>11, <2>12, <2>13, <2>14, <2>15, <2>17 DEF Inv, Written
<1> QED
  BY <1>1, <1>4, <1>5

LEMMA InvAppend ==
  ASSUME Inv, AppendTable
  PROVE  Inv'
<1> DEFINE s == Schema(view, call.id)
           t == Read(view, call.id)
           c == <<s, call.id.table>>
           fits == /\ t.there /\ s # PgCatalog /\ t.rows < MaxAppends
                   /\ ToSet(call.frame.fields) \subseteq ToSet(t.fields)
           v == [view EXCEPT ![c].rows = @ + 1]
<1>1. /\ pc = "append" /\ tempSchema' = tempSchema
      /\ IF fits THEN Change(v, c, "commit") /\ own' = own ELSE Fail
  BY DEF AppendTable
<1>2. TypeOK /\ pc # "idle" /\ call.frame.rows /\ (Created \/ Found) /\ CatalogStays
      /\ ~(call.overwrite /\ call.append) /\ view \in [Places -> Tabs]
  BY <1>1 DEF Inv, Stages, Written, TypeOK
<1>3. /\ call.id \in Id /\ call.append \in BOOLEAN /\ call.temporary \in BOOLEAN
      /\ call.id.table \in Names /\ call.frame.fields \in Lists
      /\ call.id.schema \in Schemas \cup {NoSchema}
  BY <1>2, CallIs
<1>4. CASE ~fits
  <2>1. Fail
    BY <1>1, <1>4
  <2>2. dialect' = dialect
    BY <2>1 DEF Fail, End
  <2> QED
    BY <1>1, <1>2, <2>1, <2>2, InvFail
<1>5. CASE fits
  <2>1. s # NoSchema /\ s # PgCatalog
    BY <1>5, TableIs DEF Read
  <2>2. s \in Schemas \cup TempSchemas /\ c \in Places /\ view[c].there /\ call.id.schema \in {NoSchema, s}
    BY <1>2, <1>3, <2>1, ResolvesType
  <2>3. c[1] = s /\ c[2] = call.id.table /\ c = Place(s)
    BY DEF Place
  <2>4. /\ view' = v /\ changed' = changed \cup {c} /\ pc' = "commit"
        /\ UNCHANGED <<dialect, path, own, tempSchema, tables, touched, call>>
    BY <1>1, <1>5 DEF Change
  <2>5. v = [view EXCEPT ![c] = [view[c] EXCEPT !.rows = @ + 1]]
    BY <1>2, <2>2
  <2>6. call.id.schema = NoSchema =>
          \E k \in DOMAIN SearchPath :
            /\ s = SearchPath[k]
            /\ \A j \in 1..(k - 1) : ~view[<<SearchPath[j], call.id.table>>].there
    BY <1>2, <1>3, <2>1, Resolves
  <2>7. Created => s = Target
    BY <1>1, <1>2, <2>1, TargetIsRead
  <2> HIDE DEF s, c, fits, v, t
  <2> DEFINE more == [view[c] EXCEPT !.rows = @ + 1]
  <2>8. more \in Tabs
    <3>1. view[c] \in Tabs
      BY <1>2, <2>2
    <3> QED
      BY <3>1 DEF Tabs
  <2> HIDE DEF more
  <2>9. view' = [view EXCEPT ![c] = more]
    BY <2>4, <2>5 DEF more
  <2>10. view' \in [Places -> Tabs] /\ view'[c] = more /\ \A q \in Places \ {c} : view'[q] = view[q]
    BY <1>2, <2>2, <2>8, <2>9
  <2>11. TypeOK'
    BY <1>2, <2>2, <2>4, <2>10 DEF TypeOK
  <2>12. Seeing'
    BY <1>1, <2>1, <2>2, <2>3, <2>4, <2>10 DEF Inv, Seeing
  <2>13. CatalogStays'
    <3>1. ASSUME NEW n \in Names PROVE view'[<<PgCatalog, n>>] = view[<<PgCatalog, n>>]
      <4>1. <<PgCatalog, n>> \in Places /\ <<PgCatalog, n>>[1] = PgCatalog
        BY IsPlace
      <4> QED
        BY <2>1, <2>3, <2>10, <4>1
    <3> QED
      BY <1>2, <3>1 DEF CatalogStays
  <2>14. TempKnown' /\ Stages'
    BY <1>1, <1>2, <2>4 DEF Inv, TempKnown, Stages
  <2>15. Asked'
    <3>1. ASSUME call.temporary, ~call.append PROVE s = own
      BY <1>2, <2>7, <3>1 DEF Found, Created, Target
    <3> QED
      BY <1>3, <2>2, <2>3, <2>4, <3>1 DEF Inv, Asked
  <2>16. CASE Created
    <3>1. s = Target /\ c = Place(Target) /\ c \in changed /\ view[c] = Table(call.frame.fields, 0)
      BY <1>1, <2>3, <2>7, <2>16 DEF Created
    <3>2. more = Table(call.frame.fields, 1)
      BY <1>3, <3>1, TableIs DEF more
    <3>3. changed' = changed /\ Target' = Target /\ Place(Target)' = c
      BY <2>4, <3>1 DEF Target, Place
    <3>4. Uncovered'
      <4>1. ASSUME ~call.temporary, call.id.schema = NoSchema, own # NoSchema
            PROVE  ~view'[Place(own)].there
        <5>1. Place(own) \in Places /\ ~view[Place(own)].there
          BY <1>2, <1>3, <2>16, <4>1, IsPlace, PathType DEF Created, Uncovered, Place
        <5>2. Place(own) # c
          BY <2>2, <5>1
        <5> QED
          BY <2>10, <5>1, <5>2
      <4> QED
        BY <2>4, <4>1 DEF Uncovered, Place
    <3>5. Created'
      BY <1>2, <2>4, <2>10, <2>16, <3>1, <3>2, <3>3, <3>4 DEF Created
    <3> QED
      BY <2>4, <2>11, <2>12, <2>13, <2>14, <2>15, <3>5 DEF Inv, Written
  <2>17. CASE Found
    <3>1. call.append /\ changed = {} /\ changed' = {c}
      BY <1>1, <2>4, <2>17 DEF Found
    <3>2. tables[c] = view[c]
      BY <2>2, <3>1 DEF Inv, Seeing
    <3>3. tables'[c].there /\ view'[c] = [tables'[c] EXCEPT !.rows = @ + 1]
      BY <2>2, <2>4, <2>10, <3>2 DEF more
    <3>4. PICK r \in Schemas \cup TempSchemas : r = s
      BY <2>2
    <3>5. Place(r) = c /\ Place(r)' = c
      BY <2>3, <2>4, <3>4 DEF Place
    <3>6. /\ changed' = {Place(r)'} /\ call'.frame.rows
          /\ tables'[Place(r)'].there
          /\ view'[Place(r)'] = [tables'[Place(r)'] EXCEPT !.rows = @ + 1]
      BY <1>2, <2>4, <3>1, <3>3, <3>5
    <3>7. ASSUME IF call.id.schema # NoSchema THEN r = call.id.schema
                 ELSE (\E i \in DOMAIN SearchPath :
                         /\ r = SearchPath[i]
                         /\ \A j \in 1..(i - 1) : ~view[Place(SearchPath[j])].there)'
          PROVE  Inv'
      <4>1. Extended(r)'
        BY <2>4, <3>6, <3>7 DEF Extended
      <4>2. Found'
        BY <2>4, <3>1, <3>4, <4>1 DEF Found
      <4>3. Written'
        BY <2>4, <4>2 DEF Written
      <4> QED
        BY <2>11, <2>12, <2>13, <2>14, <2>15, <4>3 DEF Inv
    <3>8. CASE call.id.schema # NoSchema
      BY <2>2, <3>4, <3>7, <3>8
    <3>9. CASE call.id.schema = NoSchema
      <4>1. PICK k \in DOMAIN SearchPath :
              /\ s = SearchPath[k]
              /\ \A j \in 1..(k - 1) : ~view[<<SearchPath[j], call.id.table>>].there
        BY <2>6, <3>9
      <4>2. k \in 1..Len(SearchPath) /\ Len(SearchPath) \in Nat /\ SearchPath' = SearchPath
        BY <1>2, <2>4, <4>1, OnPath DEF SearchPath
      <4>3. ASSUME NEW j \in 1..(k - 1) PROVE ~view'[Place(SearchPath[j])].there
        <5>1. j \in 1..Len(SearchPath)
          BY <4>2
        <5>2. j \in DOMAIN SearchPath
          BY <1>2, <5>1, PathType
        <5>3. Place(SearchPath[j]) \in Places /\ ~view[Place(SearchPath[j])].there
          BY <1>2, <1>3, <4>1, <5>2, OnPath, IsPlace DEF Place
        <5>4. Place(SearchPath[j]) # c
          BY <2>2, <5>3
        <5> QED
          BY <2>10, <5>3, <5>4
      <4>4. (\A j \in 1..(k - 1) : ~view[Place(SearchPath[j])].there)'
        BY <2>4, <4>2, <4>3 DEF Place
      <4> QED
        BY <3>4, <3>7, <3>9, <4>1, <4>2, <4>4
    <3> QED
      BY <3>8, <3>9
  <2> QED
    BY <1>2, <2>16, <2>17
<1> QED
  BY <1>4, <1>5

LEMMA InvStep == Inv /\ [Next]_vars => Inv'
<1> SUFFICES ASSUME Inv, [Next]_vars PROVE Inv'
  OBVIOUS
<1>1. CASE \E p \in Places, t \in Bare : OtherSession(p, t)
  BY <1>1, InvOther
<1>2. CASE \E p \in Paths : SetPath(p) \/ Reset(p)
  BY <1>2, InvSetPath, InvReset
<1>3. CASE \E id \in Id, temporary \in BOOLEAN : RemoveTable(id, temporary)
  BY <1>3, InvRemoveTable
<1>4. CASE \E id \in Id, overwrite, append, temporary \in BOOLEAN, f \in Frames :
             WriteTable(id, overwrite, append, temporary, f)
  BY <1>4, InvWriteTable
<1>5. CASE RemoveOld \/ Exists \/ Create \/ AppendTable \/ Commit
  BY <1>5, InvRemoveOld, InvExists, InvCreate, InvAppend, InvCommit
<1>6. CASE UNCHANGED vars
  <2>1. UNCHANGED <<dialect, path, own, tempSchema, tables, view, changed, touched, call, pc>>
    BY <1>6 DEF vars
  <2>2. SearchPath' = SearchPath /\ Target' = Target /\ \A s : Place(s)' = Place(s)
    BY <2>1 DEF SearchPath, Target, Place
  <2>3. (TypeOK /\ Seeing /\ CatalogStays /\ TempKnown /\ Stages /\ Asked)'
    BY <2>1 DEF Inv, TypeOK, Seeing, CatalogStays, TempKnown, Stages, Asked
  <2>4. Written'
    BY <2>1, <2>2 DEF Inv, Written, Uncovered, Created, Found, Extended
  <2> QED
    BY <2>3, <2>4 DEF Inv
<1> QED
  BY <1>1, <1>2, <1>3, <1>4, <1>5, <1>6 DEF Next

LEMMA AlwaysInv == Spec => []Inv
<1>1. Init => Inv
  BY InvInit
<1>2. Inv /\ [Next]_vars => Inv'
  BY InvStep
<1> QED
  BY <1>1, <1>2, PTL DEF Spec

-----------------------------------------------------------------------------
(* What follows from it.                                                   *)

\* Every variable keeps its type, for any schemas, names and search paths.
THEOREM TypeCorrect == Spec => []TypeOK
<1>1. Inv => TypeOK
  BY DEF Inv
<1> QED
  BY <1>1, AlwaysInv, PTL

\* dbWriteTable() changes only tables of the name it was given, replaces one only
\* for overwrite = TRUE, and adds to one that was there only for append = TRUE:
\* with any search path and any temporary tables that shadow others, whatever
\* other sessions create and drop between its statements.
THEOREM OnlyWhatIsAskedFor == Spec => []ChangesAreAskedFor
<1>1. ASSUME Inv PROVE ChangesAreAskedFor
  <2>1. ASSUME NEW p \in changed
        PROVE  /\ p[2] = call.id.table /\ call.id.schema \in {NoSchema, p[1]}
               /\ tables[p].there =>
                    \/ call.overwrite
                    \/ call.append /\ view[p] = [tables[p] EXCEPT !.rows = @ + 1]
    <3>1. /\ pc # "idle" /\ p[2] = call.id.table /\ call.id.schema \in {NoSchema, p[1]}
      BY <1>1 DEF Inv, Asked
    <3>2. ASSUME tables[p].there, ~call.overwrite
          PROVE  call.append /\ view[p] = [tables[p] EXCEPT !.rows = @ + 1]
      <4>1. changed # {} /\ pc \in {"append", "commit"}
        BY <1>1, <3>1, <3>2 DEF Inv, TypeOK, Seeing, Stages
      <4>2. ~Created
        BY <3>2 DEF Created
      <4>3. call.append /\ \E s \in Schemas \cup TempSchemas : Extended(s)
        BY <1>1, <4>1, <4>2 DEF Inv, Written, Found
      <4> QED
        BY <4>3 DEF Extended
    <3>3. call.overwrite \in BOOLEAN
      BY <1>1, <3>1, CallIs DEF Inv
    <3> QED
      BY <3>1, <3>2, <3>3
  <2> QED
    BY <2>1 DEF ChangesAreAskedFor
<1> QED
  BY <1>1, AlwaysInv, PTL

\* For temporary = TRUE, dbRemoveTable() drops and dbWriteTable() changes tables
\* of the session's own temporary schema only, as long as no connection to
\* Redshift is reset: its temp_schema_ would outlive the session.
THEOREM OnlyOwnTemporary ==
  ASSUME "redshift" \notin Resets
  PROVE  Spec => TemporaryStaysOwn
<1>1. ASSUME Inv, [Next]_vars
      PROVE  /\ call.temporary /\ ~call.append => \A p \in changed : p[1] = own
             /\ \A id \in Id : RemoveTable(id, TRUE) =>
                  \A p \in Places : tables'[p] # tables[p] => p[1] = own
  <2>1. call.temporary /\ ~call.append => \A p \in changed : p[1] = own
    BY <1>1 DEF Inv, Asked
  <2>2. ASSUME NEW id \in Id, RemoveTable(id, TRUE), NEW p \in Places, tables'[p] # tables[p]
        PROVE  p[1] = own
    <3> DEFINE s == DropSchema(tables, id, TRUE)
    <3>1. TypeOK /\ TempKnown /\ tables \in [Places -> Tabs]
      BY <1>1 DEF Inv, TypeOK
    <3>2. tables' = Drop(tables, id, TRUE)
      BY <2>2 DEF RemoveTable
    <3>3. s # NoSchema /\ p = <<s, id.table>>
      BY <2>2, <3>1, <3>2, DropIs
    <3>4. s = own
      BY <3>1, <3>3, DropSchemaIs
    <3> QED
      BY <3>3, <3>4
  <2> QED
    BY <2>1, <2>2
<1> QED
  BY <1>1, AlwaysInv, PTL DEF Spec, TemporaryStaysOwn

-----------------------------------------------------------------------------
(* What is read under a name.                                              *)

\* After the commit the name reads the table written, unless another session
\* has put one in front of it.
LEMMA AtCommit ==
  ASSUME Inv, pc = "commit", call.id.table \notin Catalogued
  PROVE  WrittenIsRead
<1> DEFINE id == call.id
           p == <<Schema(view, id), id.table>>
           added == IF call.frame.rows THEN 1 ELSE 0
           t == Read(view, id)
<1>1. TypeOK /\ CatalogStays /\ (Created \/ Found) /\ id \in Id /\ call.frame.fields \in Lists
      /\ id.schema \in Schemas \cup {NoSchema} /\ id.table \in Names
  <2>1. TypeOK /\ CatalogStays /\ (Created \/ Found) /\ pc # "idle"
    BY DEF Inv, Written
  <2> QED
    BY <2>1, CallIs
<1>2. SUFFICES \/ p \in touched \ changed
               \/ changed = {}
               \/ t = Table(call.frame.fields, added)
               \/ call.append /\ t.there /\ t = [tables[p] EXCEPT !.rows = @ + added]
  BY DEF WrittenIsRead
<1>3. CASE Created
  <2>1. Schema(view, id) = Target /\ Target \in Schemas \cup TempSchemas
    BY <1>1, <1>3, TargetIsRead
  <2>2. t = view[Place(Target)]
    BY <2>1, Constants DEF Read, Place
  <2> QED
    BY <1>3, <2>2 DEF Created
<1>4. ASSUME call.append, NEW s \in Schemas \cup TempSchemas, Extended(s)
      PROVE  \/ p \in touched \ changed
             \/ t.there /\ t = [tables[p] EXCEPT !.rows = @ + added]
  <2>1. /\ changed = {Place(s)} /\ call.frame.rows
        /\ view[Place(s)] = [tables[Place(s)] EXCEPT !.rows = @ + 1]
        /\ Place(s) \in Places /\ view[Place(s)] \in Tabs /\ view[Place(s)].there
    <3>1. Place(s) \in Places
      BY <1>1, IsPlace DEF Place
    <3>2. tables[Place(s)] \in Tabs /\ view[Place(s)] \in Tabs
      BY <1>1, <3>1 DEF TypeOK
    <3> QED
      BY <1>4, <3>1, <3>2 DEF Extended, Tabs
  <2>2. s # NoSchema
    BY Constants
  <2>3. ASSUME Schema(view, id) = s
        PROVE  t.there /\ t = [tables[p] EXCEPT !.rows = @ + added]
    BY <2>1, <2>2, <2>3 DEF Read, Place
  <2>4. CASE id.schema # NoSchema
    <3>1. s = id.schema
      BY <1>4, <2>4 DEF Extended
    <3> QED
      BY <1>1, <2>1, <2>3, <2>4, <3>1, Resolves DEF Place
  <2>5. CASE id.schema = NoSchema
    <3>1. PICK i \in DOMAIN SearchPath :
            /\ s = SearchPath[i]
            /\ \A j \in 1..(i - 1) : view[Place(SearchPath[j])].there => Place(SearchPath[j]) \in touched
      BY <1>4, <2>5 DEF Extended
    <3>2. view[<<SearchPath[i], id.table>>].there
      BY <2>1, <3>1 DEF Place
    <3>3. Schema(view, id) # NoSchema
      BY <1>1, <2>5, <3>2, Resolves
    <3>4. PICK k \in DOMAIN SearchPath :
            /\ Schema(view, id) = SearchPath[k] /\ view[<<SearchPath[k], id.table>>].there
            /\ \A j \in 1..(k - 1) : ~view[<<SearchPath[j], id.table>>].there
      BY <1>1, <2>5, <3>3, Resolves
    <3>5. i \in Nat /\ k \in Nat /\ 1 <= i /\ 1 <= k
      BY <1>1, OnPath
    <3>6. ~(i < k)
      BY <3>2, <3>4, <3>5
    <3>7. i = k => Schema(view, id) = s
      BY <3>1, <3>4
    <3>8. k < i => Place(SearchPath[k]) \in touched
      BY <3>1, <3>4, <3>5 DEF Place
    <3>9. p = Place(SearchPath[k])
      BY <3>4 DEF Place
    <3>10. p \in changed => Schema(view, id) = s
      BY <2>1 DEF Place
    <3> QED
      BY <2>3, <3>5, <3>6, <3>7, <3>8, <3>9, <3>10
  <2> QED
    BY <2>4, <2>5
<1> QED
  BY <1>1, <1>2, <1>3, <1>4 DEF Found

\* When dbWriteTable() returns, its name reads what it has written, with any
\* search path and whatever temporary tables there are, or a table that
\* another session has put in front of it meanwhile.
THEOREM WrittenTableIsRead == Spec => []WrittenIsRead
<1>1. Inv => WrittenIsRead
  BY AtCommit DEF WrittenIsRead
<1> QED
  BY <1>1, AlwaysInv, PTL

\* What information_schema lists under a name can be read under it.
LEMMA ListedIsRead ==
  ASSUME TypeOK, NEW id \in Id, ExistsTable(id)
  PROVE  Read(view, id).there
<1>1. PICK p \in Places :
        /\ view[p].there /\ p[2] = id.table
        /\ IF id.schema # NoSchema THEN p[1] = id.schema ELSE p[1] \in ToSet(SearchPath)
  BY DEF ExistsTable, Listed, InformationSchema
<1>2. p = <<p[1], id.table>>
  BY <1>1, PlaceIs
<1>3. Schema(view, id) # NoSchema
  <2>1. CASE id.schema # NoSchema
    BY <1>1, <1>2, <2>1, Resolves
  <2>2. CASE id.schema = NoSchema
    <3>1. PICK k \in DOMAIN SearchPath : p[1] = SearchPath[k]
      BY <1>1, <2>2 DEF ToSet
    <3>2. view[<<SearchPath[k], id.table>>].there
      BY <1>1, <1>2, <3>1
    <3> QED
      BY <2>2, <3>1, <3>2, Resolves
  <2> QED
    BY <2>1, <2>2
<1> QED
  BY <1>3, ResolvesType DEF Read

\* What can be read is in information_schema, and is not another session's.
LEMMA ReadIsKnown ==
  ASSUME TypeOK, NEW id \in Id, Read(view, id).there
  PROVE  /\ Schema(view, id) # NoSchema
         /\ <<Schema(view, id), id.table>> \in InformationSchema
         /\ id.schema = NoSchema => Schema(view, id) \in ToSet(SearchPath)
<1> DEFINE s == Schema(view, id)
<1>1. s # NoSchema
  BY TableIs DEF Read
<1>2. <<s, id.table>> \in Places /\ view[<<s, id.table>>].there /\ id.schema \in {NoSchema, s}
  BY <1>1, ResolvesType
<1>3. id.schema \in Schemas \cup {NoSchema}
  BY DEF Id
<1>4. ASSUME id.schema = NoSchema
      PROVE  s \in ToSet(SearchPath) /\ s \in Schemas \cup {own, PgCatalog}
  <2>1. PICK k \in DOMAIN SearchPath : s = SearchPath[k]
    BY <1>1, <1>4, Resolves
  <2>2. s \in Schemas \cup {own, PgCatalog}
    BY <2>1, OnPath
  <2> QED
    BY <2>1, <2>2 DEF ToSet
<1>5. s \notin TempSchemas \ {own}
  BY <1>2, <1>3, <1>4, Constants
<1> HIDE DEF s
<1>6. <<s, id.table>> \in InformationSchema
  BY <1>2, <1>5 DEF InformationSchema
<1> QED
  BY <1>1, <1>4, <1>6 DEF s

LEMMA OneElement ==
  ASSUME NEW S, NEW x \in S
  PROVE  <<x>> \in Seq(S)
OBVIOUS

LEMMA LargerElements ==
  ASSUME NEW S, NEW T, S \subseteq T, NEW s \in Seq(S)
  PROVE  s \in Seq(T)
<1>1. Len(s) \in Nat /\ s \in [1..Len(s) -> S]
  OBVIOUS
<1>2. s \in [1..Len(s) -> T]
  BY <1>1
<1> QED
  BY <1>1, <1>2

\* Sequences of sequences of which one at most is not empty: that one is left.
LEMMA FlattenOne ==
  ASSUME NEW S, NEW n \in Nat \ {0}, NEW seqs \in [1..n -> Seq(S)], NEW p \in 1..n,
         \A k \in (1..n) \ {p} : seqs[k] = <<>>
  PROVE  FlattenSeq(seqs) = seqs[p]
<1> DEFINE Is(f) == f = [i \in 1..Len(seqs) |-> IF i = 1 THEN seqs[i] ELSE f[i - 1] \o seqs[i]]
           flatten == CHOOSE f : Is(f)
           front == [i \in 1..n |-> IF i < p THEN <<>> ELSE seqs[p]]
<1>1. Len(seqs) = n /\ \A k \in 1..n : seqs[k] \in Seq(S)
  OBVIOUS
<1>2. \A s \in Seq(S) : <<>> \o s = s /\ s \o <<>> = s
  OBVIOUS
<1>3. \A i \in 2..n : front[i] = front[i - 1] \o seqs[i]
  <2> SUFFICES ASSUME NEW i \in 2..n PROVE front[i] = front[i - 1] \o seqs[i]
    OBVIOUS
  <2>1. i \in 1..n /\ i - 1 \in 1..n
    OBVIOUS
  <2>2. CASE i < p
    <3>1. front[i] = <<>> /\ front[i - 1] = <<>> /\ seqs[i] = <<>>
      BY <2>1, <2>2
    <3> QED
      BY <1>2, <3>1
  <2>3. CASE i = p
    <3>1. front[i] = seqs[p] /\ front[i - 1] = <<>>
      BY <2>1, <2>3
    <3> QED
      BY <1>1, <1>2, <2>3, <3>1
  <2>4. CASE i > p
    <3>1. front[i] = seqs[p] /\ front[i - 1] = seqs[p] /\ seqs[i] = <<>>
      BY <2>1, <2>4
    <3> QED
      BY <1>1, <1>2, <3>1
  <2>5. i < p \/ i = p \/ i > p
    OBVIOUS
  <2> HIDE DEF front
  <2> QED
    BY <2>2, <2>3, <2>4, <2>5
<1>4. front[1] = seqs[1]
  BY DEF front
<1>5. Is(front)
  <2> DEFINE g == [i \in 1..n |-> IF i = 1 THEN seqs[i] ELSE front[i - 1] \o seqs[i]]
  <2>1. ASSUME NEW i \in 1..n
        PROVE  front[i] = IF i = 1 THEN seqs[i] ELSE front[i - 1] \o seqs[i]
    <3>1. i = 1 \/ i \in 2..n
      OBVIOUS
    <3> HIDE DEF front
    <3> QED
      BY <1>3, <1>4, <3>1
  <2>2. front = [i \in 1..n |-> front[i]]
    OBVIOUS
  <2> HIDE DEF front
  <2>3. front = g
    BY <2>1, <2>2
  <2> QED
    BY <1>1, <2>3
<1> HIDE DEF front, Is
<1>6. Is(flatten)
  BY <1>5
<1>7. FlattenSeq(seqs) = flatten[n]
  BY <1>1 DEF FlattenSeq, Is
<1> HIDE DEF flatten
<1>8. \A i \in 1..n : flatten[i] = IF i = 1 THEN seqs[i] ELSE flatten[i - 1] \o seqs[i]
  BY <1>1, <1>6 DEF Is
<1>9. \A i \in 1..n : flatten[i] = front[i]
  <2> DEFINE Differs == {i \in 1..n : flatten[i] # front[i]}
  <2> SUFFICES ASSUME Differs # {} PROVE FALSE
    OBVIOUS
  <2>1. PICK i \in Differs : \A j \in Differs : i <= j
    <3>1. Differs \in SUBSET (1..n) /\ n \in Nat
      OBVIOUS
    <3> HIDE DEF Differs
    <3> QED
      BY <3>1, Least
  <2>2. i # 1
    BY <1>4, <1>8, <2>1
  <2>3. i - 1 \in 1..n /\ i - 1 \notin Differs
    BY <2>1, <2>2
  <2>4. flatten[i - 1] = front[i - 1]
    BY <2>3
  <2>5. i \in 1..n /\ i \in 2..n /\ flatten[i] # front[i]
    BY <2>1, <2>2
  <2>6. flatten[i] = flatten[i - 1] \o seqs[i]
    BY <1>8, <2>2, <2>5
  <2>7. front[i] = front[i - 1] \o seqs[i]
    BY <1>3, <2>5
  <2> QED
    BY <2>4, <2>5, <2>6, <2>7
<1> QED
  BY <1>7, <1>9 DEF front

\* Names of columns, and the one of the catalog's tables.
Strings == STRING \cup {"oid"}

\* The tables of a name that have columns are those that list_fields() joins.
LEMMA FieldsAre ==
  ASSUME TypeOK, NEW id \in Id
  PROVE  LET schemas == IF id.schema # NoSchema THEN <<id.schema>> ELSE SearchPath
         IN /\ Len(schemas) \in Nat \ {0}
            /\ FieldsOnPath(id) \in [1..Len(schemas) -> Seq(Strings)]
            /\ \A k \in 1..Len(schemas) :
                 FieldsOnPath(id)[k] # <<>> => view[<<schemas[k], id.table>>].there
            /\ \A k \in 1..Len(schemas) :
                 /\ <<schemas[k], id.table>> \in InformationSchema
                 /\ schemas[k] = PgCatalog => schemas[k] = id.schema
                 => FieldsOnPath(id)[k] = view[<<schemas[k], id.table>>].fields
<1> DEFINE schemas == IF id.schema # NoSchema THEN <<id.schema>> ELSE SearchPath
           Joined(s) == <<s, id.table>> \in InformationSchema /\ (s = PgCatalog => s = id.schema)
<1>1. Len(schemas) \in Nat \ {0} /\ DOMAIN schemas = 1..Len(schemas)
  <2>1. CASE id.schema # NoSchema
    <3>1. schemas = <<id.schema>>
      BY <2>1
    <3> HIDE DEF schemas
    <3>2. Len(schemas) = 1 /\ DOMAIN schemas = 1..1
      BY <3>1
    <3> QED
      BY <3>2
  <2>2. CASE id.schema = NoSchema
    <3>1. schemas = SearchPath
      BY <2>2
    <3>2. Len(SearchPath) \in Nat /\ DOMAIN SearchPath = 1..Len(SearchPath)
      BY PathType
    <3>3. Len(SearchPath) # 0
      <4>1. Len(path) \in Nat /\ (Len(SearchPath) = Len(path) + 1 \/ Len(SearchPath) = Len(path) + 2)
        BY PathType, PathIs
      <4> QED
        BY <4>1
    <3> HIDE DEF schemas
    <3> QED
      BY <3>1, <3>2, <3>3
  <2> HIDE DEF schemas
  <2> QED
    BY <2>1, <2>2
<1>2. \A l \in Lists : l \in Seq(Strings)
  <2>1. STRING \subseteq Strings /\ "oid" \in Strings
    BY DEF Strings
  <2>2. <<>> \in Seq(Strings) /\ <<"oid">> \in Seq(Strings)
    BY <2>1, OneElement
  <2>3. \A f \in Frames : f.fields \in Seq(STRING)
    BY CatalogAssumption
  <2>4. \A l \in Seq(STRING) : l \in Seq(Strings)
    BY <2>1, LargerElements
  <2> QED
    BY <2>2, <2>3, <2>4 DEF Lists
<1>3. \A p \in InformationSchema : view[p].there /\ view[p].fields \in Seq(Strings)
  BY <1>2 DEF InformationSchema, TypeOK, Tabs
<1> DEFINE fields == [nr \in DOMAIN schemas |->
                        IF Joined(schemas[nr]) THEN view[<<schemas[nr], id.table>>].fields ELSE <<>>]
<1>4. FieldsOnPath(id) = fields
  BY DEF FieldsOnPath
<1> HIDE DEF schemas
<1>5. <<>> \in Seq(Strings)
  OBVIOUS
<1>6. fields \in [1..Len(schemas) -> Seq(Strings)]
  BY <1>1, <1>3, <1>5
<1>7. \A k \in 1..Len(schemas) :
        fields[k] = IF Joined(schemas[k]) THEN view[<<schemas[k], id.table>>].fields ELSE <<>>
  BY <1>1
<1> HIDE DEF fields
<1> QED
  BY <1>1, <1>3, <1>4, <1>6, <1>7 DEF schemas

\* list_fields() names the columns of the first table of that name on the path.
LEMMA FieldsAreRead ==
  ASSUME TypeOK, CatalogStays
  PROVE  FieldsAreThoseRead
<1> SUFFICES ASSUME NEW id \in Id, Read(view, id).there, Read(view, id).fields # <<>>,
                    id.table \notin Catalogued,
                    dialect = "postgres" \/ \A j, k \in Ranked(id) : j = k
             PROVE  ListFields(id) = Read(view, id).fields
  BY DEF FieldsAreThoseRead
<1> DEFINE schemas == IF id.schema # NoSchema THEN <<id.schema>> ELSE SearchPath
           n == Len(schemas)
           fields == FieldsOnPath(id)
           s == Schema(view, id)
<1>1. n \in Nat \ {0} /\ fields \in [1..n -> Seq(Strings)] /\ DOMAIN fields = 1..n
  BY FieldsAre
<1>2. s # NoSchema /\ <<s, id.table>> \in InformationSchema
      /\ Read(view, id) = view[<<s, id.table>>]
  BY ReadIsKnown DEF Read
<1>3. s # PgCatalog
  BY <1>2 DEF CatalogStays, InformationSchema, Id
<1>4. PICK k \in 1..n : schemas[k] = s
                        /\ \A j \in 1..(k - 1) : ~view[<<schemas[j], id.table>>].there
  <2>1. CASE id.schema # NoSchema
    <3>1. id.schema = s
      BY <1>2, <2>1, ResolvesType
    <3> QED
      BY <2>1, <3>1
  <2>2. CASE id.schema = NoSchema
    <3>1. DOMAIN SearchPath = 1..n /\ schemas = SearchPath
      BY <2>2, PathType
    <3> QED
      BY <1>2, <2>2, <3>1, Resolves
  <2> QED
    BY <2>1, <2>2
<1>5. fields[k] = Read(view, id).fields
  BY <1>2, <1>3, <1>4, FieldsAre
<1>6. \A j \in 1..n : j < k => fields[j] = <<>>
  <2>1. \A j \in 1..n : fields[j] # <<>> => view[<<schemas[j], id.table>>].there
    BY FieldsAre
  <2> HIDE DEF schemas, fields, n
  <2>2. \A j \in 1..n : j < k => j \in 1..(k - 1)
    BY <1>1
  <2> QED
    BY <1>4, <2>1, <2>2
<1> DEFINE ranked == Ranked(id)
<1>7. ranked = {nr \in 1..n : fields[nr] # <<>>}
  BY <1>1 DEF Ranked
<1> HIDE DEF n, fields, ranked
<1>8. k \in ranked /\ \A j \in ranked : k <= j
  BY <1>1, <1>5, <1>6, <1>7
<1>9. CASE dialect = "redshift" \/ id.schema # NoSchema
  <2>1. \A j \in (1..n) \ {k} : fields[j] = <<>>
    <3>1. CASE dialect # "redshift"
      BY <1>1, <1>9, <3>1 DEF n, schemas
    <3>2. CASE dialect = "redshift"
      <4>1. \A j \in ranked : j = k
        BY <1>8, <3>2 DEF ranked
      <4> QED
        BY <1>7, <4>1
    <3> QED
      BY <3>1, <3>2
  <2>2. FlattenSeq(fields) = fields[k]
    BY <1>1, <2>1, FlattenOne
  <2> QED
    BY <1>5, <1>9, <2>2 DEF ListFields, fields
<1>10. CASE dialect # "redshift" /\ id.schema = NoSchema
  <2> DEFINE first == [nr \in 1..n |-> IF nr \in First(id) THEN fields[nr] ELSE <<>>]
  <2>1. First(id) = {k}
    <3>1. k \in Nat /\ \A j \in ranked : j \in Nat
      BY <1>1, <1>7
    <3>2. First(id) = {nr \in ranked : \A j \in ranked : nr <= j}
      BY DEF First, ranked
    <3>3. \A nr \in ranked : (\A j \in ranked : nr <= j) => nr = k
      BY <1>8, <3>1
    <3>4. k \in First(id)
      BY <1>8, <3>2
    <3>5. \A nr \in First(id) : nr = k
      BY <3>2, <3>3
    <3> QED
      BY <3>4, <3>5
  <2>2. first \in [1..n -> Seq(Strings)]
    <3> DEFINE none == <<>>
    <3>1. none \in Seq(Strings)
      OBVIOUS
    <3>2. \A nr \in 1..n : fields[nr] \in Seq(Strings)
      BY <1>1
    <3> HIDE DEF none
    <3>3. [nr \in 1..n |-> IF nr \in First(id) THEN fields[nr] ELSE none] \in [1..n -> Seq(Strings)]
      BY <3>1, <3>2
    <3> QED
      BY <3>3 DEF none
  <2>3. first[k] = fields[k] /\ \A j \in (1..n) \ {k} : first[j] = <<>>
    BY <2>1
  <2>4. ListFields(id) = FlattenSeq(first)
    BY <1>1, <1>10 DEF ListFields, fields
  <2> HIDE DEF first
  <2>5. FlattenSeq(first) = first[k]
    BY <1>1, <2>2, <2>3, FlattenOne
  <2> QED
    BY <1>5, <2>3, <2>4, <2>5
<1> QED
  BY <1>9, <1>10

\* dbExistsTable() is TRUE for the names that SELECT finds, dbListFields() names
\* the columns of the table that SELECT reads, and dbListObjects() lists names that
\* can be read, schemas that are not empty, and every table that can be read: with
\* any search path and any temporary tables.
THEOREM CatalogQueriesAgree == Spec => []QueriesAgree
<1>1. ASSUME Inv PROVE ExistsIffRead
  <2>1. TypeOK /\ CatalogStays
    BY <1>1 DEF Inv
  <2>2. ASSUME NEW id \in Id, id.table \notin Catalogued, Read(view, id).there
        PROVE  ExistsTable(id)
    <3> DEFINE p == <<Schema(view, id), id.table>>
    <3>1. id.table \in Names /\ p[1] = Schema(view, id) /\ p[2] = id.table
      BY DEF Id
    <3>2. p \in InformationSchema /\ (id.schema = NoSchema => p[1] \in ToSet(SearchPath))
          /\ Schema(view, id) # NoSchema
      BY <2>1, <2>2, ReadIsKnown
    <3>3. id.schema \in {NoSchema, p[1]}
      BY <2>1, <3>1, <3>2, ResolvesType
    <3>4. p[1] # PgCatalog
      BY <2>1, <2>2, <3>1, <3>2 DEF CatalogStays, InformationSchema
    <3> HIDE DEF p
    <3>5. p \in Listed(id)
      BY <3>2, <3>3, <3>4 DEF Listed
    <3> QED
      BY <3>1, <3>5 DEF ExistsTable
  <2> QED
    BY <2>1, <2>2, ListedIsRead DEF ExistsIffRead
<1>2. ASSUME Inv PROVE ObjectsAreComplete
  <2>1. TypeOK
    BY <1>2 DEF Inv
  <2>2. ASSUME NEW o \in ListObjects
        PROVE  \/ /\ o.table # NoTable /\ o \in Id /\ ExistsTable(o)
               \/ /\ o.table = NoTable /\ \E p \in InformationSchema : o.schema = p[1]
    <3> DEFINE all == [schema |-> NoSchema, table |-> NoTable]
    <3>1. ASSUME NEW p \in Listed(all), o = [schema |-> NoSchema, table |-> p[2]]
          PROVE  o.table # NoTable /\ o \in Id /\ ExistsTable(o)
      <4>1. p \in Places /\ all.schema = NoSchema /\ o.schema = NoSchema /\ o.table = p[2]
        BY <3>1 DEF Listed, InformationSchema
      <4>2. p[2] \in Names /\ o.table # NoTable /\ o \in Id
        BY <3>1, <4>1, PlaceIs, CatalogAssumption DEF Id
      <4>3. p \in Listed(o)
        BY <3>1, <4>1 DEF Listed
      <4> QED
        BY <4>1, <4>2, <4>3 DEF ExistsTable
    <3>2. ASSUME NEW p \in InformationSchema, o = [schema |-> p[1], table |-> NoTable]
          PROVE  o.table = NoTable /\ \E q \in InformationSchema : o.schema = q[1]
      BY <3>2
    <3> QED
      BY <3>1, <3>2 DEF ListObjects
  <2>3. ASSUME NEW id \in Id, Read(view, id).there
        PROVE  \E o \in ListObjects :
                 [schema |-> Schema(view, id), table |-> id.table] \in ListPrefix(o.schema)
    <3> DEFINE s == Schema(view, id)
               o == [schema |-> s, table |-> NoTable]
    <3>1. <<s, id.table>> \in InformationSchema
      BY <2>1, <2>3, ReadIsKnown
    <3>2. o \in ListObjects /\ o.schema = s
      BY <3>1 DEF ListObjects
    <3>3. [schema |-> s, table |-> id.table] \in ListPrefix(s)
      BY <3>1 DEF ListPrefix
    <3> QED
      BY <3>2, <3>3
  <2>4. \A o \in ListObjects : o.table # NoTable => Read(view, o).there
    BY <2>1, <2>2, ListedIsRead
  <2>5. \A o \in ListObjects : o.table = NoTable => ListPrefix(o.schema) # {}
    BY <2>2 DEF ListPrefix
  <2> QED
    BY <2>3, <2>4, <2>5 DEF ObjectsAreComplete
<1>3. ASSUME Inv PROVE FieldsAreThoseRead
  BY <1>3, FieldsAreRead DEF Inv
<1>4. Inv => QueriesAgree
  BY <1>1, <1>2, <1>3 DEF QueriesAgree
<1> QED
  BY <1>4, AlwaysInv, PTL

=============================================================================
