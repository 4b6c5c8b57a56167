-------------------------------- MODULE Values --------------------------------
(***************************************************************************)
(* A data frame on its way into a table and back: db_append_table() turns  *)
(* each column into text, which encode.cpp escapes into COPY lines, or     *)
(* into literals of an INSERT, or dbBind() makes parameters of it.  The    *)
(* server parses and stores them, and a query brings every value back as   *)
(* text, which PqColumnDataSource reads into R by the OID of the column.   *)
(*                                                                         *)
(* A text is a sequence of symbols.  Those that COPY treats specially are  *)
(* characters; a number, a date, a time or a byte is one opaque symbol     *)
(* that holds the fields that are formatted.                               *)
(***************************************************************************)
EXTENDS Integers, Sequences, SequencesExt

CONSTANTS
  Shapes,     \* the classes of the columns of the data frames that are written
  Domain,     \* Domain[k]: the values of a column of class k
  MaxRows,    \* bound on the rows
  Foreign,    \* <<type, value>>: columns that only other clients create
  Chars,      \* the characters that a text may have
  Error,      \* what the server makes of a text that it refuses
  Zones,      \* UTC offsets, in minutes, of the connection and of the server
  IntMax,     \* the largest INTEGER (2^31 - 1)
  BigMax,     \* the largest BIGINT (2^63 - 1)
  Bigint      \* dbConnect(bigint = )

Char(c) == [ch |-> c, at |-> <<>>]
Opaque(fields) == [ch |-> "fields", at |-> fields]

TAB == Char("tab")
NL == Char("nl")
CR == Char("cr")
BS == Char("bs")
SQ == Char("sq")
Fields == [ch : {"fields"}, at : Seq(Int)]
Symbols == {Char(c) : c \in Chars} \cup Fields

Q == INSTANCE Quotes WITH DQ <- Char("dq"), Dot <- Char("dot"), Space <- Char("sp"),
                          E <- Char("E"), Lower <- <<>>, NameLen <- 63,
                          Error <- Error

\* An R value: an NA, a number or a string.  An SQL value has the same shape.
NA == [na |-> TRUE, num |-> 0, txt |-> <<>>]
Number(n) == [na |-> FALSE, num |-> n, txt |-> <<>>]
Text(s) == [na |-> FALSE, num |-> 0, txt |-> s]

NaN == Text(<<Char("NaN")>>)
Inf == Text(<<Char("Inf")>>)

\* What the server does not accept.
Refused == Text(Error)

VARIABLES
  how,        \* "copy", "insert" or "bind"
  kinds,      \* the class of each column of the data frame
  frame,      \* the data frame, a sequence of rows
  zone,       \* conn@timezone
  serverZone, \* TimeZone of the session: zone, or the server's after a PQreset
  sent,       \* rows given to PQputCopyData
  stream,     \* what the server has received
  types,      \* the SQL type of each column of the table
  table,      \* the table
  out,        \* the rows fetched
  pc          \* "R", "copying", "stored", "failed", "done"

given == <<how, kinds, frame, zone, serverZone>>
vars == <<given, sent, stream, types, table, out, pc>>

-----------------------------------------------------------------------------
(* Calendars.                                                              *)

\* C divides towards zero.
CDiv(a, b) == IF a >= 0 THEN a \div b ELSE -((-a) \div b)

\* Mutant of DaysFromCivil: the year starts in January.
DaysNoShift(y, m, d) ==
  LET era == CDiv(y, 400)
      yoe == y - era * 400
      doy == CDiv(153 * (m + (IF m > 2 THEN -3 ELSE 9)) + 2, 5) + d - 1
  IN era * 146097 + yoe * 365 + yoe \div 4 - yoe \div 100 + doy - 719468

\* days_from_civil()
DaysFromCivil(year, m, d) ==
  LET y == IF m <= 2 THEN year - 1 ELSE year
      era == CDiv(IF y >= 0 THEN y ELSE y - 399, 400)
      yoe == y - era * 400
      doy == CDiv(153 * (m + (IF m > 2 THEN -3 ELSE 9)) + 2, 5) + d - 1
      doe == yoe * 365 + CDiv(yoe, 4) - CDiv(yoe, 100) + doy
  IN era * 146097 + doe - 719468

\* The calendar of R and of the server, counted from 1970-01-01.
Leap(y) == y % 4 = 0 /\ (y % 100 # 0 \/ y % 400 = 0)
DaysBefore(y) == 365 * (y - 1) + (y - 1) \div 4 - (y - 1) \div 100 + (y - 1) \div 400 - 719162
MonthStart(y, m) ==
  <<0, 31, 59, 90, 120, 151, 181, 212, 243, 273, 304, 334, 365>>[m]
    + IF m > 2 /\ Leap(y) THEN 1 ELSE 0
DayNumber(date) == DaysBefore(date[1]) + MonthStart(date[1], date[2]) + date[3] - 1

Date(n) ==
  LET near == (n + 719162) \div 365 + 1
      y == CHOOSE z \in (near - 7)..near : DaysBefore(z) <= n /\ n < DaysBefore(z + 1)
      day == n - DaysBefore(y)
      m == CHOOSE k \in 1..12 : MonthStart(y, k) <= day /\ day < MonthStart(y, k + 1)
  IN <<y, m, day - MonthStart(y, m) + 1>>

TimeOfDay(secs) == <<secs \div 3600, (secs \div 60) % 60, secs % 60>>
Seconds(t) == t[1] * 3600 + t[2] * 60 + t[3]

\* The values of a TIME: seconds since midnight, up to the next one.
Midnight == 86400
TimesOfDay == 0..Midnight

Clock(secs) == Date(secs \div 86400) \o TimeOfDay(secs % 86400)
ClockSeconds(c) == DayNumber(SubSeq(c, 1, 3)) * 86400 + Seconds(SubSeq(c, 4, 6))

\* An offset as it is written: a sign, hours and minutes.
Abs(n) == IF n < 0 THEN -n ELSE n
Offset(z) == <<IF z < 0 THEN -1 ELSE 1, Abs(z) \div 60, Abs(z) % 60>>
OffsetSeconds(o) == o[1] * (o[2] * 3600 + o[3] * 60)

-----------------------------------------------------------------------------
(* sql_data_copy(): a column of a data frame as text; a logical one stays. *)

\* get_data_type()
DataType(k) ==
  CASE k = "logical" -> "BOOLEAN"
    [] k = "integer" -> "INTEGER"
    [] k = "integer64" -> "BIGINT"
    [] k = "double" -> "DOUBLE PRECISION"
    [] k = "character" -> "TEXT"
    [] k = "list" -> "BYTEA"
    [] k = "Date" -> "DATE"
    [] k = "POSIXct" -> "TIMESTAMPTZ"
    [] k = "difftime" -> "TIME"

\* fix_posixt(): the time in the zone of the connection, and the offset.
FormatTime(secs) == <<Opaque(Clock(secs + zone * 60) \o Offset(zone))>>

\* format_keep_na() takes NaN for NA.
AsText(k, v) ==
  IF v.na \/ (k = "double" /\ v = NaN) THEN NA
  ELSE CASE k \in {"logical", "integer", "integer64"} -> Text(<<Opaque(<<v.num>>)>>)
         [] k = "double" -> IF v = Inf THEN v ELSE Text(<<Opaque(<<v.num>>)>>)
         [] k = "character" -> v
         [] k = "list" -> Text(<<BS, Char("x")>> \o v.txt)
         [] k = "Date" -> Text(<<Opaque(Date(v.num))>>)
         [] k = "POSIXct" -> Text(FormatTime(v.num))
         [] k = "difftime" -> Text(<<Opaque(TimeOfDay(v.num))>>)

-----------------------------------------------------------------------------
(* encode.cpp                                                              *)

\* Mutant of EscapeSymbol: the backslash is not escaped.
EscapeControlsOnly(s) ==
  CASE s = TAB -> <<BS, Char("t")>>
    [] s = NL -> <<BS, Char("n")>>
    [] s = CR -> <<BS, Char("r")>>
    [] OTHER -> <<s>>

EscapeSymbol(s) ==
  CASE s = TAB -> <<BS, Char("t")>>
    [] s = NL -> <<BS, Char("n")>>
    [] s = CR -> <<BS, Char("r")>>
    [] s = BS -> <<BS, BS>>
    [] OTHER -> <<s>>

\* escape_in_buffer()
Escape(s) == FlattenSeq([k \in DOMAIN s |-> EscapeSymbol(s[k])])

\* encode_in_buffer()
Encode(v) == IF v.na THEN <<BS, Char("N")>> ELSE Escape(v.txt)

\* encode_row_in_buffer()
EncodeRow(row) ==
  FlattenSeq([j \in DOMAIN row |-> (IF j = 1 THEN <<>> ELSE <<TAB>>) \o Encode(row[j])]) \o <<NL>>

-----------------------------------------------------------------------------
(* The server: COPY FROM STDIN in text format, input and output of values. *)

\* The server goes through the data symbol by symbol; raw is the field as it
\* was sent, txt what it means.
CopyReader(rows, row, raw, txt, mode) ==
  [rows |-> rows, row |-> row, raw |-> raw, txt |-> txt, mode |-> mode]
CopyStart == CopyReader(<<>>, <<>>, <<>>, <<>>, "plain")

\* A symbol after a backslash.
Meaning(c) ==
  CASE c = Char("t") -> TAB
    [] c = Char("n") -> NL
    [] c = Char("r") -> CR
    [] OTHER -> c

Take(st, c, meaning) ==
  CopyReader(st.rows, st.row, Append(st.raw, c), Append(st.txt, meaning), "plain")
Field(st) == IF st.raw = <<BS, Char("N")>> THEN NA ELSE Text(st.txt)
EndField(st) == CopyReader(st.rows, Append(st.row, Field(st)), <<>>, <<>>, "plain")
EndRow(st) ==
  IF st.row = <<>> /\ st.raw = <<BS, Char("dot")>> THEN [st EXCEPT !.mode = "over"]
  ELSE CopyReader(Append(st.rows, Append(st.row, Field(st))), <<>>, <<>>, <<>>, "plain")

CopyReads(st, c) ==
  CASE st.mode = "escape" -> Take(st, c, Meaning(c))
    [] st.mode = "plain" /\ c = BS ->
         CopyReader(st.rows, st.row, Append(st.raw, c), st.txt, "escape")
    [] st.mode = "plain" /\ c = TAB -> EndField(st)
    [] st.mode = "plain" /\ c = NL -> EndRow(st)
    [] st.mode = "plain" /\ c \notin {BS, TAB, NL} -> Take(st, c, c)
    [] st.mode = "over" -> st

\* The lines that are complete.
CopyTable(s) == Q!Reading(CopyReads, CopyStart, s).rows

\* The value of a field of a type, and the text of a value.
Input(t, v) ==
  IF v.na THEN NA
  ELSE CASE t \in {"BOOLEAN", "INTEGER", "BIGINT"} -> Number(v.txt[1].at[1])
         [] t = "DOUBLE PRECISION" -> IF v = Inf THEN v ELSE Number(v.txt[1].at[1])
         [] t = "TEXT" -> v
         [] t = "BYTEA" -> Text(SubSeq(v.txt, 3, Len(v.txt)))
         [] t = "DATE" -> Number(DayNumber(v.txt[1].at))
         [] t = "TIMESTAMPTZ" ->
              LET c == v.txt[1].at
              IN Number(ClockSeconds(SubSeq(c, 1, 6)) - OffsetSeconds(SubSeq(c, 7, 9)))
         [] t = "TIME" ->
              LET secs == Seconds(v.txt[1].at)
              IN IF secs \in TimesOfDay THEN Number(secs) ELSE Refused

Output(t, v) ==
  CASE t \in {"BOOLEAN", "INTEGER", "BIGINT"} -> <<Opaque(<<v.num>>)>>
    [] t = "DOUBLE PRECISION" -> IF v \in {Inf, NaN} THEN v.txt ELSE <<Opaque(<<v.num>>)>>
    [] t \in {"TEXT", "JSON"} -> v.txt
    [] t = "BYTEA" -> <<BS, Char("x")>> \o v.txt
    [] t = "DATE" -> <<Opaque(Date(v.num))>>
    [] t = "TIMESTAMPTZ" -> <<Opaque(Clock(v.num + serverZone * 60) \o Offset(serverZone))>>
    [] t = "TIMESTAMP" -> <<Opaque(Clock(v.num))>>
    [] t = "TIME" -> <<Opaque(TimeOfDay(v.num))>>

-----------------------------------------------------------------------------
(* sqlAppendTable(): literals; dbBind(): parameters.                       *)

Quote(s) == Q!QuoteString(s)
ReadString(s) == Q!ServerString(s, FALSE)

\* dbQuoteLiteral().  A time is the clock in the zone of the connection, with
\* no offset; Inf is the name of a column to the server.
Literal(k, v) ==
  IF v.na \/ (k = "double" /\ v = NaN) THEN NA
  ELSE CASE k = "character" -> Text(Quote(v.txt))
         [] k = "list" -> Text(<<Char("E"), SQ, BS, BS, Char("x")>> \o v.txt \o <<SQ>>)
         [] k = "POSIXct" -> Text(<<Opaque(Clock(v.num + zone * 60))>>)
         [] OTHER -> AsText(k, v)

\* The server evaluates it for a column of type t: '...'::timestamp is a time
\* in the session's zone, and '...'::interval becomes a time of the day.
Evaluate(t, v) ==
  IF v.na THEN NA
  ELSE CASE t \in {"TEXT", "BYTEA"} ->
              LET s == Text(ReadString(v.txt))
              IN IF s = Refused THEN Refused ELSE Input(t, s)
         [] t = "TIMESTAMPTZ" -> Number(ClockSeconds(v.txt[1].at) - serverZone * 60)
         [] t = "TIME" -> Number(Seconds(v.txt[1].at) % Midnight)
         [] t = "DOUBLE PRECISION" /\ v = Inf -> Refused
         [] OTHER -> Input(t, v)

\* prepare_for_binding(): the texts of COPY, bytes written in octal.
Parameter(k, v) == IF k = "list" /\ ~v.na THEN Text(<<Opaque(v.txt)>>) ELSE AsText(k, v)
InputParameter(t, v) == IF t = "BYTEA" /\ ~v.na THEN Text(v.txt[1].at) ELSE Input(t, v)

-----------------------------------------------------------------------------
(* Reading: PQgetisnull, and a conversion chosen by the OID.               *)

\* get_column_type_from_oid()
ColumnType(t) ==
  CASE t = "BIGINT" -> "DT_INT64"
    [] t = "INTEGER" -> "DT_INT"
    [] t = "DOUBLE PRECISION" -> "DT_REAL"
    [] t = "TEXT" -> "DT_STRING"
    [] t = "DATE" -> "DT_DATE"
    [] t = "TIME" -> "DT_TIME"
    [] t = "TIMESTAMP" -> "DT_DATETIME"
    [] t = "TIMESTAMPTZ" -> "DT_DATETIMETZ"
    [] t = "BOOLEAN" -> "DT_BOOL"
    [] t = "BYTEA" -> "DT_BLOB"
    [] OTHER -> "DT_STRING"      \* DT_UNKNOWN becomes DT_STRING

\* sexptype_from_datatype(), class_from_datatype(): the class of an R vector.
RClass(dt) ==
  CASE dt = "DT_BOOL" -> "logical"
    [] dt = "DT_INT" -> "integer"
    [] dt = "DT_INT64" -> "integer64"
    [] dt = "DT_REAL" -> "double"
    [] dt = "DT_STRING" -> "character"
    [] dt = "DT_DATE" -> "Date"
    [] dt \in {"DT_DATETIME", "DT_DATETIMETZ"} -> "POSIXct"
    [] dt = "DT_TIME" -> "difftime"
    [] dt = "DT_BLOB" -> "list"

\* convert_datetime() and tm_to_time_t()
ConvertDatetime(f) ==
  LET local == DaysFromCivil(f[1], f[2], f[3]) * 86400 + f[4] * 3600 + f[5] * 60 + f[6]
  IN IF Len(f) > 6 THEN local - OffsetSeconds(SubSeq(f, 7, 9)) ELSE local

\* NA_INTEGER and NA_INTEGER64 are numbers to the server.
IntegerOf(n, max) == IF n = -max - 1 THEN NA ELSE Number(n)

Fetch(dt, s) ==
  CASE dt = "DT_BOOL" -> Number(IF s = <<Opaque(<<1>>)>> THEN 1 ELSE 0)
    [] dt = "DT_INT" -> IntegerOf(s[1].at[1], IntMax)
    [] dt = "DT_INT64" -> IntegerOf(s[1].at[1], BigMax)
    [] dt = "DT_REAL" -> IF s \in {Inf.txt, NaN.txt} THEN Text(s) ELSE Number(s[1].at[1])
    [] dt = "DT_STRING" -> Text(s)
    [] dt = "DT_BLOB" -> Text(SubSeq(s, 3, Len(s)))
    [] dt = "DT_DATE" -> Number(DaysFromCivil(s[1].at[1], s[1].at[2], s[1].at[3]))
    [] dt = "DT_TIME" -> Number(s[1].at[1] * 3600 + s[1].at[2] * 60 + s[1].at[3])
    [] dt \in {"DT_DATETIME", "DT_DATETIMETZ"} -> Number(ConvertDatetime(s[1].at))

FetchValue(t, v) == IF v.na THEN NA ELSE Fetch(ColumnType(t), Output(t, v))

\* convert_bigint(): as.integer() turns what does not fit into NA.
ConvertBigint(v) ==
  IF Bigint = "integer" /\ ~v.na /\ Abs(v.num) > IntMax THEN NA ELSE v

\* fix_timezone(): a time without zone is read in the zone of the connection.
FixTimezone(v) == IF v.na THEN v ELSE Number(v.num - zone * 60)

\* The class of a column of the data frame that dbFetch() returns.
BigintClass == IF Bigint = "numeric" THEN "double" ELSE Bigint
FinalClass(t) == IF t = "BIGINT" THEN BigintClass ELSE RClass(ColumnType(t))

Finalize(t, v) ==
  CASE t = "BIGINT" -> ConvertBigint(v)
    [] t = "TIMESTAMP" -> FixTimezone(v)
    [] OTHER -> v

-----------------------------------------------------------------------------
\* The values that the columns of R and those of the server have.  Years have
\* four digits, on every clock.
Numeric(v, set) == v = Number(v.num) /\ v.num \in set
Textual(v, set) == v = Text(v.txt) /\ v.txt \in Seq(set)
Days == DaysBefore(1)..(DaysBefore(10000) - 1)
Moment(n) == n \div 86400 \in (DaysBefore(1) + 1)..(DaysBefore(10000) - 2)

\* Less than a day, in minutes.
UtcOffsets == -1439..1439

OfClass(k, v) ==
  \/ v = NA
  \/ k = "logical" /\ Numeric(v, {0, 1})
  \/ k = "integer" /\ Numeric(v, -IntMax..IntMax)
  \/ k = "integer64" /\ Numeric(v, -BigMax..BigMax)
  \/ k = "double" /\ (v \in {NaN, Inf} \/ Numeric(v, Int))
  \/ k = "character" /\ Textual(v, Symbols)
  \/ k = "list" /\ Textual(v, Fields)
  \/ k = "Date" /\ Numeric(v, Days)
  \/ k = "POSIXct" /\ Numeric(v, Int) /\ Moment(v.num)
  \/ k = "difftime" /\ Numeric(v, Nat)

OfType(t, v) ==
  \/ v = NA
  \/ t = "BOOLEAN" /\ Numeric(v, {0, 1})
  \/ t = "INTEGER" /\ Numeric(v, (-IntMax - 1)..IntMax)
  \/ t = "BIGINT" /\ Numeric(v, (-BigMax - 1)..BigMax)
  \/ t = "DOUBLE PRECISION" /\ (v \in {NaN, Inf} \/ Numeric(v, Int))
  \/ t \in {"TEXT", "JSON"} /\ Textual(v, Symbols)
  \/ t = "BYTEA" /\ Textual(v, Fields)
  \/ t = "DATE" /\ Numeric(v, Days)
  \/ t \in {"TIMESTAMP", "TIMESTAMPTZ"} /\ Numeric(v, Int) /\ Moment(v.num)
  \/ t = "TIME" /\ Numeric(v, TimesOfDay)

Classes ==
  {"logical", "integer", "integer64", "double", "character", "list", "Date", "POSIXct", "difftime"}
SqlTypes ==
  {"BOOLEAN", "INTEGER", "BIGINT", "DOUBLE PRECISION", "TEXT", "JSON", "BYTEA", "DATE",
   "TIMESTAMP", "TIMESTAMPTZ", "TIME"}

ASSUME ValuesAssumption ==
  /\ MaxRows \in Nat /\ IntMax \in Nat /\ BigMax \in Nat
  /\ Zones \subseteq UtcOffsets
  /\ Bigint \in {"integer64", "integer", "numeric", "character"}
  /\ {"tab", "nl", "cr", "bs", "sq", "dq", "dot", "sp", "E", "x", "t", "n", "r", "N", "Inf"} \subseteq Chars
  /\ Error \notin Seq(Symbols) /\ Error \notin Seq(Seq(Symbols))
  /\ \A ks \in Shapes : ks \in Seq(Classes) /\ ks # <<>>
  /\ \A k \in Classes : \A v \in Domain[k] : OfClass(k, v)
  /\ \A f \in Foreign : f = <<f[1], f[2]>> /\ f[1] \in SqlTypes /\ OfType(f[1], f[2])

Rows(ks) == {row \in [DOMAIN ks -> UNION {Domain[ks[j]] : j \in DOMAIN ks}] :
               \A j \in DOMAIN ks : row[j] \in Domain[ks[j]]}

\* Zones matter to times only; literals and parameters go one by one, so a row
\* of them is enough.
HasTimes(ks) == \E j \in DOMAIN ks : ks[j] = "POSIXct"

Init ==
  /\ how \in {"copy", "insert", "bind"}
  /\ kinds \in Shapes
  /\ \E n \in 0..(IF how = "copy" THEN MaxRows ELSE 1) : frame \in [1..n -> Rows(kinds)]
  /\ zone \in Zones /\ serverZone \in Zones
  /\ ~HasTimes(kinds) /\ frame # <<>> => zone = serverZone
  /\ sent = 0 /\ stream = <<>>
  /\ types = <<>> /\ table = <<>>
  /\ out = <<>>
  /\ pc = "R"

\* dbCreateTable() with the types of the columns.
Types == [j \in DOMAIN kinds |-> DataType(kinds[j])]

\* A statement that meets a value which the server refuses fails as a whole.
Store(rows) ==
  IF \E i \in DOMAIN rows : \E j \in DOMAIN rows[i] : rows[i][j] = Refused
  THEN pc' = "failed" /\ UNCHANGED table
  ELSE pc' = "stored" /\ table' = rows

BeginCopy ==
  /\ pc = "R" /\ how = "copy"
  /\ types' = Types /\ pc' = "copying"
  /\ UNCHANGED <<given, sent, stream, table, out>>

\* db_append_table(copy = FALSE)
Insert ==
  /\ pc = "R" /\ how = "insert"
  /\ types' = Types /\ sent' = Len(frame)
  /\ Store([i \in DOMAIN frame |->
              [j \in DOMAIN kinds |-> Evaluate(types'[j], Literal(kinds[j], frame[i][j]))]])
  /\ UNCHANGED <<given, stream, out>>

\* dbBind() with one column of the data frame for each parameter.
Bind ==
  /\ pc = "R" /\ how = "bind"
  /\ types' = Types /\ sent' = Len(frame)
  /\ Store([i \in DOMAIN frame |->
              [j \in DOMAIN kinds |->
                 InputParameter(types'[j], Parameter(kinds[j], frame[i][j]))]])
  /\ UNCHANGED <<given, stream, out>>

\* copy_data(): one row is encoded and put.
PutRow ==
  /\ pc = "copying" /\ sent < Len(frame)
  /\ stream' = stream \o EncodeRow([j \in DOMAIN kinds |-> AsText(kinds[j], frame[sent + 1][j])])
  /\ sent' = sent + 1
  /\ UNCHANGED <<given, types, table, out, pc>>

Received == CopyTable(stream)

EndCopy ==
  /\ pc = "copying" /\ sent = Len(frame)
  /\ Store([i \in DOMAIN Received |->
              [j \in DOMAIN Received[i] |-> Input(types[j], Received[i][j])]])
  /\ UNCHANGED <<given, sent, stream, types, out>>

\* A table that another client has filled.
OtherClient(t, v) ==
  /\ pc = "R" /\ how = "copy" /\ frame = <<>>
  /\ types' = <<t>> /\ table' = << <<v>> >>
  /\ pc' = "stored"
  /\ UNCHANGED <<given, sent, stream, out>>

\* The next row of SELECT * FROM the table, through dbFetch().
FetchRow ==
  /\ pc = "stored" /\ Len(out) < Len(table)
  /\ LET row == table[Len(out) + 1] IN
     out' = Append(out, [j \in DOMAIN row |-> Finalize(types[j], FetchValue(types[j], row[j]))])
  /\ UNCHANGED <<given, sent, stream, types, table, pc>>

FetchEnd ==
  /\ pc = "stored" /\ Len(out) = Len(table)
  /\ pc' = "done"
  /\ UNCHANGED <<given, sent, stream, types, table, out>>

Next ==
  \/ BeginCopy \/ PutRow \/ EndCopy \/ Insert \/ Bind
  \/ \E f \in Foreign : OtherClient(f[1], f[2])
  \/ FetchRow \/ FetchEnd

Spec == Init /\ [][Next]_vars

-----------------------------------------------------------------------------
(* What makes the way there and back correct.                              *)

\* What dbReadTable() may give back for a value that dbWriteTable() wrote.
Expected(k, v) ==
  CASE k = "double" /\ v = NaN -> NA
    [] k = "integer64" -> ConvertBigint(v)
    [] OTHER -> v

\* A literal has no offset, and becomes a time of the day by dropping days.
Misread(k, v) ==
  how = "insert" /\ \/ k = "POSIXct" /\ zone # serverZone
                    \/ k = "difftime" /\ v.num >= Midnight

\* dbReadTable() gives back what dbWriteTable(), with COPY or INSERT, or
\* dbBind() wrote, in columns of the same class, unless the call failed:
\* whatever backslashes, quotes, tabs, line breaks, "\N" or "\." a text holds,
\* only an NA becomes NULL, and in every zone of the connection and of the
\* session.
RoundTrip ==
  (pc = "done" /\ sent > 0) =>
    /\ DOMAIN out = DOMAIN frame
    /\ \A j \in DOMAIN kinds :
         FinalClass(types[j]) = IF kinds[j] = "integer64" THEN BigintClass ELSE kinds[j]
    /\ \A i \in DOMAIN frame : \A j \in DOMAIN kinds :
         \/ out[i][j] = Expected(kinds[j], frame[i][j])
         \/ Misread(kinds[j], frame[i][j])

\* A value of another client is read as itself or, only when R's type has no
\* room for it, as NA; a time without zone shows the same clock in the zone of
\* the connection.
ForeignIsFaithful ==
  (pc = "done" /\ frame = <<>> /\ table # <<>>) =>
    LET t == types[1]  v == table[1][1]  x == out[1][1] IN
    IF x.na THEN v.na \/ (t = "INTEGER" /\ Abs(v.num) > IntMax)
                      \/ (t = "BIGINT" /\ Abs(v.num) > BigMax)
                      \/ (t = "BIGINT" /\ Bigint = "integer" /\ Abs(v.num) > IntMax)
    ELSE ~v.na /\ IF t = "TIMESTAMP" THEN Clock(x.num + zone * 60) = Clock(v.num) ELSE x = v

=============================================================================
