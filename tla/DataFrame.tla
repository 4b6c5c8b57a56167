----------------------------- MODULE DataFrame -----------------------------
(***************************************************************************)
(* DbDataFrame, DbColumn and DbColumnStorage: the rows of one dbFetch()    *)
(* are gathered, column by column, in storages of limited capacity; a new  *)
(* storage is opened when the last one is full or when the first value of  *)
(* a column of deferred type (DT_BOOL) arrives, and NULLs beyond the       *)
(* capacity are only counted.  At the end the storages of each column are  *)
(* copied one behind the other into the vector that R is given.            *)
(*                                                                         *)
(* A value is the number of its row, so that one that is lost, repeated or *)
(* out of line with the other columns shows.  PqColumnDataSource has one   *)
(* type for all values of a column, so storages never change their type.   *)
(***************************************************************************)
EXTENDS Integers, Sequences

CONSTANTS
  NCols,        \* the columns are 1..NCols
  Deferred,     \* those that start as DT_UNKNOWN
  Limits,       \* the n_max of dbFetch(), -1 for all rows
  MinCapacity,  \* MIN_DATA_CAPACITY (100 in the code)
  CheckEvery,   \* rows between two checks for interrupts (1024)
  MaxRows,      \* bound on the rows of the result
  Null,         \* an SQL NULL, an R NA
  Junk          \* what Rf_allocVector() leaves in a new vector

ASSUME DataFrameAssumption ==
  /\ NCols \in Nat /\ Deferred \subseteq 1..NCols
  /\ Limits \subseteq Int /\ 0 \notin Limits
  /\ MinCapacity \in Nat \ {0} /\ CheckEvery \in Nat \ {0} /\ MaxRows \in Nat
  /\ Null \notin Nat /\ Junk \notin Nat /\ Null # Junk

Columns == 1..NCols
Values == Nat \cup {Null}

VARIABLES
  limit,      \* n_max
  rows,       \* DbDataFrame::i
  storage,    \* storage[c]: the storages of column c, the last one in use
  fed,        \* history: fed[c] are the values that column c was given
  pc,         \* "new", "gathering", "copying", "done"; "lost" by an interrupt
  col,        \* the column that is being copied
  next,       \* its storage that is copied next
  out         \* out[c]: what has been copied

vars == <<limit, rows, storage, fed, pc, col, next, out>>

\* i, and the R vector; a vector of DT_UNKNOWN has no room.
Storages == [known : BOOLEAN, used : Nat, data : Seq(Values \cup {Junk})]

TypeOK ==
  /\ limit \in Limits \cup {1} /\ rows \in Nat
  /\ storage \in [Columns -> Seq(Storages)]
  /\ fed \in [Columns -> Seq(Values)]
  /\ pc \in {"new", "gathering", "copying", "done", "lost"}
  /\ col \in 1..(NCols + 1) /\ next \in Nat \ {0}
  /\ out \in [Columns -> Seq(Values)]
  /\ \A c \in Columns : pc # "new" => storage[c] # <<>>

-----------------------------------------------------------------------------
(* DbColumnStorage                                                         *)

MaxOf(a, b) == IF a >= b THEN a ELSE b
MinOf(a, b) == IF a <= b THEN a ELSE b

\* get_new_capacity()
NewCapacity(l, desired) == MaxOf(desired, IF l < 0 THEN MinCapacity ELSE 1)

Capacity(s) == Len(s.data)

Allocate(l, known, desired) ==
  [known |-> known, used |-> 0,
   data |-> IF known THEN [k \in 1..NewCapacity(l, desired) |-> Junk] ELSE <<>>]

\* append_null(), and append_data() when there is room: a NULL is counted
\* even if there is none.
Store(s, v) ==
  [s EXCEPT !.used = @ + 1,
            !.data = IF s.used < Capacity(s) THEN [@ EXCEPT ![s.used + 1] = v] ELSE @]

\* Mutant of Spills: a storage never gets full.
SpillsOnce(s, v) == v # Null /\ ~s.known

\* append_data() needs a new storage.
Spills(s, v) == v # Null /\ (~s.known \/ s.used >= Capacity(s))

\* Mutant of Desired: the rows already stored are forgotten.
DesiredLimit(l, s) == IF l < 0 THEN Capacity(s) * 2 ELSE l

\* append_data_to_new()
Desired(l, s) == IF l < 0 THEN Capacity(s) * 2 ELSE l - s.used

\* DbColumn::set_col_value(): the storages ss of a column after value v.
SetColValue(l, ss, v) ==
  LET s == ss[Len(ss)] IN
  IF Spills(s, v)
    THEN Append(ss, Store(Allocate(l, TRUE, Desired(l, s)), v))
    ELSE [ss EXCEPT ![Len(ss)] = Store(s, v)]

\* copy_to(): what storage s adds to a vector with so much room left.
Copied(s, room) ==
  [k \in 1..MinOf(s.used, room) |-> IF k <= Capacity(s) THEN s.data[k] ELSE Null]

-----------------------------------------------------------------------------
(* DbDataFrame                                                             *)

Init ==
  /\ limit = 1 /\ rows = 0
  /\ storage = [c \in Columns |-> <<>>]
  /\ fed = [c \in Columns |-> <<>>]
  /\ pc = "new"
  /\ col = 1 /\ next = 1
  /\ out = [c \in Columns |-> <<>>]

NewColumns(l) == [c \in Columns |-> <<Allocate(l, c \notin Deferred, 0)>>]

\* fetch_rows() with n_max = l, of a result that may have no row left.
Create(l, complete) ==
  /\ pc = "new"
  /\ limit' = l
  /\ storage' = NewColumns(l)
  /\ pc' = IF complete THEN "copying" ELSE "gathering"
  /\ UNCHANGED <<rows, fed, col, next, out>>

SetColValues(ss, row) ==
  /\ storage' = [c \in Columns |-> SetColValue(limit, ss[c], row[c])]
  /\ fed' = [c \in Columns |-> Append(fed[c], row[c])]

\* The next row: each value is the number of the row, or a NULL.
NextRow == [Columns -> {rows + 1, Null}]

\* set_col_values() and advance(); last: step() has found no more rows.
Gather(row, last) ==
  /\ pc = "gathering" /\ rows < MaxRows
  /\ SetColValues(storage, row)
  /\ rows' = rows + 1
  /\ pc' = IF last \/ (limit >= 0 /\ rows' >= limit) THEN "copying" ELSE "gathering"
  /\ UNCHANGED <<limit, col, next, out>>

\* check_user_interrupt() throws out of advance(): the frame is destroyed.
Interrupted(row) ==
  /\ pc = "gathering" /\ rows < MaxRows
  /\ (rows + 1) % CheckEvery = 0
  /\ SetColValues(storage, row)
  /\ rows' = rows + 1
  /\ pc' = "lost"
  /\ UNCHANGED <<limit, col, next, out>>

\* peek_first_row(): the row read ahead is stored, but not counted.
Peek(row, complete) ==
  /\ pc = "new"
  /\ limit' = 1
  /\ IF complete
       THEN storage' = NewColumns(1) /\ UNCHANGED fed
       ELSE /\ storage' = [c \in Columns |-> SetColValue(1, NewColumns(1)[c], row[c])]
            /\ fed' = [c \in Columns |-> <<row[c]>>]
  /\ pc' = "copying"
  /\ UNCHANGED <<rows, col, next, out>>

\* get_data(), DbColumn::operator SEXP(): one storage of one column.
CopyStorage ==
  /\ pc = "copying" /\ col <= NCols
  /\ next <= Len(storage[col])
  /\ out' = [out EXCEPT ![col] = @ \o Copied(storage[col][next], rows - Len(@))]
  /\ next' = next + 1
  /\ UNCHANGED <<limit, rows, storage, fed, pc, col>>

NextColumn ==
  /\ pc = "copying" /\ col <= NCols
  /\ next > Len(storage[col])
  /\ col' = col + 1 /\ next' = 1
  /\ UNCHANGED <<limit, rows, storage, fed, pc, out>>

Return ==
  /\ pc = "copying" /\ col > NCols
  /\ pc' = "done"
  /\ UNCHANGED <<limit, rows, storage, fed, col, next, out>>

Next ==
  \/ \E l \in Limits, complete \in BOOLEAN : Create(l, complete)
  \/ \E row \in NextRow, complete \in BOOLEAN : Peek(row, complete)
  \/ \E row \in NextRow, last \in BOOLEAN : Gather(row, last)
  \/ \E row \in NextRow : Interrupted(row)
  \/ CopyStorage \/ NextColumn \/ Return

Spec == Init /\ [][Next]_vars

-----------------------------------------------------------------------------
(* What makes a data frame correct.                                        *)

\* R is given, in every column, the values the column was fed, each at its
\* row: none is lost, shifted or invented where a storage was full, where it
\* had no type yet, or where NULLs went beyond its end.
ColumnsAreFaithful ==
  pc = "done" => \A c \in Columns : out[c] = SubSeq(fed[c], 1, rows)

\* The elements allocated in storages ss.
Room(ss) ==
  LET room[k \in 0..Len(ss)] == IF k = 0 THEN 0 ELSE room[k - 1] + Capacity(ss[k])
  IN room[Len(ss)]

\* dbFetch(n) never allocates more than n elements for a column.
LimitBoundsMemory ==
  limit > 0 => \A c \in Columns : Room(storage[c]) <= limit

=============================================================================
