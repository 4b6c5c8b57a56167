------------------------------- MODULE Quoting -------------------------------
(***************************************************************************)
(* Names and strings between R and the server: dbQuoteIdentifier() and     *)
(* dbQuoteString() write SQL, the server reads it, and                     *)
(* dbUnquoteIdentifier() takes SQL names apart again.  Every call that     *)
(* quotes also checks the connection, which Session models.                *)
(***************************************************************************)
EXTENDS Quotes

CONSTANTS
  Chars,     \* the characters
  Names,     \* sequences of name parts, given as Id(), or one as a character
  Strings,   \* strings to be quoted
  Texts,     \* names that the user writes as SQL()
  NA         \* NA_character_

\* The special characters are not letters, and catalog, schema and table are
\* the most that an Id has.
ASSUME QuotingAssumption ==
  /\ {DQ, SQ, BS, Dot, Space, E} \cup DOMAIN Lower \subseteq Chars
  /\ \A c \in DOMAIN Lower : Lower[c] \in Chars
  /\ IsInjective(<<DQ, SQ, BS, Dot, Space, E>>)
  /\ DOMAIN Lower \cap {DQ, SQ, BS, Dot, Space} = {}
  /\ NameLen \in Nat \ {0}
  /\ \A n \in Names : n \in Seq(Seq(Chars)) /\ Len(n) \in 1..3
  /\ \A s \in Strings \cup Texts : s \in Seq(Chars)
  /\ NA \notin Seq(Chars) /\ Error \notin Seq(Seq(Chars))

VARIABLES
  given,     \* what R was given: an Id, a string or SQL
  what,      \* "Id", "string" or "SQL"
  redshift,  \* the connection is one of Redshift()
  text,      \* the SQL
  read,      \* what the server takes it for
  back,      \* what dbUnquoteIdentifier() takes it for
  pc         \* "R", "quoted", "read"

vars == <<given, what, redshift, text, read, back, pc>>

Init ==
  /\ redshift \in BOOLEAN
  /\ \/ what = "Id" /\ given \in Names
     \/ what = "string" /\ given \in Strings \cup {NA}
     \/ what = "SQL" /\ given \in Texts
  /\ text = <<>> /\ read = <<>> /\ back = <<>>
  /\ pc = "R"

\* dbQuoteIdentifier(), which leaves SQL alone.
QuoteName ==
  /\ pc = "R" /\ what # "string"
  /\ text' = (IF what = "Id" THEN QuoteId(given) ELSE given)
  /\ pc' = "quoted"
  /\ UNCHANGED <<given, what, redshift, read, back>>

\* dbQuoteString(); an NA is not quoted.
Quote(s) == IF redshift THEN QuoteRedshift(s) ELSE QuoteString(s)
QuoteText ==
  /\ pc = "R" /\ what = "string"
  /\ text' = (IF given = NA THEN NA ELSE Quote(given))
  /\ pc' = "quoted"
  /\ UNCHANGED <<given, what, redshift, read, back>>

\* The server reads a name and R takes it apart, or the server reads a string.
ReadName ==
  /\ pc = "quoted" /\ what # "string"
  /\ read' = ServerName(text) /\ back' = Unquote(text)
  /\ pc' = "read"
  /\ UNCHANGED <<given, what, redshift, text>>

ReadText ==
  /\ pc = "quoted" /\ what = "string"
  /\ read' = (IF text = NA THEN NA ELSE ServerString(text, redshift))
  /\ pc' = "read"
  /\ UNCHANGED <<given, what, redshift, text, back>>

Next == QuoteName \/ QuoteText \/ ReadName \/ ReadText

Spec == Init /\ [][Next]_vars

-----------------------------------------------------------------------------
(* What the callers rely on.                                               *)

Blank(names) == \E k \in DOMAIN names : names[k] = <<>>
Long(names) == \E k \in DOMAIN names : Len(names[k]) > NameLen

\* Whatever characters a name has, the server reads exactly that name out of
\* its quoted form, and dbUnquoteIdentifier() gives it back; the server cuts
\* longer names, and both refuse the empty one.
NameIsKept ==
  (pc = "read" /\ what = "Id") =>
    IF Blank(given) THEN read = Error /\ back = Error
    ELSE read = [k \in DOMAIN given |-> Cut(given[k])] /\ back = given

Folds(s) == \E k \in DOMAIN s : s[k] \in DOMAIN Lower /\ Lower[s[k]] # s[k]

\* R and the server understand a name that the user wrote as SQL in the same
\* way, so that dbExistsTable() asks for the table that the statements use,
\* except for names that the server folds or cuts.
NamesAgree ==
  (pc = "read" /\ what = "SQL" /\ read # Error /\ Len(read) <= 3) =>
    \/ back = read
    \/ back # Error /\ Long(back)
    \/ back # Error /\ Folds(text) /\ Len(back) = Len(read)

\* The server reads back the string that was quoted, on both kinds of servers,
\* and no string can end its literal early.
StringIsRead == (pc = "read" /\ what = "string") => read = given

=============================================================================
