-------------------------------- MODULE Quotes --------------------------------
(***************************************************************************)
(* Quoting of names and strings as sequences of characters: what libpq and *)
(* the R methods make of them, what dbUnquoteIdentifier() reads back, and  *)
(* what the lexer of the server reads.                                     *)
(***************************************************************************)
EXTENDS Naturals, Sequences, SequencesExt

CONSTANTS
  DQ, SQ, BS,  \* the double quote, the single quote, the backslash
  Dot, Space, E,
  Lower,       \* Lower[c]: the letter that the server folds a letter c to
  NameLen,     \* bytes of a name that the server keeps (63)
  Error        \* what a reader makes of a text that it refuses

\* What a reader makes of a text: step is what it does with a character.
Reading(step(_, _), start, text) ==
  LET state[k \in 0..Len(text)] == IF k = 0 THEN start ELSE step(state[k - 1], text[k])
  IN state[Len(text)]

\* Mutant of Doubled: the text is copied.
NotDoubled(s, special) == s

\* Every character of special twice.
Doubled(s, special) ==
  FlattenSeq([k \in DOMAIN s |-> IF s[k] \in special THEN <<s[k], s[k]>> ELSE <<s[k]>>])

-----------------------------------------------------------------------------
(* Names.                                                                  *)

\* quote_identifier(): PQescapeIdentifier().
QuoteIdentifier(s) == <<DQ>> \o Doubled(s, {DQ}) \o <<DQ>>

\* dbQuoteIdentifier(Id(...)): the parts with dots between them.
QuoteId(parts) ==
  FlattenSeq([k \in DOMAIN parts |->
    (IF k = 1 THEN <<>> ELSE <<Dot>>) \o QuoteIdentifier(parts[k])])

\* A reader of dotted names goes through the text with a mode, and closes a
\* part at a dot: the modes of quoted parts are the same for server and regex.
Extend(st, c, mode) == [st EXCEPT !.last = Append(@, c), !.mode = mode]
NextPart(st) == [parts |-> Append(st.parts, st.last), last |-> <<>>, mode |-> "start"]
Bad(st) == [st EXCEPT !.mode = "bad"]
Quoted(st, c) ==
  CASE st.mode = "quoted" /\ c = DQ -> [st EXCEPT !.mode = "closed"]
    [] st.mode = "quoted" /\ c # DQ -> Extend(st, c, "quoted")
    [] st.mode = "closed" /\ c = DQ -> Extend(st, DQ, "quoted")
    [] st.mode = "closed" /\ c = Dot -> IF st.last = <<>> THEN Bad(st) ELSE NextPart(st)
    [] OTHER -> Bad(st)
Start == [parts |-> <<>>, last |-> <<>>, mode |-> "start"]

\* The server: letters make a bare name, which is folded; every name is cut.
ServerReads(st, c) ==
  CASE st.mode = "start" /\ c = DQ -> [st EXCEPT !.mode = "quoted"]
    [] st.mode \in {"start", "bare"} /\ c \in DOMAIN Lower -> Extend(st, Lower[c], "bare")
    [] st.mode = "bare" /\ c = Dot -> NextPart(st)
    [] OTHER -> Quoted(st, c)
Cut(s) == SubSeq(s, 1, IF Len(s) < NameLen THEN Len(s) ELSE NameLen)
ServerName(text) ==
  LET end == Reading(ServerReads, Start, text)
      names == Append(end.parts, end.last)
  IN IF end.mode \in {"bare", "closed"} /\ end.last # <<>>
     THEN [k \in DOMAIN names |-> Cut(names[k])] ELSE Error

\* Mutant of RegexReads: a bare part may have dots.
RegexTakesDots(st, c) ==
  CASE st.mode = "start" /\ c = DQ -> [st EXCEPT !.mode = "quoted"]
    [] st.mode \in {"start", "bare"} /\ c \notin {DQ, Space} -> Extend(st, c, "bare")
    [] OTHER -> Quoted(st, c)

\* dbUnquoteIdentifier(): the regular expression takes any character but the
\* quote, the dot and the space in a bare part, and an empty table.
RegexReads(st, c) ==
  CASE st.mode = "start" /\ c = DQ -> [st EXCEPT !.mode = "quoted"]
    [] st.mode \in {"start", "bare"} /\ c \notin {DQ, Dot, Space} -> Extend(st, c, "bare")
    [] st.mode = "bare" /\ c = Dot -> NextPart(st)
    [] OTHER -> Quoted(st, c)

\* as_table() leaves an empty table out; at most catalog, schema and table.
Unquote(text) ==
  LET end == Reading(RegexReads, Start, text)
      names == IF end.last = <<>> THEN end.parts ELSE Append(end.parts, end.last)
  IN IF end.mode = "bad" \/ end.mode = "quoted" \/ Len(end.parts) > 2
        \/ (end.mode = "closed" /\ end.last = <<>>)
     THEN Error ELSE names

-----------------------------------------------------------------------------
(* Strings.                                                                *)

\* Mutant of QuoteString: no E for a text with backslashes.
QuotePlain(s) == <<SQ>> \o Doubled(s, {SQ, BS}) \o <<SQ>>

\* quote_string(): PQescapeLiteral() writes an escape string, after a space,
\* when the text holds a backslash.
QuoteString(s) ==
  (IF \E k \in DOMAIN s : s[k] = BS THEN <<Space, E>> ELSE <<>>)
    \o <<SQ>> \o Doubled(s, {SQ, BS}) \o <<SQ>>

\* dbQuoteString() on a RedshiftConnection: gsub() doubles both.
QuoteRedshift(s) == <<SQ>> \o Doubled(s, {SQ, BS}) \o <<SQ>>

\* The server reads one string literal and nothing after it.  escapes says
\* whether a backslash is special: on Redshift always, else after an E.
StringReads(st, c) ==
  CASE st.mode = "start" /\ c = Space -> st
    [] st.mode = "start" /\ c = E -> [st EXCEPT !.mode = "prefix", !.escapes = TRUE]
    [] st.mode \in {"start", "prefix"} /\ c = SQ -> [st EXCEPT !.mode = "in"]
    [] st.mode = "in" /\ c = SQ -> [st EXCEPT !.mode = "closed"]
    [] st.mode = "in" /\ c = BS /\ st.escapes -> [st EXCEPT !.mode = "escape"]
    [] st.mode = "in" /\ (c # BS \/ ~st.escapes) /\ c # SQ -> Extend(st, c, "in")
    [] st.mode = "closed" /\ c = SQ -> Extend(st, SQ, "in")
    [] st.mode = "escape" /\ c \in {BS, SQ} -> Extend(st, c, "in")
    [] OTHER -> Bad(st)     \* also an escape like "\n", which is another text
ServerString(text, redshift) ==
  LET end == Reading(StringReads, [last |-> <<>>, mode |-> "start", escapes |-> redshift], text)
  IN IF end.mode = "closed" THEN end.last ELSE Error

=============================================================================
