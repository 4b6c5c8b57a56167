------------------------------ MODULE MCValues ------------------------------
(* A small instance of Values for TLC.                                      *)
EXTENDS Values

\* The empty string, the special characters, and the texts that COPY could
\* take for a NULL, for the end of the data or for a bytea.
Texts ==
  {<<>>, <<TAB>>, <<NL>>, <<CR>>, <<BS>>, <<BS, BS>>, <<BS, Char("N")>>,
   <<Char("N")>>, <<BS, Char("dot")>>, <<BS, Char("n")>>, <<Char("t"), BS>>,
   <<TAB, BS, NL>>, <<SQ>>, <<SQ, BS>>}

Bytes == {<<>>, <<Opaque(<<0>>)>>, <<Opaque(<<255>>), Opaque(<<92>>)>>}

\* Around the ends of months, years and centuries, and of leap years.
DaysOf(y) == {DayNumber(<<y, 1, 1>>) + k : k \in {-1, 0, 30, 31, 58, 59, 60, 365}}
SomeDays == UNION {DaysOf(y) : y \in {1600, 1700, 1900, 1970, 1999, 2000, 2024, 9998}}

\* Around midnight of days near the ends of what TLC's integers hold.
Times == UNION {{n * 86400 + k : k \in {0, 3599, 43200, 86399}} : 
                  n \in {DayNumber(<<1904, 2, 29>>), -1, 0, DayNumber(<<2000, 2, 29>>), DayNumber(<<2036, 2, 29>>)}}

SmallDomain ==
  [logical   |-> {NA, Number(0), Number(1)},
   integer   |-> {NA, Number(-7), Number(0), Number(7)},
   integer64 |-> {NA, Number(-31), Number(-8), Number(7), Number(8), Number(31)},
   double    |-> {NA, NaN, Inf, Number(0), Number(3)},
   character |-> {NA} \cup {Text(s) : s \in Texts},
   list      |-> {NA} \cup {Text(s) : s \in Bytes},
   Date      |-> {NA} \cup {Number(n) : n \in SomeDays},
   POSIXct   |-> {NA} \cup {Number(n) : n \in Times},
   difftime  |-> {NA, Number(0), Number(3599), Number(86399), Number(86400), Number(90000)}]

AllShapes ==
  {<<"character", "character">>, <<"character">>, <<"Date">>, <<"POSIXct">>,
   <<"logical", "integer">>, <<"integer64", "double">>, <<"list", "difftime">>}

OtherColumns ==
  {<<"INTEGER", Number(n)>> : n \in {-8, -7, 7}}
  \cup {<<"BIGINT", Number(n)>> : n \in {-32, -31, -9, 8, 31}}
  \cup {<<"TIMESTAMP", Number(n)>> : n \in Times}
  \cup {<<"DATE", Number(n)>> : n \in DaysOf(2) \cup DaysOf(4)}
  \cup {<<"JSON", Text(s)>> : s \in Texts}
  \cup {<<"DOUBLE PRECISION", NaN>>, <<"TEXT", NA>>, <<"TIMESTAMP", NA>>}

SomeChars ==
  {"tab", "nl", "cr", "bs", "sq", "dq", "dot", "sp", "E", "x", "t", "n", "r", "N", "Inf"}

SomeZones == {-210, 345}

=============================================================================
