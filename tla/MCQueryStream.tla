--------------------------- MODULE MCQueryStream ---------------------------
(* Small instances of QueryStream for TLC.                                  *)
EXTENDS QueryStream

Prepared(c) == [immediate |-> FALSE, params |-> FALSE, stmts |-> <<c>>]
Params(c) == [immediate |-> FALSE, params |-> TRUE, stmts |-> <<c>>]
Immediate(s) == [immediate |-> TRUE, params |-> FALSE, stmts |-> s]

\* Two column lists and the empty one.
TwoCols == {"a", "b"}

\* Every prepared statement with and without rows and parameters, and every
\* immediate query of one or two statements.
AllQueries ==
  LET S == TwoCols \cup {""} IN
    {Prepared(c) : c \in {"a", ""}} \cup {Params(c) : c \in {"a", ""}}
    \cup {Immediate(<<c>>) : c \in {"a", ""}}
    \cup {Immediate(<<c, d>>) : c, d \in S}

ZeroToTwo == {0, 1, 2}

=============================================================================
