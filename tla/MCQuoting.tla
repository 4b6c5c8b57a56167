------------------------------ MODULE MCQuoting ------------------------------
(* A small instance of Quoting for TLC: the characters that are special to   *)
(* one of the readers, a letter and a capital.                               *)
EXTENDS Quoting, FiniteSets

SomeChars == {"dq", "sq", "bs", "dot", "sp", "E", "e"}
Fold == [c \in {"E", "e"} |-> "e"]

UpTo(n, S) == UNION {[1..k -> S] : k \in 0..n}

Parts == UpTo(2, {"dq", "dot", "E", "sp"}) \cup {<<"e", "dq", "dq">>, <<"e", "e", "e", "e">>}
SomeNames == {<<p>> : p \in Parts} \cup (Parts \X Parts)
               \cup {<<<<"e">>, p, q>> : p, q \in UpTo(1, {"dq", "dot", "e"})}
SomeStrings == UpTo(3, SomeChars)
SomeTexts == UpTo(5, {"dq", "dot", "E", "e"}) \cup UpTo(3, SomeChars)

=============================================================================
