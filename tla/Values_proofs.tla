---------------------------- MODULE Values_proofs ----------------------------
(***************************************************************************)
(* Every value that a data frame can hold comes back from the server, and  *)
(* every value of another client is read as itself.                        *)
(*                                                                         *)
(* In this order: the server's reader of COPY takes back what encode.cpp   *)
(* has escaped, row by row; every day of four-digit years has one date,    *)
(* and days_from_civil() counts it right; each class of R and each type of *)
(* SQL survives the texts of COPY, of literals and of parameters; and then *)
(* the invariant IInv, which says what has arrived, what is stored and     *)
(* what has been fetched.                                                  *)
(***************************************************************************)
EXTENDS Values, SequenceTheorems, WellFoundedInduction, TLAPS

\* What has been proved about readers, for the symbols of Values.
L == INSTANCE Quoting_proofs WITH
       DQ <- Char("dq"), Dot <- Char("dot"), Space <- Char("sp"), E <- Char("E"), Lower <- <<>>,
       NameLen <- 63, Error <- Error, Chars <- Symbols, NA <- Error,
       Names <- {}, Strings <- {}, Texts <- {},
       given <- given, what <- how, redshift <- zone, text <- stream, read <- out, back <- out,
       pc <- pc

LEMMA Special ==
  /\ TAB \in Symbols /\ NL \in Symbols /\ CR \in Symbols /\ BS \in Symbols /\ SQ \in Symbols
  /\ Char("dq") \in Symbols /\ Char("dot") \in Symbols /\ Char("sp") \in Symbols
  /\ Char("E") \in Symbols /\ Char("x") \in Symbols /\ Char("t") \in Symbols
  /\ Char("n") \in Symbols /\ Char("r") \in Symbols /\ Char("N") \in Symbols
  /\ Char("Inf") \in Symbols
BY ValuesAssumption DEF TAB, NL, CR, BS, SQ, Symbols

LEMMA Hold == L!QuotingAssumption
<1> DEFINE all == <<Char("dq"), SQ, BS, Char("dot"), Char("sp"), Char("E")>>
<1>1. L!IsInjective(all)
  <2>1. DOMAIN all = 1..6
    OBVIOUS
  <2>2. /\ all[1] = Char("dq") /\ all[2] = Char("sq") /\ all[3] = Char("bs")
        /\ all[4] = Char("dot") /\ all[5] = Char("sp") /\ all[6] = Char("E")
    BY DEF SQ, BS
  <2>3. \A j \in 1..6 : j = 1 \/ j = 2 \/ j = 3 \/ j = 4 \/ j = 5 \/ j = 6
    OBVIOUS
  <2> HIDE DEF all
  <2>4. /\ all[1].ch = "dq" /\ all[2].ch = "sq" /\ all[3].ch = "bs"
        /\ all[4].ch = "dot" /\ all[5].ch = "sp" /\ all[6].ch = "E"
    BY <2>2 DEF Char
  <2>5. \A j, k \in 1..6 : all[j] = all[k] => j = k
    BY <2>3, <2>4
  <2> QED
    BY <2>1, <2>5 DEF L!IsInjective
<1>2. {Char("dq"), SQ, BS, Char("dot"), Char("sp"), Char("E")} \cup DOMAIN <<>> \subseteq Symbols
  BY Special
<1>3. DOMAIN <<>> = {}
  OBVIOUS
<1>4. \A c \in DOMAIN <<>> : <<>>[c] \in Symbols
  BY <1>3
<1>5. 63 \in Nat \ {0}
  OBVIOUS
<1>6. Error \notin Seq(Symbols) /\ Error \notin Seq(Seq(Symbols))
  BY ValuesAssumption
<1>7. /\ \A n \in {} : n \in Seq(Seq(Symbols)) /\ Len(n) \in 1..3
      /\ \A s \in {} \cup {} : s \in Seq(Symbols)
  OBVIOUS
<1> HIDE DEF all
<1> QED
  BY <1>1, <1>2, <1>3, <1>4, <1>5, <1>6, <1>7 DEF L!QuotingAssumption, all

LEMMA AllSequences ==
  ASSUME NEW S, NEW Good \in SUBSET Seq(S), <<>> \in Good,
         \A s \in Good, e \in S : Append(s, e) \in Good
  PROVE  \A s \in Seq(S) : s \in Good
BY Hold, L!AllSequences

LEMMA Flattened ==
  ASSUME NEW S
  PROVE  /\ FlattenSeq(<<>>) = <<>>
         /\ \A seqs \in Seq(Seq(S)) : FlattenSeq(seqs) \in Seq(S)
         /\ \A seqs \in Seq(Seq(S)), x \in Seq(S) :
              FlattenSeq(Append(seqs, x)) = FlattenSeq(seqs) \o x
<1>1. \A s : FlattenSeq(s) = L!FlattenSeq(s)
  BY DEF FlattenSeq, L!FlattenSeq
<1> QED
  BY <1>1, Hold, L!Flattened

-----------------------------------------------------------------------------
(* The server's reader of COPY data.                                       *)

SqlValues == {NA} \cup {Text(s) : s \in Seq(Symbols)}
CopyStates ==
  [rows : Seq(Seq(SqlValues)), row : Seq(SqlValues), raw : Seq(Symbols), txt : Seq(Symbols),
   mode : {"plain", "escape", "over"}]

LEMMA CopyStep ==
  ASSUME NEW st \in CopyStates, NEW c \in Symbols
  PROVE  CopyReads(st, c) \in CopyStates
<1>1. Meaning(c) \in Symbols
  BY Special DEF Meaning
<1>2. /\ st.rows \in Seq(Seq(SqlValues)) /\ st.row \in Seq(SqlValues)
      /\ st.raw \in Seq(Symbols) /\ st.txt \in Seq(Symbols)
      /\ st.mode \in {"plain", "escape", "over"}
  BY DEF CopyStates
<1>3. Append(st.raw, c) \in Seq(Symbols) /\ \A m \in Symbols : Append(st.txt, m) \in Seq(Symbols)
  BY <1>2
<1>4. Append(st.row, Field(st)) \in Seq(SqlValues)
  <2> DEFINE v == Field(st)
  <2>1. v \in SqlValues
    BY <1>2 DEF Field, SqlValues
  <2> HIDE DEF v
  <2> QED
    BY <1>2, <2>1 DEF v
<1>5. Append(st.rows, Append(st.row, Field(st))) \in Seq(Seq(SqlValues))
  <2> DEFINE r == Append(st.row, Field(st))
  <2>1. r \in Seq(SqlValues)
    BY <1>4
  <2> HIDE DEF r
  <2> QED
    BY <1>2, <2>1 DEF r
<1>6. <<>> \in Seq(Symbols) /\ <<>> \in Seq(SqlValues)
  OBVIOUS
<1>7. ASSUME NEW rows \in Seq(Seq(SqlValues)), NEW row \in Seq(SqlValues),
             NEW raw \in Seq(Symbols), NEW txt \in Seq(Symbols), NEW mode \in {"plain", "escape", "over"}
      PROVE  CopyReader(rows, row, raw, txt, mode) \in CopyStates
  BY DEF CopyReader, CopyStates
<1>8. Take(st, c, c) \in CopyStates /\ Take(st, c, Meaning(c)) \in CopyStates
  BY <1>1, <1>2, <1>3, <1>7 DEF Take
<1>9. CopyReader(st.rows, st.row, Append(st.raw, c), st.txt, "escape") \in CopyStates
  BY <1>2, <1>3, <1>7
<1>10. EndField(st) \in CopyStates
  BY <1>2, <1>4, <1>6, <1>7 DEF EndField
<1>11. EndRow(st) \in CopyStates
  <2>1. [st EXCEPT !.mode = "over"] \in CopyStates
    BY DEF CopyStates
  <2>2. CopyReader(Append(st.rows, Append(st.row, Field(st))), <<>>, <<>>, <<>>, "plain") \in CopyStates
    BY <1>5, <1>6, <1>7
  <2> QED
    BY <2>1, <2>2 DEF EndRow
<1> QED
  BY <1>2, <1>8, <1>9, <1>10, <1>11 DEF CopyReads

CopyTableOf == [st \in CopyStates |-> [c \in Symbols |-> CopyReads(st, c)]]
CopyState(t) == Q!Reading(CopyReads, CopyStart, t)

LEMMA CopyRun ==
  ASSUME NEW t \in Seq(Symbols)
  PROVE  \E f : /\ L!IsRun(f, CopyStates, Symbols, CopyTableOf, CopyStart, t)
                /\ CopyState(t) = f[Len(t)]
<1> DEFINE n == Len(t)
           Is(f) == f = [k \in 0..Len(t) |-> IF k = 0 THEN CopyStart ELSE CopyReads(f[k - 1], t[k])]
           state == CHOOSE f : Is(f)
<1>1. n \in Nat /\ \A k \in 1..n : t[k] \in Symbols
  OBVIOUS
<1>2. CopyTableOf \in [CopyStates -> [Symbols -> CopyStates]]
  BY CopyStep DEF CopyTableOf
<1>3. \A st \in CopyStates, c \in Symbols : CopyTableOf[st][c] = CopyReads(st, c)
  BY DEF CopyTableOf
<1>0. CopyStart \in CopyStates
  <2>1. <<>> \in Seq(Seq(SqlValues)) /\ <<>> \in Seq(SqlValues) /\ <<>> \in Seq(Symbols)
    OBVIOUS
  <2> QED
    BY <2>1 DEF CopyStart, CopyReader, CopyStates
<1>4. PICK f : L!IsRun(f, CopyStates, Symbols, CopyTableOf, CopyStart, t)
  BY <1>0, <1>2, Hold, L!RunExists
<1>5. f \in [0..n -> CopyStates] /\ f[0] = CopyStart
  BY <1>4 DEF L!IsRun
<1>6. \A k \in 1..n : f[k] = CopyReads(f[k - 1], t[k])
  <2> SUFFICES ASSUME NEW k \in 1..n PROVE f[k] = CopyReads(f[k - 1], t[k])
    OBVIOUS
  <2>1. k - 1 \in 0..n /\ t[k] \in Symbols
    BY <1>1
  <2>2. f[k] = CopyTableOf[f[k - 1]][t[k]]
    BY <1>4 DEF L!IsRun
  <2> HIDE DEF n
  <2> QED
    BY <1>3, <1>5, <2>1, <2>2
<1>7. Is(f)
  <2>1. \A k \in 0..n : f[k] = IF k = 0 THEN CopyStart ELSE CopyReads(f[k - 1], t[k])
    BY <1>1, <1>5, <1>6
  <2>2. f = [k \in 0..n |-> f[k]]
    BY <1>5
  <2> QED
    BY <2>1, <2>2
<1>8. Is(state)
  BY <1>7
<1>9. CopyState(t) = state[n]
  BY DEF CopyState, Q!Reading
<1> HIDE DEF state
<1>10. state[0] = CopyStart /\ \A k \in 1..n : state[k] = CopyReads(state[k - 1], t[k])
  BY <1>1, <1>8
<1>11. state[n] = f[n]
  <2> HIDE DEF n, Is
  <2>1. \A k \in 1..n : state[k - 1] = f[k - 1] => state[k] = f[k]
    BY <1>6, <1>10
  <2>2. n \in Nat /\ state[0] = f[0]
    BY <1>1, <1>5, <1>10
  <2>3. L!Follows(state, f, n)
    BY <2>1, <2>2 DEF L!Follows
  <2>4. \A k \in 0..n : state[k] = f[k]
    BY <2>3, Hold, L!SameRun
  <2> QED
    BY <1>1, <2>4
<1> QED
  BY <1>4, <1>9, <1>11

LEMMA CopyReading ==
  /\ CopyState(<<>>) = CopyStart
  /\ \A t \in Seq(Symbols) : CopyState(t) \in CopyStates
  /\ \A t \in Seq(Symbols), c \in Symbols : CopyState(Append(t, c)) = CopyReads(CopyState(t), c)
<1>1. CopyTableOf \in [CopyStates -> [Symbols -> CopyStates]]
  BY CopyStep DEF CopyTableOf
<1>2. CopyState(<<>>) = CopyStart
  <2>1. <<>> \in Seq(Symbols) /\ Len(<<>>) = 0
    OBVIOUS
  <2> QED
    BY <2>1, CopyRun DEF L!IsRun
<1>3. ASSUME NEW t \in Seq(Symbols), NEW c \in Symbols
      PROVE  /\ CopyState(t) \in CopyStates
             /\ CopyState(Append(t, c)) = CopyReads(CopyState(t), c)
  <2>1. Append(t, c) \in Seq(Symbols)
    OBVIOUS
  <2>2. PICK f : /\ L!IsRun(f, CopyStates, Symbols, CopyTableOf, CopyStart, t)
                 /\ CopyState(t) = f[Len(t)]
    BY CopyRun
  <2>3. PICK g : /\ L!IsRun(g, CopyStates, Symbols, CopyTableOf, CopyStart, Append(t, c))
                 /\ CopyState(Append(t, c)) = g[Len(Append(t, c))]
    BY <2>1, CopyRun
  <2>4. f[Len(t)] \in CopyStates /\ g[Len(Append(t, c))] = CopyTableOf[f[Len(t)]][c]
    BY <1>1, <2>2, <2>3, Hold, L!RunAppend
  <2>5. CopyTableOf[f[Len(t)]][c] = CopyReads(f[Len(t)], c)
    BY <2>4 DEF CopyTableOf
  <2> QED
    BY <2>2, <2>3, <2>4, <2>5
<1> QED
  BY <1>2, <1>3, Special

-----------------------------------------------------------------------------
(* COPY: a line is read as the row that was encoded.                       *)

LEMMA Distinct ==
  /\ TAB # NL /\ TAB # CR /\ TAB # BS /\ NL # CR /\ NL # BS /\ CR # BS /\ SQ # BS
  /\ \A c \in {Char("t"), Char("n"), Char("r"), Char("N"), Char("dot"), Char("x"), Char("E")} :
       c \notin {TAB, NL, CR, BS, SQ}
  /\ Char("t") # Char("n") /\ Char("t") # Char("r") /\ Char("n") # Char("r")
  /\ \A c \in {Char("t"), Char("n"), Char("r"), BS} : c # Char("N") /\ c # Char("dot")
  /\ \A c \in Fields : c \notin {TAB, NL, CR, BS, SQ}
<1>1. \A a : Char(a).ch = a
  BY DEF Char
<1>2. \A c \in Fields : c.ch = "fields"
  BY DEF Fields
<1> QED
  BY <1>1, <1>2 DEF TAB, NL, CR, BS, SQ

FieldValue(raw, txt) == IF raw = <<BS, Char("N")>> THEN NA ELSE Text(txt)
Copying(rows, row, raw, txt) == CopyReader(rows, row, raw, txt, "plain")

LEMMA CopySteps ==
  ASSUME NEW rows, NEW row, NEW raw, NEW txt, NEW c
  PROVE  /\ c \notin {BS, TAB, NL} =>
              CopyReads(Copying(rows, row, raw, txt), c)
                = Copying(rows, row, Append(raw, c), Append(txt, c))
         /\ CopyReads(Copying(rows, row, raw, txt), BS)
              = CopyReader(rows, row, Append(raw, BS), txt, "escape")
         /\ CopyReads(CopyReader(rows, row, raw, txt, "escape"), c)
              = Copying(rows, row, Append(raw, c), Append(txt, Meaning(c)))
         /\ CopyReads(Copying(rows, row, raw, txt), TAB)
              = Copying(rows, Append(row, FieldValue(raw, txt)), <<>>, <<>>)
         /\ ~(row = <<>> /\ raw = <<BS, Char("dot")>>) =>
              CopyReads(Copying(rows, row, raw, txt), NL)
                = Copying(Append(rows, Append(row, FieldValue(raw, txt))), <<>>, <<>>, <<>>)
<1>1. \A mode : LET st == CopyReader(rows, row, raw, txt, mode)
                IN /\ st.rows = rows /\ st.row = row /\ st.raw = raw /\ st.txt = txt
                   /\ st.mode = mode
  BY DEF CopyReader
<1> DEFINE st == CopyReader(rows, row, raw, txt, "plain")
           escaping == CopyReader(rows, row, raw, txt, "escape")
<1>2. /\ st.rows = rows /\ st.row = row /\ st.raw = raw /\ st.txt = txt /\ st.mode = "plain"
      /\ escaping.rows = rows /\ escaping.row = row /\ escaping.raw = raw
      /\ escaping.txt = txt /\ escaping.mode = "escape"
  BY <1>1
<1> HIDE DEF st, escaping
<1>3. Field(st) = FieldValue(raw, txt)
  BY <1>2 DEF Field, FieldValue
<1>4. c \notin {BS, TAB, NL} => CopyReads(st, c) = Take(st, c, c)
  BY <1>2 DEF CopyReads
<1>5. CopyReads(st, BS) = CopyReader(st.rows, st.row, Append(st.raw, BS), st.txt, "escape")
  BY <1>2, Distinct DEF CopyReads
<1>6. CopyReads(escaping, c) = Take(escaping, c, Meaning(c))
  BY <1>2 DEF CopyReads
<1>7. CopyReads(st, TAB) = EndField(st)
  BY <1>2, Distinct DEF CopyReads
<1>8. CopyReads(st, NL) = EndRow(st)
  BY <1>2, Distinct DEF CopyReads
<1> QED
  BY <1>2, <1>3, <1>4, <1>5, <1>6, <1>7, <1>8 DEF Take, EndField, EndRow, Copying, st, escaping

\* What an escaped symbol is.
LEMMA SymbolEscaped ==
  ASSUME NEW c \in Symbols
  PROVE  /\ EscapeSymbol(c) \in Seq(Symbols)
         /\ \/ c \notin {TAB, NL, CR, BS} /\ EscapeSymbol(c) = <<c>>
            \/ \E x \in {Char("t"), Char("n"), Char("r"), BS} :
                 EscapeSymbol(c) = <<BS, x>> /\ Meaning(x) = c
<1>1. /\ Meaning(Char("t")) = TAB /\ Meaning(Char("n")) = NL
      /\ Meaning(Char("r")) = CR /\ Meaning(BS) = BS
  BY Distinct DEF Meaning
<1>2. CASE c \in {TAB, NL, CR, BS}
  BY <1>1, <1>2, Distinct, Special DEF EscapeSymbol
<1>3. CASE c \notin {TAB, NL, CR, BS}
  BY <1>3 DEF EscapeSymbol
<1> QED
  BY <1>2, <1>3

LEMMA EscapeGrows ==
  /\ Escape(<<>>) = <<>>
  /\ \A s \in Seq(Symbols) : Escape(s) \in Seq(Symbols)
  /\ \A s \in Seq(Symbols), c \in Symbols : Escape(Append(s, c)) = Escape(s) \o EscapeSymbol(c)
<1> DEFINE Pieces(s) == [k \in DOMAIN s |-> EscapeSymbol(s[k])]
<1>1. \A s : Escape(s) = FlattenSeq(Pieces(s))
  BY DEF Escape
<1>2. \A c \in Symbols : EscapeSymbol(c) \in Seq(Symbols)
  BY SymbolEscaped
<1>3. ASSUME NEW s \in Seq(Symbols)
      PROVE  /\ Pieces(s) \in Seq(Seq(Symbols)) /\ Len(Pieces(s)) = Len(s)
             /\ \A k \in 1..Len(s) : Pieces(s)[k] = EscapeSymbol(s[k])
  <2>1. DOMAIN s = 1..Len(s) /\ Len(s) \in Nat /\ \A k \in 1..Len(s) : s[k] \in Symbols
    OBVIOUS
  <2>2. Pieces(s) = [k \in 1..Len(s) |-> EscapeSymbol(s[k])]
    BY <2>1
  <2>3. \A k \in 1..Len(s) : EscapeSymbol(s[k]) \in Seq(Symbols)
    BY <1>2, <2>1
  <2> HIDE DEF Pieces
  <2>4. Pieces(s) \in [1..Len(s) -> Seq(Symbols)]
    BY <2>2, <2>3
  <2> QED
    BY <2>1, <2>2, <2>4
<1>4. Pieces(<<>>) = <<>>
  OBVIOUS
<1> HIDE DEF Pieces
<1>5. ASSUME NEW s \in Seq(Symbols), NEW c \in Symbols
      PROVE  Pieces(Append(s, c)) = Append(Pieces(s), EscapeSymbol(c))
  <2> DEFINE u == Append(s, c)
             v == Append(Pieces(s), EscapeSymbol(c))
  <2>1. /\ u \in Seq(Symbols) /\ Len(u) = Len(s) + 1 /\ u[Len(s) + 1] = c
        /\ \A k \in 1..Len(s) : u[k] = s[k]
    BY AppendProperties
  <2>2. Pieces(s) \in Seq(Seq(Symbols)) /\ Len(Pieces(s)) = Len(s) /\ Len(s) \in Nat
        /\ \A k \in 1..Len(s) : Pieces(s)[k] = EscapeSymbol(s[k])
    BY <1>3
  <2>3. Pieces(u) \in Seq(Seq(Symbols)) /\ Len(Pieces(u)) = Len(u)
        /\ \A k \in 1..Len(u) : Pieces(u)[k] = EscapeSymbol(u[k])
    BY <1>3, <2>1
  <2> HIDE DEF u
  <2>4. /\ v \in Seq(Seq(Symbols)) /\ Len(v) = Len(s) + 1 /\ v[Len(s) + 1] = EscapeSymbol(c)
        /\ \A k \in 1..Len(s) : v[k] = EscapeSymbol(s[k])
    BY <1>2, <2>2, AppendProperties
  <2> HIDE DEF v
  <2>5. \A k \in 1..Len(u) : Pieces(u)[k] = v[k]
    <3> SUFFICES ASSUME NEW k \in 1..Len(u) PROVE Pieces(u)[k] = v[k]
      OBVIOUS
    <3>1. k = Len(s) + 1 \/ k \in 1..Len(s)
      BY <2>1, <2>2
    <3> QED
      BY <2>1, <2>3, <2>4, <3>1
  <2>6. Pieces(u) = v
    BY <2>1, <2>3, <2>4, <2>5, SeqEqual
  <2> QED
    BY <2>6 DEF u, v
<1>6. ASSUME NEW s \in Seq(Symbols), NEW c \in Symbols
      PROVE  FlattenSeq(Pieces(Append(s, c))) = FlattenSeq(Pieces(s)) \o EscapeSymbol(c)
  BY <1>2, <1>3, <1>5, Flattened
<1>7. \A s \in Seq(Symbols) : FlattenSeq(Pieces(s)) \in Seq(Symbols)
  BY <1>3, Flattened
<1>8. FlattenSeq(<<>>) = <<>>
  BY Flattened
<1> QED
  BY <1>1, <1>4, <1>6, <1>7, <1>8

LEMMA TwoAppends ==
  ASSUME NEW S, NEW t \in Seq(S), NEW a \in S, NEW b \in S
  PROVE  t \o <<a>> = Append(t, a) /\ t \o <<a, b>> = Append(Append(t, a), b)
OBVIOUS

\* An escaped text is neither the "\N" of a NULL nor the "\." that ends the data.
LEMMA NoMarker ==
  \A s \in Seq(Symbols) : Escape(s) # <<BS, Char("N")>> /\ Escape(s) # <<BS, Char("dot")>>
<1> DEFINE Odd == {Char("t"), Char("n"), Char("r"), BS}
           Fine(e) == \/ e = <<>>
                      \/ Len(e) = 1 /\ e[1] # BS
                      \/ Len(e) >= 2 /\ (e[1] = BS => e[2] \in Odd)
           Good == {s \in Seq(Symbols) : Fine(Escape(s))}
<1>1. <<>> \in Good
  <2>1. <<>> \in Seq(Symbols)
    OBVIOUS
  <2> QED
    BY <2>1, EscapeGrows
<1>2. ASSUME NEW s \in Good, NEW c \in Symbols PROVE Append(s, c) \in Good
  <2> DEFINE e == Escape(s)
             d == EscapeSymbol(c)
             u == e \o d
  <2>1. s \in Seq(Symbols) /\ Append(s, c) \in Seq(Symbols) /\ Fine(e)
    OBVIOUS
  <2>2. e \in Seq(Symbols) /\ Escape(Append(s, c)) = u
    BY <2>1, EscapeGrows
  <2>3. d \in Seq(Symbols) /\ ((d = <<c>> /\ c # BS) \/ \E x \in Odd : d = <<BS, x>>)
    BY SymbolEscaped
  <2>4. /\ Len(d) \in {1, 2} /\ Len(e) \in Nat
        /\ Len(d) = 1 => d[1] # BS
        /\ Len(d) = 2 => d[1] = BS /\ d[2] \in Odd
    BY <2>2, <2>3
  <2> HIDE DEF e, d, Odd
  <2>5. /\ Len(u) = Len(e) + Len(d)
        /\ \A k \in 1..Len(u) : u[k] = IF k <= Len(e) THEN e[k] ELSE d[k - Len(e)]
    BY <2>2, <2>3, ConcatProperties
  <2>6. e # <<>> => Len(e) >= 1
    BY <2>2
  <2> HIDE DEF u
  <2>7. CASE e = <<>>
    <3>1. Len(e) = 0
      BY <2>7
    <3>2. Len(u) = Len(d) /\ \A k \in 1..Len(u) : u[k] = d[k]
      BY <2>4, <2>5, <3>1
    <3>3. Len(u) = 1 => u[1] = d[1]
      BY <3>2
    <3>4. Len(u) = 2 => u[1] = d[1] /\ u[2] = d[2]
      BY <3>2
    <3>5. Fine(u)
      BY <2>4, <3>2, <3>3, <3>4
    <3> QED
      BY <2>1, <2>2, <3>5
  <2>8. CASE Len(e) = 1 /\ e[1] # BS
    <3>1. Len(u) >= 2 /\ u[1] = e[1]
      BY <2>4, <2>5, <2>8
    <3> QED
      BY <2>1, <2>2, <2>8, <3>1
  <2>9. CASE Len(e) >= 2 /\ (e[1] = BS => e[2] \in Odd)
    <3>1. Len(u) >= 2 /\ u[1] = e[1] /\ u[2] = e[2]
      BY <2>4, <2>5, <2>9
    <3> QED
      BY <2>1, <2>2, <2>9, <3>1
  <2> QED
    BY <2>1, <2>7, <2>8, <2>9
<1>3. Good \in SUBSET Seq(Symbols)
  OBVIOUS
<1> HIDE DEF Good
<1>4. \A s \in Seq(Symbols) : s \in Good
  BY <1>1, <1>2, <1>3, AllSequences
<1>5. \A x : <<BS, x>> # <<>> /\ Len(<<BS, x>>) = 2 /\ <<BS, x>>[1] = BS /\ <<BS, x>>[2] = x
  OBVIOUS
<1>6. \A x : Fine(<<BS, x>>) => x \in Odd
  BY <1>5
<1> QED
  BY <1>4, <1>6, Distinct DEF Good

\* After any text that leaves the reader at the start of a field.
LEMMA FieldIsRead ==
  ASSUME NEW t \in Seq(Symbols), NEW rows, NEW row,
         CopyState(t) = Copying(rows, row, <<>>, <<>>)
  PROVE  \A s \in Seq(Symbols) : CopyState(t \o Escape(s)) = Copying(rows, row, Escape(s), s)
<1> DEFINE Good == {s \in Seq(Symbols) : CopyState(t \o Escape(s)) = Copying(rows, row, Escape(s), s)}
<1>1. <<>> \in Good
  <2>1. <<>> \in Seq(Symbols) /\ t \o <<>> = t
    OBVIOUS
  <2> QED
    BY <2>1, EscapeGrows
<1>2. ASSUME NEW s \in Good, NEW c \in Symbols PROVE Append(s, c) \in Good
  <2> DEFINE e == Escape(s)
             d == EscapeSymbol(c)
             u == t \o e
  <2>1. s \in Seq(Symbols) /\ Append(s, c) \in Seq(Symbols)
        /\ CopyState(u) = Copying(rows, row, e, s)
    OBVIOUS
  <2>2. e \in Seq(Symbols) /\ Escape(Append(s, c)) = e \o d /\ d \in Seq(Symbols)
    BY <2>1, EscapeGrows, SymbolEscaped
  <2>3. \/ c \notin {TAB, NL, CR, BS} /\ d = <<c>>
        \/ \E x \in {Char("t"), Char("n"), Char("r"), BS} : d = <<BS, x>> /\ Meaning(x) = c
    BY SymbolEscaped
  <2> HIDE DEF e, d, Good
  <2>4. u \in Seq(Symbols) /\ t \o (e \o d) = u \o d
    BY <2>2, ConcatAssociative
  <2> HIDE DEF u
  <2>5. ASSUME c \notin {TAB, NL, CR, BS}, d = <<c>>
        PROVE  CopyState(u \o d) = Copying(rows, row, e \o d, Append(s, c))
    <3>1. u \o d = Append(u, c) /\ e \o d = Append(e, c)
      BY <2>2, <2>4, <2>5, TwoAppends
    <3>2. CopyState(Append(u, c)) = CopyReads(Copying(rows, row, e, s), c)
      BY <2>1, <2>4, CopyReading
    <3>3. c \notin {BS, TAB, NL}
      BY <2>5
    <3>4. CopyReads(Copying(rows, row, e, s), c) = Copying(rows, row, Append(e, c), Append(s, c))
      BY <3>3, CopySteps
    <3> QED
      BY <3>1, <3>2, <3>4
  <2>6. ASSUME NEW x \in {Char("t"), Char("n"), Char("r"), BS}, d = <<BS, x>>, Meaning(x) = c
        PROVE  CopyState(u \o d) = Copying(rows, row, e \o d, Append(s, c))
    <3>1. x \in Symbols /\ BS \in Symbols
      BY Special
    <3>2. u \o d = Append(Append(u, BS), x) /\ e \o d = Append(Append(e, BS), x)
          /\ Append(u, BS) \in Seq(Symbols)
      BY <2>2, <2>4, <2>6, <3>1, TwoAppends
    <3>3. CopyState(Append(u, BS)) = CopyReads(Copying(rows, row, e, s), BS)
      BY <2>1, <2>4, <3>1, CopyReading
    <3>4. CopyState(Append(u, BS)) = CopyReader(rows, row, Append(e, BS), s, "escape")
      BY <3>3, CopySteps
    <3>5. CopyState(Append(Append(u, BS), x))
            = CopyReads(CopyReader(rows, row, Append(e, BS), s, "escape"), x)
      <4> DEFINE w == Append(u, BS)
      <4> HIDE DEF w
      <4>1. CopyState(Append(w, x)) = CopyReads(CopyState(w), x)
        BY <3>1, <3>2, CopyReading DEF w
      <4> QED
        BY <3>4, <4>1 DEF w
    <3>6. CopyReads(CopyReader(rows, row, Append(e, BS), s, "escape"), x)
            = Copying(rows, row, Append(Append(e, BS), x), Append(s, c))
      BY <2>6, CopySteps
    <3> QED
      BY <3>2, <3>5, <3>6
  <2>7. CopyState(u \o d) = Copying(rows, row, e \o d, Append(s, c))
    <3>1. CASE c \notin {TAB, NL, CR, BS} /\ d = <<c>>
      BY <2>5, <3>1
    <3>2. CASE \E x \in {Char("t"), Char("n"), Char("r"), BS} : d = <<BS, x>> /\ Meaning(x) = c
      BY <2>6, <3>2
    <3> QED
      BY <2>3, <3>1, <3>2
  <2> QED
    BY <2>1, <2>2, <2>4, <2>7 DEF Good
<1>3. Good \in SUBSET Seq(Symbols)
  OBVIOUS
<1> HIDE DEF Good
<1>4. \A s \in Seq(Symbols) : s \in Good
  BY <1>1, <1>2, <1>3, AllSequences
<1> QED
  BY <1>4 DEF Good

\* A value and its field.
Sent(v) == IF v.na THEN <<BS, Char("N")>> ELSE Escape(v.txt)
Meant(v) == IF v.na THEN <<Char("N")>> ELSE v.txt

LEMMA ValueIsRead ==
  ASSUME NEW v \in SqlValues
  PROVE  /\ Encode(v) = Sent(v) /\ Sent(v) \in Seq(Symbols)
         /\ Sent(v) # <<BS, Char("dot")>>
         /\ FieldValue(Sent(v), Meant(v)) = v
         /\ \A rows, row : \A t \in Seq(Symbols) :
              CopyState(t) = Copying(rows, row, <<>>, <<>>) =>
                CopyState(t \o Encode(v)) = Copying(rows, row, Sent(v), Meant(v))
<1>1. Encode(v) = Sent(v)
  BY DEF Encode, Sent
<1>2. CASE v = NA
  <2>1. v.na
    BY <1>2 DEF NA
  <2>2. Sent(v) = <<BS, Char("N")>> /\ Meant(v) = <<Char("N")>>
    BY <2>1 DEF Sent, Meant
  <2>3. Sent(v) \in Seq(Symbols) /\ BS \in Symbols /\ Char("N") \in Symbols
    BY <2>2, Special
  <2>4. Sent(v) # <<BS, Char("dot")>>
    <3>1. Char("N").ch = "N" /\ Char("dot").ch = "dot"
      BY DEF Char
    <3>2. Char("N") # Char("dot")
      BY <3>1
    <3> QED
      BY <2>2, <3>2
  <2>5. FieldValue(Sent(v), Meant(v)) = v
    BY <1>2, <2>2 DEF FieldValue
  <2>6. ASSUME NEW t \in Seq(Symbols), NEW rows, NEW row,
               CopyState(t) = Copying(rows, row, <<>>, <<>>)
        PROVE  CopyState(t \o <<BS, Char("N")>>)
                 = Copying(rows, row, <<BS, Char("N")>>, <<Char("N")>>)
    <3> DEFINE w == Append(t, BS)
    <3>1. w \in Seq(Symbols) /\ t \o <<BS, Char("N")>> = Append(w, Char("N"))
      BY <2>3, TwoAppends
    <3>2. CopyState(w) = CopyReads(Copying(rows, row, <<>>, <<>>), BS)
      BY <2>3, <2>6, CopyReading
    <3> HIDE DEF w
    <3>3. CopyState(Append(w, Char("N"))) = CopyReads(CopyState(w), Char("N"))
      BY <2>3, <3>1, CopyReading
    <3>4. Append(<<>>, BS) = <<BS>> /\ Append(<<>>, Char("N")) = <<Char("N")>>
          /\ Append(<<BS>>, Char("N")) = <<BS, Char("N")>>
      BY Hold, L!TwoElements
    <3>5. CopyState(w) = CopyReader(rows, row, <<BS>>, <<>>, "escape")
      <4> DEFINE e == <<>>
      <4> HIDE DEF e
      <4>1. CopyReads(Copying(rows, row, e, e), BS) = CopyReader(rows, row, Append(e, BS), e, "escape")
        BY CopySteps
      <4> QED
        BY <3>2, <3>4, <4>1 DEF e
    <3>6. Meaning(Char("N")) = Char("N")
      BY Distinct DEF Meaning
    <3>7. CopyReads(CopyReader(rows, row, <<BS>>, <<>>, "escape"), Char("N"))
            = Copying(rows, row, Append(<<BS>>, Char("N")), Append(<<>>, Meaning(Char("N"))))
      <4> DEFINE b == <<BS>>
                 e == <<>>
      <4> HIDE DEF b, e
      <4>1. CopyReads(CopyReader(rows, row, b, e, "escape"), Char("N"))
              = Copying(rows, row, Append(b, Char("N")), Append(e, Meaning(Char("N"))))
        BY CopySteps
      <4> QED
        BY <4>1 DEF b, e
    <3> QED
      BY <3>1, <3>3, <3>4, <3>5, <3>6, <3>7
  <2> QED
    BY <1>1, <2>2, <2>3, <2>4, <2>5, <2>6
<1>3. CASE v # NA
  <2>1. PICK s \in Seq(Symbols) : v = Text(s)
    BY <1>3 DEF SqlValues
  <2>2. v.na = FALSE /\ v.txt = s
    BY <2>1 DEF Text
  <2>3. Sent(v) = Escape(s) /\ Meant(v) = s
    BY <2>2 DEF Sent, Meant
  <2>4. Sent(v) \in Seq(Symbols) /\ Sent(v) # <<BS, Char("N")>> /\ Sent(v) # <<BS, Char("dot")>>
    BY <2>3, EscapeGrows, NoMarker
  <2>5. FieldValue(Sent(v), Meant(v)) = v
    BY <2>1, <2>3, <2>4 DEF FieldValue
  <2> QED
    BY <1>1, <2>3, <2>4, <2>5, FieldIsRead
<1> QED
  BY <1>2, <1>3

\* The fields of a row, and the line.
Piece(j, v) == (IF j = 1 THEN <<>> ELSE <<TAB>>) \o Encode(v)
RowPieces(row) == [j \in DOMAIN row |-> Piece(j, row[j])]
RowText(row) == FlattenSeq(RowPieces(row))

LEMMA RowGrows ==
  /\ RowText(<<>>) = <<>>
  /\ \A row \in Seq(SqlValues) : RowText(row) \in Seq(Symbols)
  /\ \A row \in Seq(SqlValues), v \in SqlValues :
       RowText(Append(row, v)) = RowText(row) \o Piece(Len(row) + 1, v)
  /\ \A j \in Nat, v \in SqlValues : Piece(j, v) \in Seq(Symbols)
<1>1. ASSUME NEW j \in Nat, NEW v \in SqlValues PROVE Piece(j, v) \in Seq(Symbols)
  <2>1. Encode(v) \in Seq(Symbols)
    BY ValueIsRead
  <2>2. <<>> \in Seq(Symbols) /\ <<TAB>> \in Seq(Symbols)
    BY Special
  <2> QED
    BY <2>1, <2>2 DEF Piece
<1>2. RowPieces(<<>>) = <<>>
  BY DEF RowPieces
<1>3. ASSUME NEW row \in Seq(SqlValues)
      PROVE  /\ RowPieces(row) \in Seq(Seq(Symbols)) /\ Len(RowPieces(row)) = Len(row)
             /\ \A k \in 1..Len(row) : RowPieces(row)[k] = Piece(k, row[k])
  <2> DEFINE n == Len(row)
             w == RowPieces(row)
  <2>1. DOMAIN row = 1..n /\ n \in Nat /\ \A k \in 1..n : k \in Nat /\ row[k] \in SqlValues
    OBVIOUS
  <2>2. w = [k \in 1..n |-> Piece(k, row[k])]
    BY <2>1 DEF RowPieces
  <2>3. \A k \in 1..n : Piece(k, row[k]) \in Seq(Symbols)
    BY <1>1, <2>1
  <2> HIDE DEF n, w
  <2>4. w \in [1..n -> Seq(Symbols)]
    BY <2>2, <2>3
  <2>5. w \in Seq(Seq(Symbols)) /\ Len(w) = n
    BY <2>1, <2>4
  <2> QED
    BY <2>2, <2>5 DEF n, w
<1>4. ASSUME NEW row \in Seq(SqlValues), NEW v \in SqlValues
      PROVE  RowPieces(Append(row, v)) = Append(RowPieces(row), Piece(Len(row) + 1, v))
  <2> DEFINE n == Len(row)
             more == Append(row, v)
             x == Piece(n + 1, v)
             w == Append(RowPieces(row), x)
  <2>1. /\ n \in Nat /\ more \in Seq(SqlValues) /\ Len(more) = n + 1
        /\ more[n + 1] = v /\ \A k \in 1..n : more[k] = row[k]
    BY AppendProperties
  <2>2. x \in Seq(Symbols)
    <3>1. n + 1 \in Nat
      BY <2>1
    <3> HIDE DEF n
    <3> QED
      BY <1>1, <3>1
  <2>3. /\ RowPieces(row) \in Seq(Seq(Symbols)) /\ Len(RowPieces(row)) = n
        /\ \A k \in 1..n : RowPieces(row)[k] = Piece(k, row[k])
    BY <1>3
  <2>4. /\ RowPieces(more) \in Seq(Seq(Symbols)) /\ Len(RowPieces(more)) = n + 1
        /\ \A k \in 1..(n + 1) : RowPieces(more)[k] = Piece(k, more[k])
    <3> HIDE DEF more, n
    <3> QED
      BY <1>3, <2>1
  <2> HIDE DEF more, x
  <2>5. /\ w \in Seq(Seq(Symbols)) /\ Len(w) = n + 1 /\ w[n + 1] = x
        /\ \A k \in 1..n : w[k] = RowPieces(row)[k]
    <3> HIDE DEF n
    <3> QED
      BY <2>1, <2>2, <2>3, AppendProperties
  <2> HIDE DEF n, w
  <2>6. ASSUME NEW k \in 1..(n + 1) PROVE RowPieces(more)[k] = w[k]
    <3>1. CASE k = n + 1
      BY <2>1, <2>4, <2>5, <3>1 DEF x
    <3>2. CASE k # n + 1
      <4>1. k \in 1..n
        BY <2>1, <3>2
      <4> QED
        BY <2>1, <2>3, <2>4, <2>5, <4>1
    <3> QED
      BY <3>1, <3>2
  <2>7. RowPieces(more) = w
    BY <2>4, <2>5, <2>6, SeqEqual
  <2> QED
    BY <2>7 DEF more, w, x, n
<1>5. ASSUME NEW row \in Seq(SqlValues), NEW v \in SqlValues
      PROVE  /\ RowText(row) \in Seq(Symbols)
             /\ RowText(Append(row, v)) = RowText(row) \o Piece(Len(row) + 1, v)
  <2>1. RowPieces(row) \in Seq(Seq(Symbols)) /\ Piece(Len(row) + 1, v) \in Seq(Symbols)
    <3>1. Len(row) + 1 \in Nat
      OBVIOUS
    <3>2. Piece(Len(row) + 1, v) \in Seq(Symbols)
      BY <1>1, <3>1
    <3> QED
      BY <1>3, <3>2
  <2> QED
    BY <1>4, <2>1, Flattened DEF RowText
<1>6. <<>> \in Seq(SqlValues) /\ NA \in SqlValues
  BY DEF SqlValues
<1>7. RowText(<<>>) = <<>>
  BY <1>2, Flattened DEF RowText
<1> QED
  BY <1>1, <1>5, <1>6, <1>7

LEMMA SymbolBetween ==
  ASSUME NEW t \in Seq(Symbols), NEW c \in Symbols, NEW i \in Seq(Symbols)
  PROVE  t \o (<<c>> \o i) = Append(t, c) \o i
<1> DEFINE d == <<c>>
<1>1. d \in Seq(Symbols) /\ Append(t, c) = t \o d
  BY AppendIsConcat
<1> HIDE DEF d
<1>2. (t \o d) \o i = t \o (d \o i)
  BY <1>1, ConcatAssociative
<1> QED
  BY <1>1, <1>2 DEF d

\* A row up to its last field.
LEMMA FieldsAreRead ==
  ASSUME NEW t \in Seq(Symbols), NEW rows, CopyState(t) = Copying(rows, <<>>, <<>>, <<>>)
  PROVE  \A row \in Seq(SqlValues), v \in SqlValues :
           CopyState(t \o RowText(Append(row, v))) = Copying(rows, row, Sent(v), Meant(v))
<1> DEFINE Read(row, v) ==
             CopyState(t \o RowText(Append(row, v))) = Copying(rows, row, Sent(v), Meant(v))
           Good == {row \in Seq(SqlValues) : \A v \in SqlValues : Read(row, v)}
<1>1. <<>> \in Good
  <2>1. <<>> \in Seq(SqlValues) /\ Len(<<>>) + 1 = 1
    OBVIOUS
  <2>2. ASSUME NEW v \in SqlValues PROVE Read(<<>>, v)
    <3>1. RowText(Append(<<>>, v)) = <<>> \o Piece(1, v)
      BY <2>1, RowGrows
    <3>2. Encode(v) \in Seq(Symbols)
      BY ValueIsRead
    <3>3. <<>> \o Piece(1, v) = Encode(v)
      BY <3>2 DEF Piece
    <3> QED
      BY <3>1, <3>3, ValueIsRead
  <2> QED
    BY <2>1, <2>2
<1>2. ASSUME NEW row \in Good, NEW u \in SqlValues PROVE Append(row, u) \in Good
  <2> DEFINE more == Append(row, u)
             s == t \o RowText(more)
  <2>1. row \in Seq(SqlValues) /\ Read(row, u)
    OBVIOUS
  <2>2. more \in Seq(SqlValues) /\ Len(more) + 1 \in Nat /\ Len(more) + 1 # 1
    <3>1. more \in Seq(SqlValues) /\ Len(more) = Len(row) + 1 /\ Len(row) \in Nat
      BY <2>1, AppendProperties
    <3> HIDE DEF more
    <3> QED
      BY <3>1
  <2> HIDE DEF more
  <2>3. RowText(more) \in Seq(Symbols)
    BY <2>2, RowGrows
  <2>4. s \in Seq(Symbols)
    BY <2>3
  <2>5. CopyState(s) = Copying(rows, row, Sent(u), Meant(u))
    BY <2>1 DEF more
  <2>6. TAB \in Symbols /\ <<TAB>> \in Seq(Symbols)
    BY Special
  <2>7. CopyState(Append(s, TAB)) = Copying(rows, more, <<>>, <<>>)
    <3> HIDE DEF s
    <3>1. CopyState(Append(s, TAB)) = CopyReads(Copying(rows, row, Sent(u), Meant(u)), TAB)
      BY <2>4, <2>5, <2>6, CopyReading
    <3>2. CopyReads(Copying(rows, row, Sent(u), Meant(u)), TAB)
            = Copying(rows, Append(row, FieldValue(Sent(u), Meant(u))), <<>>, <<>>)
      BY CopySteps
    <3>3. FieldValue(Sent(u), Meant(u)) = u
      BY ValueIsRead
    <3> QED
      BY <3>1, <3>2, <3>3 DEF more
  <2>8. ASSUME NEW v \in SqlValues PROVE Read(more, v)
    <3> DEFINE e == Encode(v)
               a == Append(s, TAB)
    <3>1. e \in Seq(Symbols)
      BY ValueIsRead
    <3>2. RowText(Append(more, v)) = RowText(more) \o Piece(Len(more) + 1, v)
      BY <2>2, RowGrows
    <3>3. Piece(Len(more) + 1, v) = <<TAB>> \o e
      BY <2>2 DEF Piece
    <3> HIDE DEF e
    <3>4. t \o RowText(Append(more, v)) = s \o (<<TAB>> \o e)
      <4>1. <<TAB>> \o e \in Seq(Symbols)
        BY <2>6, <3>1
      <4> DEFINE r == RowText(more)
                 p == <<TAB>> \o e
      <4>2. r \in Seq(Symbols) /\ p \in Seq(Symbols)
        BY <2>3, <4>1
      <4>3. RowText(Append(more, v)) = r \o p
        BY <3>2, <3>3
      <4> HIDE DEF r, p
      <4>4. t \o (r \o p) = (t \o r) \o p
        BY <4>2, ConcatAssociative
      <4> QED
        BY <4>3, <4>4 DEF r, p
    <3>5. s \o (<<TAB>> \o e) = a \o e
      <4> HIDE DEF s
      <4> QED
        BY <2>4, <2>6, <3>1, SymbolBetween
    <3>6. a \in Seq(Symbols) /\ CopyState(a) = Copying(rows, more, <<>>, <<>>)
      <4> HIDE DEF s
      <4> QED
        BY <2>4, <2>6, <2>7
    <3> HIDE DEF s, a
    <3>7. CopyState(a \o e) = Copying(rows, more, Sent(v), Meant(v))
      BY <3>6, ValueIsRead DEF e
    <3> QED
      BY <3>4, <3>5, <3>7
  <2> HIDE DEF Read
  <2> QED
    BY <2>2, <2>8 DEF more
<1>3. Good \in SUBSET Seq(SqlValues)
  OBVIOUS
<1> HIDE DEF Good
<1>4. \A row \in Seq(SqlValues) : row \in Good
  BY <1>1, <1>2, <1>3, AllSequences
<1> QED
  BY <1>4 DEF Good

\* A line adds its row.
LEMMA RowIsRead ==
  ASSUME NEW t \in Seq(Symbols), NEW rows, CopyState(t) = Copying(rows, <<>>, <<>>, <<>>),
         NEW row \in Seq(SqlValues), row # <<>>
  PROVE  /\ t \o EncodeRow(row) \in Seq(Symbols)
         /\ CopyState(t \o EncodeRow(row)) = Copying(Append(rows, row), <<>>, <<>>, <<>>)
<1>1. PICK front \in Seq(SqlValues), v \in SqlValues : row = Append(front, v)
  BY SequenceEmptyOrAppend
<1> DEFINE r == RowText(row)
           s == t \o r
<1>2. r \in Seq(Symbols) /\ NL \in Symbols /\ <<NL>> \in Seq(Symbols)
  BY RowGrows, Special
<1>3. EncodeRow(row) = r \o <<NL>>
  BY DEF EncodeRow, RowText, RowPieces, Piece
<1>4. CopyState(s) = Copying(rows, front, Sent(v), Meant(v))
  BY <1>1, FieldsAreRead
<1> HIDE DEF r
<1>5. s \in Seq(Symbols) /\ t \o (r \o <<NL>>) = Append(s, NL)
  <2>1. s \in Seq(Symbols)
    BY <1>2
  <2>2. t \o (r \o <<NL>>) = s \o <<NL>>
    BY <1>2, ConcatAssociative
  <2> HIDE DEF s
  <2>3. s \o <<NL>> = Append(s, NL)
    BY <1>2, <2>1, TwoAppends
  <2> QED
    BY <2>1, <2>2, <2>3
<1> HIDE DEF s
<1>6. CopyState(Append(s, NL)) = CopyReads(Copying(rows, front, Sent(v), Meant(v)), NL)
  BY <1>2, <1>4, <1>5, CopyReading
<1>7. Sent(v) # <<BS, Char("dot")>> /\ FieldValue(Sent(v), Meant(v)) = v
  BY ValueIsRead
<1>8. CopyReads(Copying(rows, front, Sent(v), Meant(v)), NL)
        = Copying(Append(rows, Append(front, v)), <<>>, <<>>, <<>>)
  BY <1>7, CopySteps
<1>9. Append(s, NL) \in Seq(Symbols)
  BY <1>2, <1>5
<1> QED
  BY <1>1, <1>3, <1>5, <1>6, <1>8, <1>9

-----------------------------------------------------------------------------
(* The calendar.  Its numbers are for SMT alone.                           *)

\* The leap years up to the year a.
Leaps(a) == a \div 4 - a \div 100 + a \div 400
ManyYears == 0..10000
ManyLeaps == 0..2425
FourDigits == 1..9999

LEMMA DaysCounted ==
  ASSUME NEW y \in Int
  PROVE  DaysBefore(y) \in Int /\ DaysBefore(y) = 365 * (y - 1) + Leaps(y - 1) - 719162
BY SMT DEF DaysBefore, Leaps

LEMMA LeapCounted ==
  ASSUME NEW y \in Int
  PROVE  /\ Leaps(y) \in Int
         /\ Leaps(y) = Leaps(y - 1) + (IF Leap(y) THEN 1 ELSE 0)
         /\ y \in ManyYears => Leaps(y) \in ManyLeaps
<1>1. /\ y % 400 = 0 => y % 100 = 0
      /\ y % 100 = 0 => y % 4 = 0
  BY SMT
<1>2. /\ (y - 1) \div 4 = y \div 4 - (IF y % 4 = 0 THEN 1 ELSE 0)
      /\ (y - 1) \div 100 = y \div 100 - (IF y % 100 = 0 THEN 1 ELSE 0)
      /\ (y - 1) \div 400 = y \div 400 - (IF y % 400 = 0 THEN 1 ELSE 0)
  BY SMT
<1>3. Leaps(y) = Leaps(y - 1) + (IF Leap(y) THEN 1 ELSE 0)
  BY <1>1, <1>2, SMT DEF Leaps, Leap
<1>4. Leaps(y) \in Int /\ (y \in ManyYears => Leaps(y) \in ManyLeaps)
  BY SMT DEF Leaps, ManyYears, ManyLeaps
<1> QED
  BY <1>3, <1>4

LEMMA YearLength ==
  ASSUME NEW y \in Int
  PROVE  DaysBefore(y + 1) = DaysBefore(y) + 365 + (IF Leap(y) THEN 1 ELSE 0)
<1>1. (y + 1) - 1 = y /\ y - 1 \in Int /\ y + 1 \in Int
  BY SMT
<1>2. Leaps(y) \in Int /\ Leaps(y - 1) \in Int /\ Leaps(y) = Leaps(y - 1) + (IF Leap(y) THEN 1 ELSE 0)
  BY <1>1, LeapCounted, SMT
<1>3. DaysBefore(y + 1) = 365 * y + Leaps(y) - 719162
  BY <1>1, DaysCounted, SMT
<1>4. DaysBefore(y) = 365 * (y - 1) + Leaps(y - 1) - 719162
  BY DaysCounted, SMT
<1>5. 365 * (y - 1) + 365 = 365 * y
  BY SMT
<1> QED
  BY <1>2, <1>3, <1>4, <1>5, SMT

LEMMA YearOrder ==
  ASSUME NEW y \in Int, NEW z \in Int, y < z
  PROVE  DaysBefore(y + 1) <= DaysBefore(z)
BY SMT DEF DaysBefore

\* The year of a day is within seven years of the estimate.
LEMMA YearExists ==
  ASSUME NEW n \in Days
  PROVE  LET near == (n + 719162) \div 365 + 1 IN
         \E z \in (near - 7)..near : DaysBefore(z) <= n /\ n < DaysBefore(z + 1)
<1> DEFINE near == (n + 719162) \div 365 + 1
           Later == {z \in ManyYears : z # 0 /\ n < DaysBefore(z)}
<1>1. n \in Int /\ DaysBefore(1) <= n /\ n < DaysBefore(10000)
  <2>1. DaysBefore(1) \in Int /\ DaysBefore(10000) \in Int
    BY DaysCounted, SMT
  <2> QED
    BY <2>1, SMT DEF Days
<1>0. \A z : z \in Later <=> z \in ManyYears /\ z # 0 /\ n < DaysBefore(z)
  OBVIOUS
<1> HIDE DEF Later
<1>2. Later # {} /\ Later \subseteq Nat
  <2>1. \E last : last \in ManyYears /\ last # 0 /\ n < DaysBefore(last)
    <3>1. 10000 \in ManyYears /\ 10000 # 0
      BY SMT DEF ManyYears
    <3> QED
      BY <1>1, <3>1, SMT
  <2>2. Later # {}
    BY <1>0, <2>1
  <2>3. \A z \in Later : z \in Nat
    <3>1. \A z \in ManyYears : z \in Nat
      BY SMT DEF ManyYears
    <3> QED
      BY <1>0, <3>1
  <2> QED
    BY <2>2, <2>3
<1>3. PICK z \in Later : \A x \in Later : <<x, z>> \notin OpToRel(<, Nat)
  BY <1>2, NatLessThanWellFounded, WFMin
<1>4. z \in 1..10000 /\ n < DaysBefore(z) /\ z # 1
  <2>1. z \in ManyYears /\ z # 0 /\ n < DaysBefore(z)
    BY <1>0, <1>3
  <2>2. DaysBefore(1) \in Int
    BY DaysCounted, SMT
  <2> QED
    BY <1>1, <2>1, <2>2, SMT DEF ManyYears
<1> DEFINE y == z - 1
<1>5. y \in 1..9999 /\ y + 1 = z /\ y \in ManyYears /\ y # 0
  BY <1>4, SMT DEF ManyYears
<1>6. y \notin Later
  <2>1. <<y, z>> \in OpToRel(<, Nat)
    BY <1>4, <1>5, SMT DEF OpToRel
  <2> QED
    BY <1>3, <2>1
<1> HIDE DEF y
<1>7. DaysBefore(y) <= n /\ n < DaysBefore(y + 1)
  <2>1. DaysBefore(y) \in Int
    BY <1>5, DaysCounted, SMT
  <2>2. ~(n < DaysBefore(y))
    <3>1. y \in ManyYears /\ y # 0
      BY <1>5
    <3> QED
      BY <1>0, <1>6, <3>1
  <2> QED
    BY <1>1, <1>4, <1>5, <2>1, <2>2, SMT
<1>8. y \in (near - 7)..near
  <2> DEFINE l == Leaps(y - 1)
  <2>1. l \in ManyLeaps
    <3> DEFINE x == y - 1
    <3>1. x \in ManyYears /\ x \in Int
      BY <1>5, SMT DEF ManyYears
    <3> HIDE DEF x
    <3>2. Leaps(x) \in ManyLeaps
      BY <3>1, LeapCounted
    <3> QED
      BY <3>2 DEF x
  <2>2. DaysBefore(y) = 365 * (y - 1) + l - 719162
    BY <1>5, DaysCounted, SMT
  <2>3. DaysBefore(y + 1) <= DaysBefore(y) + 366
    <3>1. DaysBefore(y) \in Int
      BY <1>5, DaysCounted, SMT
    <3> QED
      BY <1>5, <3>1, YearLength, SMT
  <2>4. DaysBefore(y + 1) \in Int
    BY <1>5, DaysCounted, SMT
  <2> HIDE DEF l
  <2>5. DaysBefore(y) \in Int
    BY <1>5, DaysCounted, SMT
  <2> QED
    <3> DEFINE m == n + 719162
               before == DaysBefore(y)
               after == DaysBefore(y + 1)
    <3>1. m \in Int /\ l \in Int /\ 0 <= l /\ l <= 2425 /\ y \in Int
      BY <1>1, <1>5, <2>1, SMT DEF ManyLeaps
    <3> HIDE DEF before, after
    <3>2. 365 * (y - 1) + l <= m /\ m < 365 * (y - 1) + l + 366
      BY <1>1, <1>5, <1>7, <2>2, <2>3, <2>4, <2>5, <3>1, SMT DEF before, after
    <3> HIDE DEF m
    <3>3. m \div 365 \in Int /\ 365 * (m \div 365) <= m /\ m < 365 * (m \div 365) + 365
      BY <3>1, SMT
    <3>4. y - 1 <= m \div 365 /\ m \div 365 <= y + 6
      BY <3>1, <3>2, <3>3, SMT
    <3> QED
      BY <3>1, <3>3, <3>4, SMT DEF m
<1> QED
  BY <1>7, <1>8

Mid(y) == IF Leap(y) THEN 1 ELSE 0

LEMMA Months ==
  ASSUME NEW y
  PROVE  /\ MonthStart(y, 1) = 0 /\ MonthStart(y, 2) = 31
         /\ MonthStart(y, 3) = 59 + Mid(y) /\ MonthStart(y, 4) = 90 + Mid(y)
         /\ MonthStart(y, 5) = 120 + Mid(y) /\ MonthStart(y, 6) = 151 + Mid(y)
         /\ MonthStart(y, 7) = 181 + Mid(y) /\ MonthStart(y, 8) = 212 + Mid(y)
         /\ MonthStart(y, 9) = 243 + Mid(y) /\ MonthStart(y, 10) = 273 + Mid(y)
         /\ MonthStart(y, 11) = 304 + Mid(y) /\ MonthStart(y, 12) = 334 + Mid(y)
         /\ MonthStart(y, 13) = 365 + Mid(y)
<1> DEFINE s == <<0, 31, 59, 90, 120, 151, 181, 212, 243, 273, 304, 334, 365>>
<1>1. /\ s[1] = 0 /\ s[2] = 31 /\ s[3] = 59 /\ s[4] = 90 /\ s[5] = 120 /\ s[6] = 151 /\ s[7] = 181
      /\ s[8] = 212 /\ s[9] = 243 /\ s[10] = 273 /\ s[11] = 304 /\ s[12] = 334 /\ s[13] = 365
  BY SMT
<1>2. \A m : MonthStart(y, m) = s[m] + IF m > 2 /\ Leap(y) THEN 1 ELSE 0
  BY DEF MonthStart
<1> HIDE DEF s
<1> QED
  BY <1>1, <1>2, SMT DEF Mid

LEMMA MonthExists ==
  ASSUME NEW y, NEW day \in 0..(364 + Mid(y))
  PROVE  \E k \in 1..12 : MonthStart(y, k) <= day /\ day < MonthStart(y, k + 1)
<1>1. Mid(y) \in {0, 1}
  BY SMT DEF Mid
<1>2. /\ 1 + 1 = 2 /\ 2 + 1 = 3 /\ 3 + 1 = 4 /\ 4 + 1 = 5 /\ 5 + 1 = 6 /\ 6 + 1 = 7 /\ 7 + 1 = 8
      /\ 8 + 1 = 9 /\ 9 + 1 = 10 /\ 10 + 1 = 11 /\ 11 + 1 = 12 /\ 12 + 1 = 13
  BY SMT
<1> SUFFICES ASSUME \A k \in 1..12 : ~(MonthStart(y, k) <= day /\ day < MonthStart(y, k + 1))
             PROVE  FALSE
  OBVIOUS
<1>3. /\ day < MonthStart(y, 13) /\ MonthStart(y, 1) <= day
      /\ \A k \in 1..12 : MonthStart(y, k) <= day => MonthStart(y, k + 1) <= day
  <2>1. \A k \in 1..12 : MonthStart(y, k) \in Int /\ MonthStart(y, k + 1) \in Int
    BY <1>1, <1>2, Months, SMT
  <2> QED
    BY <1>1, <2>1, Months, SMT
<1>4. /\ MonthStart(y, 2) <= day /\ MonthStart(y, 3) <= day /\ MonthStart(y, 4) <= day
      /\ MonthStart(y, 5) <= day
  BY <1>2, <1>3, SMT
<1>5. /\ MonthStart(y, 6) <= day /\ MonthStart(y, 7) <= day /\ MonthStart(y, 8) <= day
      /\ MonthStart(y, 9) <= day
  BY <1>2, <1>3, <1>4, SMT
<1>6. /\ MonthStart(y, 10) <= day /\ MonthStart(y, 11) <= day /\ MonthStart(y, 12) <= day
      /\ MonthStart(y, 13) <= day
  BY <1>2, <1>3, <1>5, SMT
<1>7. MonthStart(y, 13) \in Int
  BY <1>1, Months, SMT
<1> QED
  BY <1>3, <1>6, <1>7, SMT

\* Counted from 1970, a date is the day that it was made of.
LEMMA DateIsDay ==
  ASSUME NEW n \in Days
  PROVE  \E y \in FourDigits, m \in 1..12, d \in 1..31 :
           /\ Date(n) = <<y, m, d>>
           /\ DaysBefore(y) + MonthStart(y, m) + d - 1 = n
<1> DEFINE near == (n + 719162) \div 365 + 1
           In(z) == DaysBefore(z) <= n /\ n < DaysBefore(z + 1)
           y == CHOOSE z \in (near - 7)..near : In(z)
           day == n - DaysBefore(y)
           Of(k) == MonthStart(y, k) <= day /\ day < MonthStart(y, k + 1)
           m == CHOOSE k \in 1..12 : Of(k)
           d == day - MonthStart(y, m) + 1
<1>1. n \in Int /\ DaysBefore(1) <= n /\ n < DaysBefore(10000)
  <2>1. DaysBefore(1) \in Int /\ DaysBefore(10000) \in Int
    BY DaysCounted, SMT
  <2> QED
    BY <2>1, SMT DEF Days
<1>2. near \in Int
  BY <1>1, SMT
<1>3. y \in (near - 7)..near /\ In(y)
  <2>1. \E z \in (near - 7)..near : In(z)
    BY YearExists, SMT
  <2> HIDE DEF near, In
  <2> QED
    BY <2>1
<1>4. Date(n) = <<y, m, d>>
  BY DEF Date
<1>5. y \in Int
  BY <1>2, <1>3, SMT
<1> HIDE DEF y, m
<1>6. DaysBefore(y) \in Int /\ DaysBefore(y + 1) \in Int /\ DaysBefore(1) \in Int /\ DaysBefore(10000) \in Int
  BY <1>5, DaysCounted, SMT
<1>7. y \in 1..9999
  <2>1. ~(10000 <= y)
    <3> SUFFICES ASSUME 10000 <= y PROVE FALSE
      OBVIOUS
    <3>1. DaysBefore(10000) <= DaysBefore(y)
      <4>1. CASE y = 10000
        BY <1>6, <4>1, SMT
      <4>2. CASE y # 10000
        <5>1. DaysBefore(10001) <= DaysBefore(y)
          BY <1>5, <4>2, YearOrder, SMT
        <5>2. DaysBefore(10000) <= DaysBefore(10001)
          BY SMT DEF DaysBefore
        <5>3. DaysBefore(10001) \in Int
          BY DaysCounted, SMT
        <5> QED
          BY <1>6, <5>1, <5>2, <5>3, SMT
      <4> QED
        BY <4>1, <4>2
    <3> QED
      BY <1>1, <1>3, <1>6, <3>1, SMT
  <2>2. ~(y < 1)
    <3> SUFFICES ASSUME y < 1 PROVE FALSE
      OBVIOUS
    <3>1. DaysBefore(y + 1) <= DaysBefore(1)
      BY <1>5, YearOrder, SMT
    <3> QED
      BY <1>1, <1>3, <1>6, <3>1, SMT
  <2> QED
    BY <1>5, <2>1, <2>2, SMT
<1>8. day \in 0..(364 + Mid(y)) /\ Mid(y) \in {0, 1}
  <2>1. DaysBefore(y + 1) = DaysBefore(y) + 365 + Mid(y)
    BY <1>5, YearLength, SMT DEF Mid
  <2>2. Mid(y) \in {0, 1}
    BY SMT DEF Mid
  <2> QED
    BY <1>1, <1>3, <1>6, <2>1, <2>2, SMT
<1> HIDE DEF day
<1>9. m \in 1..12 /\ Of(m)
  <2>1. \E k \in 1..12 : Of(k)
    BY <1>8, MonthExists, SMT
  <2> HIDE DEF Of
  <2> QED
    BY <2>1 DEF m
<1>10. MonthStart(y, m) \in Int /\ MonthStart(y, m + 1) \in Int /\ MonthStart(y, m + 1) <= MonthStart(y, m) + 31
  <2>1. /\ 1 + 1 = 2 /\ 2 + 1 = 3 /\ 3 + 1 = 4 /\ 4 + 1 = 5 /\ 5 + 1 = 6 /\ 6 + 1 = 7 /\ 7 + 1 = 8
        /\ 8 + 1 = 9 /\ 9 + 1 = 10 /\ 10 + 1 = 11 /\ 11 + 1 = 12 /\ 12 + 1 = 13
    BY SMT
  <2> QED
    BY <1>8, <1>9, <2>1, Months, SMT
<1>11. d \in 1..31 /\ MonthStart(y, m) + d - 1 = day
  BY <1>8, <1>9, <1>10, SMT
<1>12. DaysBefore(y) + MonthStart(y, m) + d - 1 = n
  BY <1>1, <1>6, <1>10, <1>11, SMT DEF day
<1> HIDE DEF d
<1>13. y \in FourDigits
  BY <1>7 DEF FourDigits
<1> QED
  BY <1>4, <1>9, <1>11, <1>12, <1>13, Zenon

\* The C code counts the days of a year from March.
LEMMA CivilIsDay ==
  ASSUME NEW y \in FourDigits, NEW m \in 1..12, NEW d \in 1..31
  PROVE  DaysFromCivil(y, m, d) = DaysBefore(y) + MonthStart(y, m) + d - 1
<1>0. y \in Int /\ 1 <= y /\ y <= 9999
  BY SMT DEF FourDigits
<1> DEFINE x == IF m <= 2 THEN y - 1 ELSE y
           e == x \div 400
           r == x - e * 400
           doy == (153 * (m + (IF m > 2 THEN -3 ELSE 9)) + 2) \div 5 + d - 1
<1>1. x \in Int /\ 0 <= x
  BY <1>0, SMT
<1>2. e \in Int /\ r \in Int /\ 0 <= r /\ x = 400 * e + r
  BY <1>1, SMT
<1>3. 153 * (m + (IF m > 2 THEN -3 ELSE 9)) + 2 \in Int /\ 0 <= 153 * (m + (IF m > 2 THEN -3 ELSE 9)) + 2
  BY SMT
<1>4. \A a \in Int : \A b : 0 <= a => CDiv(a, b) = a \div b
  BY SMT DEF CDiv
<1>5. DaysFromCivil(y, m, d) = e * 146097 + (r * 365 + r \div 4 - r \div 100 + doy) - 719468
  <2>1. CDiv(IF x >= 0 THEN x ELSE x - 399, 400) = e
    BY <1>1, <1>4, SMT
  <2>2. CDiv(r, 4) = r \div 4 /\ CDiv(r, 100) = r \div 100
    BY <1>2, <1>4
  <2>3. CDiv(153 * (m + (IF m > 2 THEN -3 ELSE 9)) + 2, 5)
          = (153 * (m + (IF m > 2 THEN -3 ELSE 9)) + 2) \div 5
    BY <1>3, <1>4
  <2> HIDE DEF e
  <2> QED
    BY <2>1, <2>2, <2>3, SMT DEF DaysFromCivil
<1>6. e * 146097 + (r * 365 + r \div 4 - r \div 100) = 365 * x + Leaps(x)
  <2>1. x \div 4 = 100 * e + r \div 4 /\ x \div 100 = 4 * e + r \div 100
    <3> HIDE DEF x, e, r
    <3>1. r \div 4 \in Int /\ 4 * (r \div 4) <= r /\ r < 4 * (r \div 4) + 4
      BY <1>2, SMT
    <3>2. r \div 100 \in Int /\ 100 * (r \div 100) <= r /\ r < 100 * (r \div 100) + 100
      BY <1>2, SMT
    <3>3. x \div 4 = 100 * e + r \div 4
      BY <1>2, <3>1, SMT
    <3>4. x \div 100 = 4 * e + r \div 100
      BY <1>2, <3>2, SMT
    <3> QED
      BY <3>3, <3>4
  <2>2. Leaps(x) = x \div 4 - x \div 100 + e
    BY SMT DEF Leaps
  <2>3. r \div 4 \in Int /\ r \div 100 \in Int
    BY <1>2, SMT
  <2> HIDE DEF x, e, r
  <2> QED
    BY <1>1, <1>2, <2>1, <2>2, <2>3, SMT
<1>7. 365 * x + Leaps(x) + doy - 719468 = DaysBefore(y) + MonthStart(y, m) + d - 1
  <2>1. /\ Leaps(x) \in Int /\ Leaps(y - 1) \in Int /\ Leaps(y) \in Int
        /\ Leaps(y) = Leaps(y - 1) + Mid(y) /\ Mid(y) \in {0, 1}
        /\ DaysBefore(y) = 365 * (y - 1) + Leaps(y - 1) - 719162
    <3>1. Leaps(y - 1) \in Int /\ y - 1 \in Int
      BY <1>0, SMT DEF Leaps
    <3>2. Leaps(x) \in Int
      BY <1>1, LeapCounted
    <3>3. Leaps(y) \in Int /\ Leaps(y) = Leaps(y - 1) + Mid(y)
      BY <1>0, LeapCounted, SMT DEF Mid
    <3>4. Mid(y) \in {0, 1}
      BY SMT DEF Mid
    <3>5. DaysBefore(y) = 365 * (y - 1) + Leaps(y - 1) - 719162
      BY <1>0, DaysCounted, SMT
    <3> QED
      BY <3>1, <3>2, <3>3, <3>4, <3>5, SMT
  <2>2. m > 2 => doy = MonthStart(y, m) - Mid(y) - 59 + d - 1
    BY <2>1, Months, SMT
  <2>3. m <= 2 => doy = MonthStart(y, m) + 306 + d - 1
    BY <2>1, Months, SMT
  <2>4. MonthStart(y, m) \in Int
    BY <2>1, Months, SMT
  <2> HIDE DEF doy
  <2>5. CASE m > 2
    <3>1. x = y
      BY <2>5, SMT
    <3> QED
      BY <1>0, <2>1, <2>2, <2>4, <2>5, <3>1, SMT
  <2>6. CASE m <= 2
    <3>1. x = y - 1
      BY <2>6, SMT
    <3> QED
      BY <1>0, <2>1, <2>3, <2>4, <2>6, <3>1, SMT
  <2> QED
    BY <2>5, <2>6, SMT
<1>8. doy \in Int /\ Leaps(x) \in Int
  BY <1>1, LeapCounted, SMT
<1> HIDE DEF doy, e, r, x
<1> QED
  BY <1>1, <1>2, <1>5, <1>6, <1>7, <1>8, SMT

LEMMA DateComesBack ==
  ASSUME NEW n \in Days
  PROVE  /\ Date(n) \in Seq(Int) /\ Len(Date(n)) = 3
         /\ DayNumber(Date(n)) = n
         /\ DaysFromCivil(Date(n)[1], Date(n)[2], Date(n)[3]) = n
<1>1. PICK y \in FourDigits, m \in 1..12, d \in 1..31 :
        Date(n) = <<y, m, d>> /\ DaysBefore(y) + MonthStart(y, m) + d - 1 = n
  BY DateIsDay
<1>2. y \in Int /\ m \in Int /\ d \in Int
  BY SMT DEF FourDigits
<1>3. Date(n)[1] = y /\ Date(n)[2] = m /\ Date(n)[3] = d /\ Date(n) \in Seq(Int) /\ Len(Date(n)) = 3
  BY <1>1, <1>2
<1>4. DayNumber(Date(n)) = n
  BY <1>1, <1>3 DEF DayNumber
<1>5. DaysFromCivil(y, m, d) = n
  BY <1>1, CivilIsDay
<1> QED
  BY <1>3, <1>4, <1>5

LEMMA TimeComesBack ==
  ASSUME NEW s \in Nat
  PROVE  /\ TimeOfDay(s) \in Seq(Int) /\ Len(TimeOfDay(s)) = 3
         /\ Seconds(TimeOfDay(s)) = s
<1> DEFINE h == s \div 3600
           m == (s \div 60) % 60
           r == s % 60
<1>1. h \in Int /\ m \in Int /\ r \in Int /\ h * 3600 + m * 60 + r = s
  <2>1. s \div 60 \in Int /\ (s \div 60) * 60 + r = s
    BY SMT
  <2>2. (s \div 60) \div 60 = s \div 3600
    BY SMT
  <2>3. ((s \div 60) \div 60) * 60 + m = s \div 60
    BY <2>1, SMT
  <2>4. h \in Int /\ m \in Int /\ r \in Int
    BY SMT
  <2>5. h * 60 + m = s \div 60
    BY <2>2, <2>3
  <2> QED
    BY <2>1, <2>4, <2>5, SMT
<1>2. TimeOfDay(s) = <<h, m, r>>
  BY DEF TimeOfDay
<1> HIDE DEF h, m, r
<1>3. TimeOfDay(s)[1] = h /\ TimeOfDay(s)[2] = m /\ TimeOfDay(s)[3] = r
      /\ TimeOfDay(s) \in Seq(Int) /\ Len(TimeOfDay(s)) = 3
  BY <1>1, <1>2
<1> QED
  BY <1>1, <1>3 DEF Seconds

LEMMA OffsetComesBack ==
  ASSUME NEW z \in Zones
  PROVE  /\ Offset(z) \in Seq(Int) /\ Len(Offset(z)) = 3
         /\ OffsetSeconds(Offset(z)) = z * 60 /\ z \in Int /\ -1439 <= z /\ z <= 1439
<1>1. z \in Int /\ -1439 <= z /\ z <= 1439
  <2>1. z \in UtcOffsets
    BY ValuesAssumption
  <2> QED
    BY <2>1, SMT DEF UtcOffsets
<1> DEFINE sign == IF z < 0 THEN -1 ELSE 1
           a == Abs(z)
           h == a \div 60
           m == a % 60
<1>2. a \in Nat /\ sign * a = z /\ sign \in {-1, 1}
  BY <1>1, SMT DEF Abs
<1>3. Offset(z) = <<sign, h, m>>
  BY DEF Offset
<1> HIDE DEF sign, a
<1>4. h \in Int /\ m \in Int /\ h * 60 + m = a
  BY <1>2, SMT
<1>5. h * 3600 + m * 60 = a * 60
  BY <1>2, <1>4, SMT
<1> HIDE DEF h, m
<1>6. sign * (h * 3600 + m * 60) = z * 60
  BY <1>1, <1>2, <1>5, SMT
<1>7. Offset(z)[1] = sign /\ Offset(z)[2] = h /\ Offset(z)[3] = m
      /\ Offset(z) \in Seq(Int) /\ Len(Offset(z)) = 3
  <2>1. sign \in Int
    BY <1>2, SMT
  <2> QED
    BY <1>3, <1>4, <2>1
<1> QED
  BY <1>1, <1>6, <1>7 DEF OffsetSeconds

LEMMA Elements ==
  ASSUME NEW s \in Seq(Int)
  PROVE  /\ Len(s) = 3 => s[1] \in Int /\ s[2] \in Int /\ s[3] \in Int
         /\ Len(s) = 6 => /\ s[1] \in Int /\ s[2] \in Int /\ s[3] \in Int
                          /\ s[4] \in Int /\ s[5] \in Int /\ s[6] \in Int
<1>1. \A k \in 1..Len(s) : s[k] \in Int
  OBVIOUS
<1>2. Len(s) = 3 => 1 \in 1..Len(s) /\ 2 \in 1..Len(s) /\ 3 \in 1..Len(s)
  OBVIOUS
<1>3. Len(s) = 6 => /\ 1 \in 1..Len(s) /\ 2 \in 1..Len(s) /\ 3 \in 1..Len(s)
                    /\ 4 \in 1..Len(s) /\ 5 \in 1..Len(s) /\ 6 \in 1..Len(s)
  OBVIOUS
<1> QED
  BY <1>1, <1>2, <1>3, Zenon

LEMMA Halves ==
  ASSUME NEW c \in Seq(Int), NEW o \in Seq(Int), Len(c) > 0, Len(o) > 0
  PROVE  /\ c \o o \in Seq(Int) /\ Len(c \o o) = Len(c) + Len(o)
         /\ \A k \in 1..Len(c) : (c \o o)[k] = c[k]
         /\ \A k \in 1..Len(o) : (c \o o)[Len(c) + k] = o[k]
         /\ SubSeq(c \o o, 1, Len(c)) = c
         /\ SubSeq(c \o o, Len(c) + 1, Len(c) + Len(o)) = o
<1> DEFINE i == Len(c)
           j == Len(o)
           u == c \o o
           a == SubSeq(u, 1, i)
           b == SubSeq(u, i + 1, i + j)
<1>1. u \in Seq(Int) /\ Len(u) = i + j
      /\ \A k \in 1..(i + j) : u[k] = IF k <= i THEN c[k] ELSE o[k - i]
  BY ConcatProperties
<1>0. i \in Nat /\ j \in Nat /\ i > 0 /\ j > 0 /\ i = Len(c) /\ j = Len(o)
  OBVIOUS
<1> HIDE DEF u, i, j
<1>2. ASSUME NEW k \in 1..i PROVE u[k] = c[k]
  <2>1. k \in 1..(i + j) /\ k <= i
    BY <1>0
  <2> QED
    BY <1>0, <1>1, <2>1
<1>3. ASSUME NEW k \in 1..j PROVE u[i + k] = o[k]
  <2>1. i + k \in 1..(i + j) /\ ~(i + k <= i) /\ (i + k) - i = k
    BY <1>0
  <2> QED
    BY <1>0, <1>1, <2>1
<1>4. a \in Seq(Int) /\ Len(a) = i /\ \A k \in 1..i : a[k] = u[k]
  <2>1. 1 \in 1..(i + j) /\ i \in 1..(i + j) /\ 1 <= i
    BY <1>0
  <2> QED
    BY <1>0, <1>1, <2>1
<1>5. b \in Seq(Int) /\ Len(b) = j /\ \A k \in 1..j : b[k] = u[i + k]
  <2>1. i + 1 \in 1..(i + j) /\ i + j \in 1..(i + j)
    BY <1>0
  <2>2. b \in Seq(Int) /\ Len(b) = j
    BY <1>0, <1>1, <2>1
  <2>3. \A k \in 1..j : b[k] = u[(i + 1) + k - 1]
    BY <1>0, <1>1, <2>1, <2>2
  <2>4. \A k \in 1..j : (i + 1) + k - 1 = i + k
    BY <1>0
  <2> QED
    BY <2>2, <2>3, <2>4
<1> HIDE DEF a, b
<1>6. a = c
  BY <1>0, <1>2, <1>4, SeqEqual
<1>7. b = o
  BY <1>0, <1>3, <1>5, SeqEqual
<1> QED
  BY <1>1, <1>2, <1>3, <1>6, <1>7 DEF a, b, u, i, j

\* A clock is a date and a time of the day.
Stamp(y, m, d, h, i, s) == DaysFromCivil(y, m, d) * 86400 + h * 3600 + i * 60 + s
OnDay(n) == n \in Int /\ n \div 86400 \in Days

LEMMA ClockComesBack ==
  ASSUME NEW n, OnDay(n)
  PROVE  /\ Clock(n) \in Seq(Int) /\ Len(Clock(n)) = 6
         /\ ClockSeconds(Clock(n)) = n
         /\ Stamp(Clock(n)[1], Clock(n)[2], Clock(n)[3], Clock(n)[4], Clock(n)[5], Clock(n)[6]) = n
         /\ DaysFromCivil(Clock(n)[1], Clock(n)[2], Clock(n)[3]) \in Int
<1> DEFINE q == n \div 86400
           r == n % 86400
           d == Date(q)
           t == TimeOfDay(r)
           c == Clock(n)
<1>1. n \in Int /\ q \in Days
  BY DEF OnDay
<1>2. q \in Int /\ r \in Nat /\ q * 86400 + r = n
  BY <1>1, SMT
<1>3. c = d \o t
  BY DEF Clock
<1> HIDE DEF q, r, c
<1>4. /\ d \in Seq(Int) /\ Len(d) = 3 /\ DayNumber(d) = q
      /\ DaysFromCivil(d[1], d[2], d[3]) = q
  BY <1>1, DateComesBack
<1>5. t \in Seq(Int) /\ Len(t) = 3 /\ Seconds(t) = r
  BY <1>2, TimeComesBack
<1> HIDE DEF d, t
<1>6. /\ c \in Seq(Int) /\ Len(c) = 6
      /\ SubSeq(c, 1, 3) = d /\ SubSeq(c, 4, 6) = t
      /\ c[1] = d[1] /\ c[2] = d[2] /\ c[3] = d[3]
      /\ c[4] = t[1] /\ c[5] = t[2] /\ c[6] = t[3]
  <2>1. Len(d) > 0 /\ Len(t) > 0 /\ 3 + 1 = 4 /\ 3 + 3 = 6 /\ 3 + 2 = 5 /\ 1 \in 1..3 /\ 2 \in 1..3 /\ 3 \in 1..3
    BY <1>4, <1>5
  <2>2. /\ d \o t \in Seq(Int) /\ Len(d \o t) = Len(d) + Len(t)
        /\ \A k \in 1..Len(d) : (d \o t)[k] = d[k]
        /\ \A k \in 1..Len(t) : (d \o t)[Len(d) + k] = t[k]
        /\ SubSeq(d \o t, 1, Len(d)) = d /\ SubSeq(d \o t, Len(d) + 1, Len(d) + Len(t)) = t
    BY <1>4, <1>5, <2>1, Halves
  <2> QED
    BY <1>3, <1>4, <1>5, <2>1, <2>2
<1>7. ClockSeconds(c) = n
  <2>1. ClockSeconds(c) = DayNumber(d) * 86400 + Seconds(t)
    <3> DEFINE a == SubSeq(c, 1, 3)
               b == SubSeq(c, 4, 6)
    <3>1. ClockSeconds(c) = DayNumber(a) * 86400 + Seconds(b)
      BY SMT DEF ClockSeconds
    <3>2. a = d /\ b = t
      BY <1>6
    <3> HIDE DEF a, b
    <3> QED
      BY <3>1, <3>2, SMT
  <2> QED
    BY <1>2, <1>4, <1>5, <2>1, SMT
<1>8. t[1] * 3600 + t[2] * 60 + t[3] = r
  BY <1>5, SMT DEF Seconds
<1>9. q * 86400 + t[1] * 3600 + t[2] * 60 + t[3] = n
  <2>1. t[1] \in Int /\ t[2] \in Int /\ t[3] \in Int
    BY <1>5, Elements
  <2> QED
    BY <1>2, <1>8, <2>1, SMT
<1>10. Stamp(d[1], d[2], d[3], t[1], t[2], t[3]) = n
  BY <1>4, <1>9, SMT DEF Stamp
<1> QED
  BY <1>2, <1>4, <1>6, <1>7, <1>10 DEF c

\* With an offset it is a time.
LEMMA StampComesBack ==
  ASSUME NEW n, OnDay(n), NEW z \in Zones
  PROVE  LET c == Clock(n) \o Offset(z) IN
         /\ c \in Seq(Int)
         /\ ClockSeconds(SubSeq(c, 1, 6)) - OffsetSeconds(SubSeq(c, 7, 9)) = n - z * 60
         /\ ConvertDatetime(c) = n - z * 60
         /\ ConvertDatetime(Clock(n)) = n
<1> DEFINE k == Clock(n)
           o == Offset(z)
           c == k \o o
<1>1. /\ k \in Seq(Int) /\ Len(k) = 6 /\ ClockSeconds(k) = n
      /\ Stamp(k[1], k[2], k[3], k[4], k[5], k[6]) = n /\ DaysFromCivil(k[1], k[2], k[3]) \in Int
  BY ClockComesBack
<1>2. o \in Seq(Int) /\ Len(o) = 3 /\ OffsetSeconds(o) = z * 60
  BY OffsetComesBack
<1> HIDE DEF k, o
<1>3. /\ c \in Seq(Int) /\ Len(c) = 9
      /\ SubSeq(c, 1, 6) = k /\ SubSeq(c, 7, 9) = o
      /\ c[1] = k[1] /\ c[2] = k[2] /\ c[3] = k[3] /\ c[4] = k[4] /\ c[5] = k[5] /\ c[6] = k[6]
      /\ c[7] = o[1] /\ c[8] = o[2] /\ c[9] = o[3]
  <2>1. /\ Len(k) > 0 /\ Len(o) > 0 /\ 6 + 1 = 7 /\ 6 + 2 = 8 /\ 6 + 3 = 9
        /\ 1 \in 1..6 /\ 2 \in 1..6 /\ 3 \in 1..6 /\ 4 \in 1..6 /\ 5 \in 1..6 /\ 6 \in 1..6
        /\ 1 \in 1..3 /\ 2 \in 1..3 /\ 3 \in 1..3
    BY <1>1, <1>2
  <2>2. /\ k \o o \in Seq(Int) /\ Len(k \o o) = Len(k) + Len(o)
        /\ \A i \in 1..Len(k) : (k \o o)[i] = k[i]
        /\ \A i \in 1..Len(o) : (k \o o)[Len(k) + i] = o[i]
        /\ SubSeq(k \o o, 1, Len(k)) = k /\ SubSeq(k \o o, Len(k) + 1, Len(k) + Len(o)) = o
    <3>1. k \in Seq(Int) /\ o \in Seq(Int)
      BY <1>1, <1>2
    <3> QED
      BY <2>1, <3>1, Halves
  <2>3. Len(k) = 6 /\ Len(o) = 3
    BY <1>1, <1>2
  <2>4. /\ c \in Seq(Int) /\ Len(c) = 9
        /\ \A i \in 1..6 : c[i] = k[i]
        /\ \A i \in 1..3 : c[6 + i] = o[i]
        /\ SubSeq(c, 1, 6) = k /\ SubSeq(c, 7, 9) = o
    <3>1. 6 + 1 = 7 /\ 6 + 3 = 9
      OBVIOUS
    <3> QED
      BY <2>2, <2>3, <3>1
  <2> HIDE DEF c
  <2>5. c[1] = k[1] /\ c[2] = k[2] /\ c[3] = k[3] /\ c[4] = k[4] /\ c[5] = k[5] /\ c[6] = k[6]
    BY <2>1, <2>4
  <2>6. c[7] = o[1] /\ c[8] = o[2] /\ c[9] = o[3]
    BY <2>1, <2>4
  <2> QED
    BY <2>4, <2>5, <2>6
<1> HIDE DEF c
<1>0. n \in Int /\ z \in Int
  BY OffsetComesBack DEF OnDay
<1>4. ClockSeconds(SubSeq(c, 1, 6)) - OffsetSeconds(SubSeq(c, 7, 9)) = n - z * 60
  <2>1. ClockSeconds(SubSeq(c, 1, 6)) = n /\ OffsetSeconds(SubSeq(c, 7, 9)) = z * 60
    <3>1. ClockSeconds(k) = n
      BY <1>1
    <3>2. OffsetSeconds(o) = z * 60
      BY <1>2
    <3>3. SubSeq(c, 1, 6) = k /\ SubSeq(c, 7, 9) = o
      BY <1>3
    <3> QED
      BY <3>1, <3>2, <3>3, Zenon
  <2> QED
    BY <1>0, <2>1
<1>8. DaysFromCivil(c[1], c[2], c[3]) \in Int
  BY <1>1, <1>3
<1>9. /\ k[4] \in Int /\ k[5] \in Int /\ k[6] \in Int
      /\ o[1] \in Int /\ o[2] \in Int /\ o[3] \in Int
  BY <1>1, <1>2, Elements
<1>10. /\ c[4] \in Int /\ c[5] \in Int /\ c[6] \in Int
       /\ c[7] \in Int /\ c[8] \in Int /\ c[9] \in Int
  BY <1>3, <1>9
<1>6. ConvertDatetime(c) = n - z * 60
  <2> DEFINE p == OffsetSeconds(SubSeq(c, 7, 9))
  <2>1. Len(c) > 6
    BY <1>3
  <2>2. p = z * 60
    BY <1>2, <1>3
  <2>3. Stamp(c[1], c[2], c[3], c[4], c[5], c[6]) = n
    BY <1>1, <1>3
  <2>4. ConvertDatetime(c) = Stamp(c[1], c[2], c[3], c[4], c[5], c[6]) - p
    BY <2>1, SMT DEF ConvertDatetime, Stamp
  <2> HIDE DEF p
  <2> QED
    BY <2>2, <2>3, <2>4
<1>7. ConvertDatetime(k) = n
  <2>1. ConvertDatetime(k) = Stamp(k[1], k[2], k[3], k[4], k[5], k[6])
    <3>1. ~(Len(k) > 6)
      BY <1>1
    <3> QED
      BY <3>1, SMT DEF ConvertDatetime, Stamp
  <2> QED
    BY <1>1, <2>1
<1> QED
  BY <1>3, <1>4, <1>6, <1>7 DEF c, k, o

-----------------------------------------------------------------------------
(* What is stored, and what is read of it.                                 *)

\* What tells NULL, numbers and texts apart.
LEMMA ValueShapes ==
  /\ NA.na = TRUE
  /\ \A n : Number(n).na = FALSE /\ Number(n).num = n /\ Number(n).txt = <<>>
  /\ \A s : Text(s).na = FALSE /\ Text(s).num = 0 /\ Text(s).txt = s
  /\ NaN # NA /\ Inf # NA /\ NaN # Inf
  /\ \A n : Number(n) # NA /\ Number(n) # NaN /\ Number(n) # Inf
  /\ \A s : Text(s) # NA
  /\ \A f : Opaque(f).at = f /\ <<Opaque(f)>>[1] = Opaque(f)
            /\ <<Opaque(f)>> # Inf.txt /\ <<Opaque(f)>> # NaN.txt
            /\ Text(<<Opaque(f)>>) # Inf /\ Text(<<Opaque(f)>>) # NaN
  /\ \A m, n : <<Opaque(<<m>>)>> = <<Opaque(<<n>>)>> => m = n
  /\ \A n : <<n>>[1] = n
<1>1. NA.na = TRUE
  BY DEF NA
<1>2. \A n : Number(n).na = FALSE /\ Number(n).num = n /\ Number(n).txt = <<>>
  BY DEF Number
<1>3. \A s : Text(s).na = FALSE /\ Text(s).num = 0 /\ Text(s).txt = s
  BY DEF Text
<1>4. \A a : Char(a).ch = a
  BY DEF Char
<1>5. \A f : Opaque(f).ch = "fields" /\ Opaque(f).at = f
  BY DEF Opaque
<1>6. \A a : <<a>>[1] = a /\ <<a>> # <<>>
  OBVIOUS
<1>7. NaN.txt = <<Char("NaN")>> /\ Inf.txt = <<Char("Inf")>> /\ NaN.na = FALSE /\ Inf.na = FALSE
  BY <1>3 DEF NaN, Inf
<1>8. NaN # NA /\ Inf # NA /\ NaN # Inf
  <2>1. <<Char("NaN")>>[1] = Char("NaN") /\ <<Char("Inf")>>[1] = Char("Inf")
    BY <1>6
  <2>2. Char("NaN") # Char("Inf")
    <3>1. Char("NaN").ch = "NaN" /\ Char("Inf").ch = "Inf"
      BY <1>4
    <3> QED
      BY <3>1
  <2> QED
    BY <1>1, <1>7, <2>1, <2>2
<1>9. ASSUME NEW n PROVE Number(n) # NA /\ Number(n) # NaN /\ Number(n) # Inf
  <2>1. <<Char("NaN")>> # <<>> /\ <<Char("Inf")>> # <<>>
    OBVIOUS
  <2>2. Number(n).na = FALSE /\ Number(n).txt = <<>>
    BY <1>2
  <2> QED
    BY <1>1, <1>7, <2>1, <2>2
<1>10. ASSUME NEW s PROVE Text(s) # NA
  <2>1. Text(s).na = FALSE
    BY <1>3
  <2> QED
    BY <1>1, <2>1
<1>11. ASSUME NEW f
       PROVE  /\ <<Opaque(f)>> # Inf.txt /\ <<Opaque(f)>> # NaN.txt
              /\ Text(<<Opaque(f)>>) # Inf /\ Text(<<Opaque(f)>>) # NaN
  <2>1. Char("NaN").ch = "NaN" /\ Char("Inf").ch = "Inf" /\ Opaque(f).ch = "fields"
    BY <1>4, <1>5
  <2>2. Opaque(f) # Char("NaN") /\ Opaque(f) # Char("Inf")
    BY <2>1
  <2>3. <<Opaque(f)>>[1] = Opaque(f) /\ <<Char("NaN")>>[1] = Char("NaN") /\ <<Char("Inf")>>[1] = Char("Inf")
    BY <1>6
  <2>4. <<Opaque(f)>> # Inf.txt /\ <<Opaque(f)>> # NaN.txt
    BY <1>7, <2>2, <2>3
  <2>5. Text(<<Opaque(f)>>).txt = <<Opaque(f)>>
    BY <1>3
  <2> QED
    BY <2>4, <2>5
<1>12. ASSUME NEW m, NEW n, <<Opaque(<<m>>)>> = <<Opaque(<<n>>)>> PROVE m = n
  <2>1. Opaque(<<m>>) = Opaque(<<n>>)
    BY <1>6, <1>12
  <2>2. <<m>> = <<n>>
    BY <1>5, <2>1
  <2> QED
    BY <1>6, <2>2
<1> QED
  BY <1>1, <1>2, <1>3, <1>5, <1>6, <1>8, <1>9, <1>10, <1>11, <1>12

LEMMA DayShifts ==
  ASSUME NEW n \in Int, Moment(n), NEW y \in Zones
  PROVE  OnDay(n) /\ OnDay(n + y * 60) /\ y * 60 \in Int
<1>1. y \in Int /\ -1439 <= y /\ y <= 1439
  BY OffsetComesBack
<1> DEFINE a == DaysBefore(1)
           b == DaysBefore(10000)
           q == n \div 86400
           r == (n + y * 60) \div 86400
<1>2. a \in Int /\ b \in Int
  BY DaysCounted, SMT
<1>3. q \in (a + 1)..(b - 2)
  BY DEF Moment
<1>4. Days = a..(b - 1)
  BY DEF Days
<1> HIDE DEF a, b
<1>5. q \in Int /\ 86400 * q <= n /\ n < 86400 * q + 86400
  BY SMT
<1>6. n + y * 60 \in Int /\ y * 60 \in Int /\ n - 86340 <= n + y * 60 /\ n + y * 60 <= n + 86340
  BY <1>1, SMT
<1>7. r \in Int /\ 86400 * r <= n + y * 60 /\ n + y * 60 < 86400 * r + 86400
  BY <1>6, SMT
<1> HIDE DEF q, r
<1>8. q - 1 <= r /\ r <= q + 1
  BY <1>5, <1>6, <1>7, SMT
<1>9. q \in Days /\ r \in Days
  BY <1>2, <1>3, <1>4, <1>5, <1>7, <1>8, SMT
<1> QED
  BY <1>6, <1>9 DEF OnDay, q, r

LEMMA Concatenated ==
  ASSUME NEW S, NEW s \in Seq(S), NEW t \in Seq(S)
  PROVE  /\ s \o t \in Seq(S) /\ Len(s \o t) = Len(s) + Len(t)
         /\ \A k \in 1..Len(s \o t) : (s \o t)[k] = IF k <= Len(s) THEN s[k] ELSE t[k - Len(s)]
BY ConcatProperties

\* The bytes of a bytea after "\x".
LEMMA BytesAreRead ==
  ASSUME NEW S, NEW s \in Seq(S)
  PROVE  SubSeq(<<BS, Char("x")>> \o s, 3, Len(<<BS, Char("x")>> \o s)) = s
<1> DEFINE T == S \cup {BS, Char("x")}
           h == <<BS, Char("x")>>
           u == h \o s
           n == Len(s)
           a == SubSeq(u, 3, Len(u))
<1>1. h \in Seq(T) /\ s \in Seq(T) /\ Len(h) = 2 /\ n \in Nat
  OBVIOUS
<1> HIDE DEF h, T
<1>2. u \in Seq(T) /\ Len(u) = n + 2 /\ \A k \in 1..(n + 2) : u[k] = IF k <= 2 THEN h[k] ELSE s[k - 2]
  <2>1. u \in Seq(T) /\ Len(u) = Len(h) + Len(s)
    BY <1>1, ConcatProperties
  <2>2. Len(u) = n + 2
    BY <1>1, <2>1
  <2>3. \A k \in 1..Len(u) : u[k] = IF k <= Len(h) THEN h[k] ELSE s[k - Len(h)]
    BY <1>1, Concatenated DEF u
  <2> QED
    BY <1>1, <2>1, <2>2, <2>3
<1> HIDE DEF u, n
<1>3. CASE n = 0
  <2>1. s = <<>>
    BY <1>1, <1>3 DEF n
  <2>2. Len(u) = 2
    BY <1>2, <1>3
  <2>3. \A v \in Seq(T) : Len(v) = 2 => SubSeq(v, 3, Len(v)) = <<>>
    OBVIOUS
  <2>4. a = <<>>
    BY <1>2, <2>2, <2>3
  <2> QED
    BY <2>1, <2>4 DEF a, u, h
<1>4. CASE n > 0
  <2>1. 3 \in 1..Len(u) /\ Len(u) \in 1..Len(u) /\ Len(u) - 3 + 1 = n
    BY <1>1, <1>2, <1>4
  <2>2. a \in Seq(T) /\ Len(a) = n /\ \A k \in 1..n : a[k] = u[3 + k - 1]
    BY <1>1, <1>2, <2>1
  <2>3. ASSUME NEW k \in 1..n PROVE a[k] = s[k]
    <3>1. 3 + k - 1 = k + 2 /\ k + 2 \in 1..(n + 2) /\ ~(k + 2 <= 2) /\ (k + 2) - 2 = k
      BY <1>1
    <3> QED
      BY <1>2, <2>2, <3>1
  <2> HIDE DEF a
  <2>4. a = s
    BY <1>1, <2>2, <2>3, SeqEqual DEF n
  <2> QED
    BY <2>4 DEF a, u, h
<1> QED
  BY <1>1, <1>3, <1>4

LEMMA OpaqueParts ==
  /\ \A f : <<Opaque(f)>>[1].at = f
  /\ \A n : <<Opaque(<<n>>)>>[1].at[1] = n
<1>1. \A f : <<Opaque(f)>>[1].at = f
  <2> TAKE f
  <2>1. <<Opaque(f)>>[1] = Opaque(f)
    OBVIOUS
  <2>2. Opaque(f).at = f
    BY DEF Opaque
  <2> QED
    BY <2>1, <2>2
<1>2. \A n : <<Opaque(<<n>>)>>[1].at[1] = n
  <2> TAKE n
  <2>1. <<Opaque(<<n>>)>>[1].at = <<n>>
    BY <1>1, Zenon
  <2>2. <<n>>[1] = n
    OBVIOUS
  <2> QED
    BY <2>1, <2>2
<1> QED
  BY <1>1, <1>2

LEMMA NumericParts ==
  ASSUME NEW w, NEW S, Numeric(w, S)
  PROVE  w = Number(w.num) /\ w.num \in S /\ w.na = FALSE
<1>1. w = Number(w.num) /\ w.num \in S
  BY Zenon DEF Numeric
<1>2. Number(w.num).na = FALSE
  BY DEF Number
<1> QED
  BY <1>1, <1>2, Zenon

LEMMA TextualParts ==
  ASSUME NEW w, NEW S, Textual(w, S)
  PROVE  w = Text(w.txt) /\ w.txt \in Seq(S) /\ w.na = FALSE
<1>1. w = Text(w.txt) /\ w.txt \in Seq(S)
  BY Zenon DEF Textual
<1>2. Text(w.txt).na = FALSE
  BY DEF Text
<1> QED
  BY <1>1, <1>2, Zenon

LEMMA TypeParts ==
  ASSUME NEW t, NEW w, OfType(t, w), w # NA
  PROVE  /\ t = "BOOLEAN" => Numeric(w, {0, 1})
         /\ t = "INTEGER" => Numeric(w, (-IntMax - 1)..IntMax)
         /\ t = "BIGINT" => Numeric(w, (-BigMax - 1)..BigMax)
         /\ t = "DOUBLE PRECISION" => w \in {NaN, Inf} \/ Numeric(w, Int)
         /\ t \in {"TEXT", "JSON"} => Textual(w, Symbols)
         /\ t = "BYTEA" => Textual(w, Fields)
         /\ t = "DATE" => Numeric(w, Days)
         /\ t \in {"TIMESTAMP", "TIMESTAMPTZ"} => Numeric(w, Int) /\ Moment(w.num)
         /\ t = "TIME" => Numeric(w, TimesOfDay)
BY DEF OfType

\* A value of a table, and what a query makes of it.
Reread(t, w) == Finalize(t, FetchValue(t, w))
Seen(t, w) ==
  IF w = NA THEN NA
  ELSE CASE t = "INTEGER" -> IntegerOf(w.num, IntMax)
         [] t = "BIGINT" -> ConvertBigint(IntegerOf(w.num, BigMax))
         [] t = "TIMESTAMP" -> Number(w.num - zone * 60)
         [] OTHER -> w

LEMMA NumbersAreRead ==
  ASSUME NEW t \in {"BOOLEAN", "INTEGER", "BIGINT", "DOUBLE PRECISION"}, NEW w, OfType(t, w), w # NA
  PROVE  Reread(t, w) = Seen(t, w)
<1>1. CASE t = "BOOLEAN"
  <2>1. w = Number(w.num) /\ w.num \in {0, 1} /\ w.na = FALSE
    BY <1>1, TypeParts, NumericParts
  <2>2. FetchValue(t, w) = Number(IF <<Opaque(<<w.num>>)>> = <<Opaque(<<1>>)>> THEN 1 ELSE 0)
    BY <1>1, <2>1 DEF FetchValue, ColumnType, Fetch, Output
  <2>3. FetchValue(t, w) = w
    <3>1. <<Opaque(<<w.num>>)>> = <<Opaque(<<1>>)>> <=> w.num = 1
      BY ValueShapes
    <3> QED
      BY <2>1, <2>2, <3>1
  <2> QED
    BY <1>1, <2>3 DEF Reread, Seen, Finalize
<1>2. CASE t = "INTEGER"
  <2>1. w.na = FALSE
    BY <1>2, TypeParts, NumericParts
  <2>2. FetchValue(t, w) = IntegerOf(<<Opaque(<<w.num>>)>>[1].at[1], IntMax)
    BY <1>2, <2>1 DEF FetchValue, ColumnType, Fetch, Output
  <2>3. <<Opaque(<<w.num>>)>>[1].at[1] = w.num
    BY OpaqueParts
  <2> QED
    BY <1>2, <2>2, <2>3 DEF Reread, Seen, Finalize
<1>3. CASE t = "BIGINT"
  <2>1. w.na = FALSE
    BY <1>3, TypeParts, NumericParts
  <2>2. FetchValue(t, w) = IntegerOf(<<Opaque(<<w.num>>)>>[1].at[1], BigMax)
    BY <1>3, <2>1 DEF FetchValue, ColumnType, Fetch, Output
  <2>3. <<Opaque(<<w.num>>)>>[1].at[1] = w.num
    BY OpaqueParts
  <2> QED
    BY <1>3, <2>2, <2>3 DEF Reread, Seen, Finalize
<1>4. CASE t = "DOUBLE PRECISION"
  <2>1. w.na = FALSE /\ (w \in {NaN, Inf} \/ w = Number(w.num))
    <3>1. w \in {NaN, Inf} \/ Numeric(w, Int)
      BY <1>4, TypeParts
    <3>2. NaN.na = FALSE /\ Inf.na = FALSE
      BY DEF NaN, Inf, Text
    <3> QED
      BY <3>1, <3>2, NumericParts
  <2>2. FetchValue(t, w) = LET s == IF w \in {Inf, NaN} THEN w.txt ELSE <<Opaque(<<w.num>>)>>
                           IN IF s \in {Inf.txt, NaN.txt} THEN Text(s) ELSE Number(s[1].at[1])
    BY <1>4, <2>1 DEF FetchValue, ColumnType, Fetch, Output
  <2>3. FetchValue(t, w) = w
    <3>1. CASE w \in {Inf, NaN}
      <4>1. Text(w.txt) = w
        BY <3>1, ValueShapes DEF NaN, Inf
      <4> QED
        BY <2>2, <3>1, <4>1
    <3>2. CASE w \notin {Inf, NaN}
      <4>1. <<Opaque(<<w.num>>)>>[1].at[1] = w.num
        BY OpaqueParts
      <4>2. <<Opaque(<<w.num>>)>> \notin {Inf.txt, NaN.txt}
        BY ValueShapes
      <4> QED
        BY <2>1, <2>2, <3>2, <4>1, <4>2
    <3> QED
      BY <3>1, <3>2
  <2> QED
    BY <1>4, <2>3 DEF Reread, Seen, Finalize
<1> QED
  BY <1>1, <1>2, <1>3, <1>4

LEMMA TextsAreRead ==
  ASSUME NEW t \in {"TEXT", "JSON", "BYTEA"}, NEW w, OfType(t, w), w # NA
  PROVE  Reread(t, w) = Seen(t, w)
<1>1. w = Text(w.txt) /\ w.na = FALSE
  BY TypeParts, TextualParts
<1>2. CASE t \in {"TEXT", "JSON"}
  <2>1. FetchValue(t, w) = Text(w.txt)
    BY <1>1, <1>2 DEF FetchValue, ColumnType, Fetch, Output
  <2> QED
    BY <1>1, <1>2, <2>1 DEF Reread, Seen, Finalize
<1>3. CASE t = "BYTEA"
  <2> DEFINE h == <<BS, Char("x")>>
             u == h \o w.txt
  <2>1. w.txt \in Seq(Fields)
    BY <1>3, TypeParts, TextualParts
  <2>2. SubSeq(u, 3, Len(u)) = w.txt
    BY <2>1, BytesAreRead
  <2>3. FetchValue(t, w) = Text(SubSeq(u, 3, Len(u)))
    BY <1>1, <1>3 DEF FetchValue, ColumnType, Fetch, Output
  <2> HIDE DEF u
  <2> QED
    BY <1>1, <1>3, <2>2, <2>3 DEF Reread, Seen, Finalize
<1> QED
  BY <1>2, <1>3

LEMMA DatesAreRead ==
  ASSUME NEW t \in {"DATE", "TIME"}, NEW w, OfType(t, w), w # NA
  PROVE  Reread(t, w) = Seen(t, w)
<1>1. w = Number(w.num) /\ w.na = FALSE
  BY TypeParts, NumericParts
<1>2. CASE t = "DATE"
  <2> DEFINE d == Date(w.num)
  <2>1. w.num \in Days
    BY <1>2, TypeParts, NumericParts
  <2>2. DaysFromCivil(d[1], d[2], d[3]) = w.num
    BY <2>1, DateComesBack
  <2> HIDE DEF d
  <2>3. <<Opaque(d)>>[1].at = d
    BY OpaqueParts
  <2>4. FetchValue(t, w) = LET s == <<Opaque(d)>>
                           IN Number(DaysFromCivil(s[1].at[1], s[1].at[2], s[1].at[3]))
    BY <1>1, <1>2, SMT DEF FetchValue, ColumnType, Fetch, Output, d
  <2>5. FetchValue(t, w) = w
    BY <1>1, <2>2, <2>3, <2>4
  <2> QED
    BY <1>2, <2>5 DEF Reread, Seen, Finalize
<1>3. CASE t = "TIME"
  <2> DEFINE d == TimeOfDay(w.num)
  <2>1. w.num \in Nat
    <3>1. w.num \in TimesOfDay
      BY <1>3, TypeParts, NumericParts
    <3>2. \A n \in TimesOfDay : n \in Nat
      BY SMT DEF TimesOfDay, Midnight
    <3> QED
      BY <3>1, <3>2
  <2>2. d[1] * 3600 + d[2] * 60 + d[3] = w.num
    <3>1. Seconds(d) = w.num
      BY <2>1, TimeComesBack, SMT
    <3> HIDE DEF d
    <3> QED
      BY <3>1, SMT DEF Seconds
  <2> HIDE DEF d
  <2>3. <<Opaque(d)>>[1].at = d
    BY OpaqueParts
  <2>4. FetchValue(t, w) = LET s == <<Opaque(d)>>
                           IN Number(s[1].at[1] * 3600 + s[1].at[2] * 60 + s[1].at[3])
    BY <1>1, <1>3 DEF FetchValue, ColumnType, Fetch, Output, d
  <2>5. FetchValue(t, w) = w
    BY <1>1, <2>2, <2>3, <2>4, SMT
  <2> QED
    BY <1>3, <2>5 DEF Reread, Seen, Finalize
<1> QED
  BY <1>2, <1>3

LEMMA TimesAreRead ==
  ASSUME NEW t \in {"TIMESTAMP", "TIMESTAMPTZ"}, NEW w, OfType(t, w), w # NA, serverZone \in Zones
  PROVE  Reread(t, w) = Seen(t, w)
<1>1. w = Number(w.num) /\ w.na = FALSE /\ w.num \in Int /\ Moment(w.num)
  BY TypeParts, NumericParts
<1>2. /\ OnDay(w.num) /\ OnDay(w.num + serverZone * 60) /\ serverZone * 60 \in Int
  BY <1>1, DayShifts
<1>3. CASE t = "TIMESTAMP"
  <2> DEFINE c == Clock(w.num)
  <2>1. ConvertDatetime(c) = w.num
    BY <1>2, StampComesBack
  <2> HIDE DEF c
  <2>2. FetchValue(t, w) = Number(ConvertDatetime(<<Opaque(c)>>[1].at))
    BY <1>1, <1>3 DEF FetchValue, ColumnType, Fetch, Output, c
  <2>3. FetchValue(t, w) = Number(w.num)
    BY <2>1, <2>2, ValueShapes
  <2>4. Number(w.num).na = FALSE /\ Number(w.num).num = w.num
    BY ValueShapes
  <2> QED
    BY <1>3, <2>3, <2>4 DEF Reread, Seen, Finalize, FixTimezone
<1>4. CASE t = "TIMESTAMPTZ"
  <2> DEFINE c == Clock(w.num + serverZone * 60) \o Offset(serverZone)
  <2> DEFINE m == w.num + serverZone * 60
  <2>1. ConvertDatetime(c) = m - serverZone * 60
    <3>1. OnDay(m) /\ serverZone \in Zones
      BY <1>2
    <3> HIDE DEF m
    <3>2. ConvertDatetime(Clock(m) \o Offset(serverZone)) = m - serverZone * 60
      BY <3>1, StampComesBack
    <3> QED
      BY <3>2 DEF m
  <2> HIDE DEF c
  <2>2. FetchValue(t, w) = Number(ConvertDatetime(<<Opaque(c)>>[1].at))
    BY <1>1, <1>4 DEF FetchValue, ColumnType, Fetch, Output, c
  <2>3. m - serverZone * 60 = w.num
    BY <1>1, <1>2
  <2>4. FetchValue(t, w) = w
    BY <1>1, <2>1, <2>2, <2>3, ValueShapes
  <2> QED
    BY <1>4, <2>4 DEF Reread, Seen, Finalize
<1> QED
  BY <1>3, <1>4

\* A query reads every value that a column can hold.
LEMMA ReadBack ==
  ASSUME NEW t \in SqlTypes, NEW w, OfType(t, w), serverZone \in Zones
  PROVE  Reread(t, w) = Seen(t, w)
<1>1. CASE w = NA
  <2>1. FetchValue(t, w) = NA
    BY <1>1, ValueShapes DEF FetchValue
  <2> QED
    BY <1>1, <2>1, ValueShapes DEF Reread, Seen, Finalize, ConvertBigint, FixTimezone
<1>2. CASE w # NA
  BY <1>2, NumbersAreRead, TextsAreRead, DatesAreRead, TimesAreRead DEF SqlTypes
<1> QED
  BY <1>1, <1>2

-----------------------------------------------------------------------------
(* What the server keeps of an R value.                                    *)

LEMMA ClassParts ==
  ASSUME NEW k, NEW v, OfClass(k, v), v # NA
  PROVE  /\ k = "logical" => Numeric(v, {0, 1})
         /\ k = "integer" => Numeric(v, -IntMax..IntMax)
         /\ k = "integer64" => Numeric(v, -BigMax..BigMax)
         /\ k = "double" => v \in {NaN, Inf} \/ Numeric(v, Int)
         /\ k = "character" => Textual(v, Symbols)
         /\ k = "list" => Textual(v, Fields)
         /\ k = "Date" => Numeric(v, Days)
         /\ k = "POSIXct" => Numeric(v, Int) /\ Moment(v.num)
         /\ k = "difftime" => Numeric(v, Nat)
BY DEF OfClass

Kept(k, v) == IF k = "double" /\ v = NaN THEN NA ELSE v
IsKept(k, v, w) == w = Kept(k, v) /\ OfType(DataType(k), w)

\* What is read of what is kept.
LEMMA KeptIsExpected ==
  ASSUME NEW k \in Classes, NEW v, OfClass(k, v)
  PROVE  Seen(DataType(k), Kept(k, v)) = Expected(k, v)
<1>1. CASE v = NA
  BY <1>1, ValueShapes DEF Kept, Seen, Expected, ConvertBigint
<1>2. CASE v # NA /\ k \notin {"integer", "integer64", "double"}
  BY <1>2 DEF Kept, Seen, Expected, Classes, DataType
<1>3. CASE v # NA /\ k = "double"
  BY <1>3 DEF Kept, Seen, Expected, DataType
<1>4. CASE v # NA /\ k = "integer"
  <2>1. v = Number(v.num) /\ v.num \in -IntMax..IntMax
    BY <1>4, ClassParts, NumericParts
  <2>2. v.num # -IntMax - 1
    BY <2>1, ValuesAssumption
  <2>3. IntegerOf(v.num, IntMax) = v
    BY <2>1, <2>2 DEF IntegerOf
  <2> QED
    BY <1>4, <2>3 DEF Kept, Seen, Expected, DataType
<1>5. CASE v # NA /\ k = "integer64"
  <2>1. v = Number(v.num) /\ v.num \in -BigMax..BigMax
    BY <1>5, ClassParts, NumericParts
  <2>2. v.num # -BigMax - 1
    BY <2>1, ValuesAssumption
  <2>3. IntegerOf(v.num, BigMax) = v
    BY <2>1, <2>2 DEF IntegerOf
  <2> QED
    BY <1>5, <2>3 DEF Kept, Seen, Expected, DataType
<1> QED
  BY <1>1, <1>2, <1>3, <1>4, <1>5

\* The types of the columns hold the values of R, times of the day up to 24:00.
LEMMA KeptHasType ==
  ASSUME NEW k \in Classes, NEW v, OfClass(k, v),
         k = "difftime" /\ v # NA => v.num \in TimesOfDay
  PROVE  IsKept(k, v, Kept(k, v))
<1>1. CASE Kept(k, v) = NA
  BY <1>1 DEF IsKept, OfType
<1>2. CASE Kept(k, v) # NA /\ k \in {"logical", "double", "character", "list", "Date", "POSIXct"}
  <2>1. Kept(k, v) = v /\ v # NA
    BY <1>2 DEF Kept
  <2> QED
    BY <1>2, <2>1, ClassParts DEF IsKept, OfType, DataType
<1>3. CASE Kept(k, v) # NA /\ k \in {"integer", "integer64"}
  <2>1. Kept(k, v) = v /\ v # NA
    BY <1>3 DEF Kept
  <2>2. -IntMax..IntMax \subseteq (-IntMax - 1)..IntMax /\ -BigMax..BigMax \subseteq (-BigMax - 1)..BigMax
    BY ValuesAssumption
  <2>3. CASE k = "integer"
    <3>1. v = Number(v.num) /\ v.num \in -IntMax..IntMax
      BY <2>1, <2>3, ClassParts, NumericParts
    <3>2. Numeric(v, (-IntMax - 1)..IntMax)
      BY <2>2, <3>1 DEF Numeric
    <3> QED
      BY <2>1, <2>3, <3>2 DEF IsKept, OfType, DataType
  <2>4. CASE k = "integer64"
    <3>1. v = Number(v.num) /\ v.num \in -BigMax..BigMax
      BY <2>1, <2>4, ClassParts, NumericParts
    <3>2. Numeric(v, (-BigMax - 1)..BigMax)
      BY <2>2, <3>1 DEF Numeric
    <3> QED
      BY <2>1, <2>4, <3>2 DEF IsKept, OfType, DataType
  <2> QED
    BY <1>3, <2>3, <2>4
<1>4. CASE Kept(k, v) # NA /\ k = "difftime"
  <2>1. Kept(k, v) = v /\ v # NA
    BY <1>4 DEF Kept
  <2>2. v = Number(v.num)
    BY <1>4, <2>1, ClassParts, NumericParts
  <2>3. Numeric(v, TimesOfDay)
    BY <1>4, <2>1, <2>2 DEF Numeric
  <2> QED
    BY <1>4, <2>1, <2>3 DEF IsKept, OfType, DataType
<1> QED
  BY <1>1, <1>2, <1>3, <1>4 DEF Classes

LEMMA TextIsNoError ==
  ASSUME NEW s \in Seq(Symbols)
  PROVE  Text(s) # Refused
<1>1. s # Error
  BY ValuesAssumption
<1>2. Text(s).txt = s /\ Refused.txt = Error
  BY DEF Text, Refused
<1> QED
  BY <1>1, <1>2

\* Fields that are formatted are texts.
LEMMA FieldTexts ==
  /\ \A f \in Seq(Int) : Opaque(f) \in Symbols /\ <<Opaque(f)>> \in Seq(Symbols)
  /\ \A n \in Int : <<Opaque(<<n>>)>> \in Seq(Symbols)
  /\ \A s \in Seq(Fields) : s \in Seq(Symbols) /\ <<BS, Char("x")>> \o s \in Seq(Symbols)
  /\ <<Char("Inf")>> \in Seq(Symbols)
<1>1. \A f \in Seq(Int) : Opaque(f) \in Symbols /\ <<Opaque(f)>> \in Seq(Symbols)
  BY DEF Opaque, Symbols, Fields
<1>2. \A n \in Int : <<n>> \in Seq(Int)
  OBVIOUS
<1>3. ASSUME NEW s \in Seq(Fields)
      PROVE  s \in Seq(Symbols) /\ <<BS, Char("x")>> \o s \in Seq(Symbols)
  <2>1. Fields \subseteq Symbols
    BY DEF Symbols
  <2>2. s \in Seq(Symbols)
    BY <2>1
  <2>3. <<BS, Char("x")>> \in Seq(Symbols)
    BY Special
  <2> QED
    BY <2>2, <2>3
<1>4. <<Char("Inf")>> \in Seq(Symbols)
  BY Special
<1> QED
  BY <1>1, <1>2, <1>3, <1>4

\* What the server makes of a field, type by type.
LEMMA InputParts ==
  ASSUME NEW w
  PROVE  /\ w.na = TRUE => \A t : Input(t, w) = NA
         /\ w.na = FALSE =>
              /\ \A t \in {"BOOLEAN", "INTEGER", "BIGINT"} : Input(t, w) = Number(w.txt[1].at[1])
              /\ Input("DOUBLE PRECISION", w) = IF w = Inf THEN w ELSE Number(w.txt[1].at[1])
              /\ Input("TEXT", w) = w
              /\ Input("BYTEA", w) = Text(SubSeq(w.txt, 3, Len(w.txt)))
              /\ Input("DATE", w) = Number(DayNumber(w.txt[1].at))
              /\ Input("TIME", w) = IF Seconds(w.txt[1].at) \in TimesOfDay
                                    THEN Number(Seconds(w.txt[1].at)) ELSE Refused
<1>1. ASSUME w.na = TRUE, NEW t PROVE Input(t, w) = NA
  BY <1>1, Zenon DEF Input
<1>2. ASSUME w.na = FALSE
      PROVE  /\ Input("BOOLEAN", w) = Number(w.txt[1].at[1])
             /\ Input("INTEGER", w) = Number(w.txt[1].at[1])
             /\ Input("BIGINT", w) = Number(w.txt[1].at[1])
  BY <1>2, SMT DEF Input
<1>3. ASSUME w.na = FALSE
      PROVE  Input("DOUBLE PRECISION", w) = IF w = Inf THEN w ELSE Number(w.txt[1].at[1])
  BY <1>3, SMT DEF Input
<1>4. ASSUME w.na = FALSE
      PROVE  /\ Input("TEXT", w) = w
             /\ Input("BYTEA", w) = Text(SubSeq(w.txt, 3, Len(w.txt)))
             /\ Input("DATE", w) = Number(DayNumber(w.txt[1].at))
  BY <1>4, SMT DEF Input
<1>5. ASSUME w.na = FALSE
      PROVE  Input("TIME", w) = IF Seconds(w.txt[1].at) \in TimesOfDay
                                THEN Number(Seconds(w.txt[1].at)) ELSE Refused
  BY <1>5, SMT DEF Input
<1> QED
  BY <1>1, <1>2, <1>3, <1>4, <1>5

\* Through COPY, and as a parameter.
CopiedWell(k, v) ==
  LET x == AsText(k, v)  w == Input(DataType(k), x)
  IN x \in SqlValues /\ (w = Refused \/ IsKept(k, v, w))

LEMMA NothingIsCopied ==
  ASSUME NEW k \in Classes, NEW v, OfClass(k, v), Kept(k, v) = NA
  PROVE  CopiedWell(k, v) /\ AsText(k, v) = NA
<1>1. v = NA \/ (k = "double" /\ v = NaN)
  BY DEF Kept
<1>2. AsText(k, v) = NA
  BY <1>1, ValueShapes DEF AsText
<1>3. Input(DataType(k), NA) = NA
  BY ValueShapes, InputParts
<1>4. IsKept(k, v, NA)
  BY DEF IsKept, OfType
<1>5. NA \in SqlValues
  BY DEF SqlValues
<1> QED
  BY <1>2, <1>3, <1>4, <1>5 DEF CopiedWell

LEMMA NumbersAreCopied ==
  ASSUME NEW k \in {"logical", "integer", "integer64", "double"}, NEW v, OfClass(k, v),
         Kept(k, v) # NA
  PROVE  CopiedWell(k, v) /\ Input(DataType(k), AsText(k, v)) = v
<1>1. v # NA /\ Kept(k, v) = v /\ ~(k = "double" /\ v = NaN) /\ k \in Classes
  BY DEF Kept, Classes
<1>2. IsKept(k, v, v)
  BY <1>1, KeptHasType
<1>3. CASE k = "double" /\ v = Inf
  <2>1. v.na = FALSE
    BY <1>3 DEF Inf, Text
  <2>2. AsText(k, v) = v
    BY <1>1, <1>3, <2>1 DEF AsText
  <2>3. Input(DataType(k), v) = v
    BY <1>3, <2>1, InputParts DEF DataType
  <2>4. v \in SqlValues
    BY <1>3, FieldTexts DEF SqlValues, Inf
  <2> QED
    BY <1>2, <2>2, <2>3, <2>4 DEF CopiedWell
<1>4. CASE ~(k = "double" /\ v = Inf)
  <2> DEFINE x == Text(<<Opaque(<<v.num>>)>>)
  <2>1. v = Number(v.num) /\ v.num \in Int /\ v.na = FALSE
    <3>1. k = "logical" => v = Number(v.num) /\ v.num \in {0, 1} /\ v.na = FALSE
      BY <1>1, ClassParts, NumericParts
    <3>2. k = "integer" => v = Number(v.num) /\ v.num \in -IntMax..IntMax /\ v.na = FALSE
      BY <1>1, ClassParts, NumericParts
    <3>3. k = "integer64" => v = Number(v.num) /\ v.num \in -BigMax..BigMax /\ v.na = FALSE
      BY <1>1, ClassParts, NumericParts
    <3>4. k = "double" => v = Number(v.num) /\ v.num \in Int /\ v.na = FALSE
      BY <1>1, <1>4, ClassParts, NumericParts
    <3>5. \A n : n \in {0, 1} \/ n \in -IntMax..IntMax \/ n \in -BigMax..BigMax => n \in Int
      BY ValuesAssumption
    <3> QED
      BY <3>1, <3>2, <3>3, <3>4, <3>5
  <2>2. AsText(k, v) = x
    BY <1>1, <1>4, <2>1 DEF AsText
  <2>3. x.na = FALSE /\ x.txt = <<Opaque(<<v.num>>)>> /\ x # Inf
    BY ValueShapes
  <2>4. x \in SqlValues
    <3>1. <<Opaque(<<v.num>>)>> \in Seq(Symbols)
      BY <2>1, FieldTexts
    <3> QED
      BY <3>1 DEF SqlValues
  <2> HIDE DEF x
  <2>5. x.txt[1].at[1] = v.num
    BY <2>3, OpaqueParts
  <2>6. Input(DataType(k), x) = Number(v.num)
    <3>1. DataType(k) \in {"BOOLEAN", "INTEGER", "BIGINT", "DOUBLE PRECISION"}
      BY DEF DataType
    <3> QED
      BY <2>3, <2>5, <3>1, InputParts
  <2> QED
    BY <1>2, <2>1, <2>2, <2>4, <2>6 DEF CopiedWell
<1> QED
  BY <1>3, <1>4

LEMMA TextsAreCopied ==
  ASSUME NEW k \in {"character", "list"}, NEW v, OfClass(k, v), Kept(k, v) # NA
  PROVE  CopiedWell(k, v)
<1>1. v # NA /\ Kept(k, v) = v /\ k \in Classes
  BY DEF Kept, Classes
<1>2. IsKept(k, v, v)
  BY <1>1, KeptHasType
<1>3. CASE k = "character"
  <2>1. v = Text(v.txt) /\ v.txt \in Seq(Symbols) /\ v.na = FALSE
    BY <1>1, <1>3, ClassParts, TextualParts
  <2>2. AsText(k, v) = v
    BY <1>3, <2>1 DEF AsText
  <2>3. Input(DataType(k), v) = v
    BY <1>3, <2>1, InputParts DEF DataType
  <2>4. v \in SqlValues
    BY <2>1 DEF SqlValues
  <2> QED
    BY <1>2, <2>2, <2>3, <2>4 DEF CopiedWell
<1>4. CASE k = "list"
  <2>1. v = Text(v.txt) /\ v.txt \in Seq(Fields) /\ v.na = FALSE
    BY <1>1, <1>4, ClassParts, TextualParts
  <2> DEFINE u == <<BS, Char("x")>> \o v.txt
             x == Text(u)
  <2>2. AsText(k, v) = x
    BY <1>4, <2>1 DEF AsText
  <2>3. u \in Seq(Symbols) /\ SubSeq(u, 3, Len(u)) = v.txt
    BY <2>1, FieldTexts, BytesAreRead
  <2> HIDE DEF u
  <2>4. x.na = FALSE /\ x.txt = u
    BY ValueShapes
  <2>5. x \in SqlValues
    BY <2>3 DEF SqlValues
  <2> HIDE DEF x
  <2>6. Input(DataType(k), x) = v
    <3>1. Input("BYTEA", x) = Text(SubSeq(x.txt, 3, Len(x.txt)))
      BY <2>4, InputParts
    <3>2. Input("BYTEA", x) = v
      BY <2>1, <2>3, <2>4, <3>1
    <3> QED
      BY <1>4, <3>2 DEF DataType
  <2> QED
    BY <1>2, <2>2, <2>5, <2>6 DEF CopiedWell
<1> QED
  BY <1>3, <1>4

LEMMA DatesAreCopied ==
  ASSUME NEW k \in {"Date", "difftime"}, NEW v, OfClass(k, v), Kept(k, v) # NA
  PROVE  CopiedWell(k, v) /\ (k = "Date" => Input(DataType(k), AsText(k, v)) = v)
<1>1. v # NA /\ Kept(k, v) = v /\ k \in Classes
  BY DEF Kept, Classes
<1>2. v = Number(v.num) /\ v.na = FALSE /\ (k = "Date" => v.num \in Days) /\ (k = "difftime" => v.num \in Nat)
  BY <1>1, ClassParts, NumericParts
<1>3. CASE k = "Date"
  <2> DEFINE d == Date(v.num)
             x == Text(<<Opaque(d)>>)
  <2>1. d \in Seq(Int) /\ DayNumber(d) = v.num
    BY <1>2, <1>3, DateComesBack
  <2> HIDE DEF d
  <2>2. AsText(k, v) = x
    BY <1>2, <1>3 DEF AsText, d
  <2>3. x.na = FALSE /\ x.txt[1].at = d
    BY ValueShapes, OpaqueParts
  <2>4. x \in SqlValues
    BY <2>1, FieldTexts DEF SqlValues
  <2> HIDE DEF x
  <2>5. Input(DataType(k), x) = v
    BY <1>2, <1>3, <2>1, <2>3, InputParts DEF DataType
  <2>6. IsKept(k, v, v)
    BY <1>1, <1>3, KeptHasType
  <2> QED
    BY <1>3, <2>2, <2>4, <2>5, <2>6 DEF CopiedWell
<1>4. CASE k = "difftime"
  <2> DEFINE d == TimeOfDay(v.num)
             x == Text(<<Opaque(d)>>)
  <2>1. d \in Seq(Int) /\ Seconds(d) = v.num
    BY <1>2, <1>4, TimeComesBack, SMT
  <2> HIDE DEF d
  <2>2. AsText(k, v) = x
    BY <1>2, <1>4 DEF AsText, d
  <2>3. x.na = FALSE /\ x.txt[1].at = d
    BY ValueShapes, OpaqueParts
  <2>4. x \in SqlValues
    BY <2>1, FieldTexts DEF SqlValues
  <2> HIDE DEF x
  <2>5. Input("TIME", x) = IF v.num \in TimesOfDay THEN Number(v.num) ELSE Refused
    BY <2>1, <2>3, InputParts
  <2>6. CASE v.num \notin TimesOfDay
    BY <1>4, <2>2, <2>4, <2>5, <2>6 DEF CopiedWell, DataType
  <2>7. CASE v.num \in TimesOfDay
    <3>1. IsKept(k, v, v)
      BY <1>1, <2>7, KeptHasType
    <3> QED
      BY <1>2, <1>4, <2>2, <2>4, <2>5, <2>7, <3>1 DEF CopiedWell, DataType
  <2> QED
    BY <2>6, <2>7
<1> QED
  BY <1>3, <1>4

LEMMA TimesAreCopied ==
  ASSUME NEW v, OfClass("POSIXct", v), v # NA, zone \in Zones
  PROVE  CopiedWell("POSIXct", v)
<1>1. v = Number(v.num) /\ v.na = FALSE /\ v.num \in Int /\ Moment(v.num)
  BY ClassParts, NumericParts
<1>2. OnDay(v.num + zone * 60) /\ zone * 60 \in Int
  BY <1>1, DayShifts
<1> DEFINE m == v.num + zone * 60
           c == Clock(m) \o Offset(zone)
           x == Text(<<Opaque(c)>>)
<1>3. m - zone * 60 = v.num
  BY <1>1, <1>2
<1>4. /\ c \in Seq(Int)
      /\ ClockSeconds(SubSeq(c, 1, 6)) - OffsetSeconds(SubSeq(c, 7, 9)) = m - zone * 60
  <2>1. OnDay(m)
    BY <1>2
  <2> HIDE DEF m
  <2> QED
    BY <2>1, StampComesBack
<1> HIDE DEF c
<1>5. AsText("POSIXct", v) = x
  BY <1>1, ValueShapes DEF AsText, FormatTime, c
<1> HIDE DEF m
<1>6. x.na = FALSE /\ x.txt[1].at = c
  BY ValueShapes, OpaqueParts
<1>7. x \in SqlValues
  BY <1>4, FieldTexts DEF SqlValues
<1> HIDE DEF x
<1>8. Input("TIMESTAMPTZ", x) = v
  BY <1>1, <1>3, <1>4, <1>6 DEF Input
<1>9. IsKept("POSIXct", v, v)
  BY KeptHasType DEF Kept, Classes
<1> QED
  BY <1>5, <1>7, <1>8, <1>9 DEF CopiedWell, DataType

\* Every value is copied as itself, or refused.
LEMMA AllIsCopied ==
  ASSUME NEW k \in Classes, NEW v, OfClass(k, v), zone \in Zones
  PROVE  CopiedWell(k, v)
<1>1. CASE Kept(k, v) = NA
  BY <1>1, NothingIsCopied
<1>2. CASE Kept(k, v) # NA /\ k # "POSIXct"
  BY <1>2, NumbersAreCopied, TextsAreCopied, DatesAreCopied DEF Classes
<1>3. CASE Kept(k, v) # NA /\ k = "POSIXct"
  BY <1>3, TimesAreCopied DEF Kept
<1> QED
  BY <1>1, <1>2, <1>3

\* dbBind(): bytes are written in octal.
LEMMA AllIsBound ==
  ASSUME NEW k \in Classes, NEW v, OfClass(k, v), zone \in Zones
  PROVE  LET w == InputParameter(DataType(k), Parameter(k, v))
         IN w = Refused \/ IsKept(k, v, w)
<1>1. CASE k = "list" /\ v # NA
  <2>1. v = Text(v.txt) /\ v.na = FALSE
    BY <1>1, ClassParts, TextualParts
  <2>2. Parameter(k, v) = Text(<<Opaque(v.txt)>>)
    BY <1>1, <2>1 DEF Parameter
  <2>3. InputParameter("BYTEA", Text(<<Opaque(v.txt)>>)) = Text(<<Opaque(v.txt)>>[1].at)
    BY ValueShapes DEF InputParameter
  <2>4. InputParameter("BYTEA", Text(<<Opaque(v.txt)>>)) = v
    BY <2>1, <2>3, OpaqueParts
  <2>5. IsKept(k, v, v)
    <3>1. IsKept(k, v, Kept(k, v))
      BY <1>1, KeptHasType
    <3> QED
      BY <1>1, <3>1 DEF Kept
  <2> QED
    BY <1>1, <2>2, <2>4, <2>5 DEF DataType
<1>2. CASE ~(k = "list" /\ v # NA)
  <2>1. Parameter(k, v) = AsText(k, v)
    BY <1>2, ValueShapes DEF Parameter
  <2>2. k = "list" => AsText(k, v) = NA
    BY <1>2, ValueShapes DEF AsText
  <2>3. DataType(k) = "BYTEA" => k = "list"
    BY DEF DataType, Classes
  <2>4. InputParameter(DataType(k), AsText(k, v)) = Input(DataType(k), AsText(k, v))
    BY <2>2, <2>3, ValueShapes DEF InputParameter
  <2> QED
    BY <2>1, <2>4, AllIsCopied DEF CopiedWell
<1> QED
  BY <1>1, <1>2

-----------------------------------------------------------------------------
(* Literals.                                                               *)

\* Quotes is the module that Quoting is about.
LEMMA SameQuotes ==
  /\ \A s : Q!QuoteString(s) = L!QuoteString(s)
  /\ \A t : Q!ServerString(t, FALSE) = L!ServerString(t, FALSE)
<1>1. \A s : Q!QuoteString(s) = L!QuoteString(s)
  <2>1. \A s, special : Q!Doubled(s, special) = L!Doubled(s, special)
    <3>1. \A s : Q!FlattenSeq(s) = L!FlattenSeq(s)
      BY DEF Q!FlattenSeq, L!FlattenSeq
    <3> QED
      BY <3>1, Zenon DEF Q!Doubled, L!Doubled
  <2> QED
    BY <2>1, Zenon DEF Q!QuoteString, L!QuoteString
<1>2. \A t : Q!ServerString(t, FALSE) = L!ServerString(t, FALSE)
  BY Zenon DEF Q!ServerString, L!ServerString, Q!Reading, L!Reading, Q!StringReads, L!StringReads,
               Q!Extend, L!Extend, Q!Bad, L!Bad
<1> QED
  BY <1>1, <1>2

LEMMA LettersAreRead ==
  ASSUME NEW s \in Seq(Symbols)
  PROVE  ReadString(Quote(s)) = s
<1>1. L!ServerString(L!QuoteString(s), FALSE) = s
  BY Hold, L!QuotedIsRead
<1> QED
  BY <1>1, SameQuotes, Zenon DEF Quote, ReadString

\* E'\\x...': the server reads one backslash.
LEMMA HexIsDoubled ==
  ASSUME NEW s \in Seq(Fields)
  PROVE  L!Doubled(<<BS, Char("x")>> \o s, {SQ, BS}) = <<BS, BS, Char("x")>> \o s
<1> DEFINE h == <<BS, Char("x")>>
           hh == <<BS, BS, Char("x")>>
           two == {SQ, BS}
           Good == {u \in Seq(Fields) : L!Doubled(h \o u, two) = hh \o u}
<1>1. h \in Seq(Symbols) /\ hh \in Seq(Symbols) /\ <<BS>> \in Seq(Symbols) /\ <<>> \in Seq(Symbols)
      /\ BS \in Symbols /\ Char("x") \in Symbols /\ two \subseteq Symbols
  BY Special
<1>2. Fields \subseteq Symbols /\ \A c \in Fields : c \notin two
  <2>1. SQ.ch = "sq" /\ BS.ch = "bs"
    BY DEF SQ, BS, Char
  <2> QED
    BY <2>1 DEF Fields, Symbols
<1>3. Char("x") \notin two
  <2>1. SQ.ch = "sq" /\ BS.ch = "bs" /\ Char("x").ch = "x"
    BY DEF SQ, BS, Char
  <2> QED
    BY <2>1
<1>4. L!Doubled(h, two) = hh
  <2>1. L!Doubled(<<>>, two) = <<>>
    BY Hold, L!DoubledGrows
  <2>2. L!Twice(BS, two) = <<BS, BS>> /\ L!Twice(Char("x"), two) = <<Char("x")>>
    BY <1>3 DEF L!Twice
  <2> HIDE DEF two
  <2>3. /\ L!Doubled(Append(<<>>, BS), two) = L!Doubled(<<>>, two) \o L!Twice(BS, two)
        /\ L!Doubled(Append(<<BS>>, Char("x")), two) = L!Doubled(<<BS>>, two) \o L!Twice(Char("x"), two)
    BY <1>1, Hold, L!DoubledGrows
  <2>4. Append(<<>>, BS) = <<BS>> /\ <<>> \o <<BS, BS>> = <<BS, BS>>
    OBVIOUS
  <2>5. Append(<<BS>>, Char("x")) = h
    <3>1. \A a, b : Append(<<a>>, b) = <<a, b>>
      BY Hold, L!TwoElements
    <3> QED
      BY <3>1
  <2>6. <<BS, BS>> \o <<Char("x")>> = hh
    <3>1. \A a, b, c : <<a, b>> \o <<c>> = <<a, b, c>>
      BY Hold, L!ThreeElements
    <3> QED
      BY <3>1
  <2> HIDE DEF h, hh
  <2> QED
    BY <2>1, <2>2, <2>3, <2>4, <2>5, <2>6
<1> HIDE DEF h, hh, two
<1>5. <<>> \in Good
  BY <1>1, <1>4
<1>6. ASSUME NEW u \in Good, NEW c \in Fields PROVE Append(u, c) \in Good
  <2>1. u \in Seq(Symbols) /\ c \in Symbols /\ c \notin two /\ h \o u \in Seq(Symbols)
    BY <1>1, <1>2
  <2>2. h \o Append(u, c) = Append(h \o u, c) /\ hh \o Append(u, c) = Append(hh \o u, c)
    BY <1>1, <2>1
  <2>3. L!Doubled(Append(h \o u, c), two) = L!Doubled(h \o u, two) \o L!Twice(c, two)
    BY <1>1, <2>1, Hold, L!DoubledGrows
  <2>4. L!Twice(c, two) = <<c>>
    BY <2>1 DEF L!Twice
  <2>5. (hh \o u) \o <<c>> = Append(hh \o u, c)
    BY <1>1, <2>1
  <2>6. L!Doubled(h \o u, two) = hh \o u /\ Append(u, c) \in Seq(Fields)
    BY <1>6
  <2>7. L!Doubled(h \o Append(u, c), two) = hh \o Append(u, c)
    BY <2>2, <2>3, <2>4, <2>5, <2>6
  <2> QED
    BY <2>6, <2>7
<1>7. s \in Good
  BY <1>5, <1>6, AllSequences
<1> QED
  BY <1>7 DEF h, hh, two

LEMMA HexIsRead ==
  ASSUME NEW s \in Seq(Fields)
  PROVE  ReadString(<<Char("E"), SQ, BS, BS, Char("x")>> \o s \o <<SQ>>)
           = <<BS, Char("x")>> \o s
<1> DEFINE h == <<BS, Char("x")>> \o s
           start == L!StringStart(FALSE)
           t == <<Char("E"), SQ>>
           d == L!Doubled(h, {SQ, BS})
           lit == <<Char("E"), SQ, BS, BS, Char("x")>> \o s \o <<SQ>>
           inside == [last |-> <<>>, mode |-> "in", escapes |-> TRUE]
           closed == [last |-> h, mode |-> "closed", escapes |-> TRUE]
<1>1. h \in Seq(Symbols) /\ s \in Seq(Symbols) /\ <<BS, BS, Char("x")>> \in Seq(Symbols)
      /\ <<SQ>> \in Seq(Symbols) /\ t \in Seq(Symbols) /\ <<Char("E")>> \in Seq(Symbols)
  BY Special, FieldTexts
<1>2. d = <<BS, BS, Char("x")>> \o s
  BY HexIsDoubled
<1>3. lit = t \o (d \o <<SQ>>)
  <2> DEFINE hh == <<BS, BS, Char("x")>>
             all == <<Char("E"), SQ, BS, BS, Char("x")>>
  <2>1. all = t \o hh
    <3>1. all \in Seq(Symbols) /\ t \o hh \in Seq(Symbols) /\ Len(all) = 5 /\ Len(t \o hh) = 5
      BY Special, <1>1
    <3>2. /\ all[1] = (t \o hh)[1] /\ all[2] = (t \o hh)[2] /\ all[3] = (t \o hh)[3]
          /\ all[4] = (t \o hh)[4] /\ all[5] = (t \o hh)[5]
      OBVIOUS
    <3> HIDE DEF t, hh, all
    <3>3. \A i \in 1..5 : i = 1 \/ i = 2 \/ i = 3 \/ i = 4 \/ i = 5
      OBVIOUS
    <3>4. \A i \in 1..5 : all[i] = (t \o hh)[i]
      BY <3>2, <3>3
    <3> QED
      BY <3>1, <3>4, SeqEqual
  <2>2. hh \in Seq(Symbols) /\ t \in Seq(Symbols) /\ s \in Seq(Symbols) /\ <<SQ>> \in Seq(Symbols)
    BY <1>1
  <2> HIDE DEF t, hh, all, d
  <2>3. (t \o hh) \o s \o <<SQ>> = t \o ((hh \o s) \o <<SQ>>)
    <3>1. hh \o s \in Seq(Symbols) /\ t \o hh \in Seq(Symbols)
      BY <2>2
    <3>2. (t \o hh) \o s = t \o (hh \o s)
      BY <2>2, ConcatAssociative
    <3>3. (t \o (hh \o s)) \o <<SQ>> = t \o ((hh \o s) \o <<SQ>>)
      BY <2>2, <3>1, ConcatAssociative
    <3> QED
      BY <3>2, <3>3
  <2> QED
    BY <1>2, <2>1, <2>3 DEF hh, all
<1> HIDE DEF d, lit
<1>4. start \in L!StringStates
  BY DEF L!StringStart, L!StringStates
<1>5. L!StringState(start, t) = inside
  <2> DEFINE prefix == [last |-> <<>>, mode |-> "prefix", escapes |-> TRUE]
  <2>1. L!StringReads(start, Char("E")) = prefix /\ L!StringReads(prefix, SQ) = inside
    BY Hold, L!Specials DEF L!StringReads, L!StringStart
  <2>2. <<>> \in Seq(Symbols) /\ Char("E") \in Symbols /\ SQ \in Symbols
    BY Special
  <2> HIDE DEF start, prefix, inside
  <2>3. L!StringState(start, <<>>) = start
    BY <1>4, Hold, L!StringReading
  <2>4. L!StringState(start, Append(<<>>, Char("E"))) = L!StringReads(L!StringState(start, <<>>), Char("E"))
    BY <1>4, <2>2, Hold, L!StringReading
  <2> DEFINE e == <<Char("E")>>
  <2>5. Append(<<>>, Char("E")) = e /\ Append(e, SQ) = t /\ e \in Seq(Symbols)
    BY <2>2, Hold, L!TwoElements
  <2> HIDE DEF e
  <2>6. L!StringState(start, Append(e, SQ)) = L!StringReads(L!StringState(start, e), SQ)
    <3>1. \A r \in Seq(Symbols), c \in Symbols :
            L!StringState(start, Append(r, c)) = L!StringReads(L!StringState(start, r), c)
      BY <1>4, Hold, L!StringReading
    <3> QED
      BY <2>2, <2>5, <3>1
  <2> HIDE DEF t
  <2> QED
    BY <2>1, <2>3, <2>4, <2>5, <2>6
<1>6. L!StringState(start, t \o (d \o <<SQ>>)) = closed
  <2> HIDE DEF start, t, h
  <2> QED
    BY <1>1, <1>4, <1>5, Hold, L!LiteralIsRead DEF d
<1>7. L!Reading(L!StringReads, [last |-> <<>>, mode |-> "start", escapes |-> FALSE], lit) = closed
  BY <1>3, <1>6, Zenon DEF L!StringState, L!StringStart
<1>8. closed.last = h /\ closed.mode = "closed"
  OBVIOUS
<1> HIDE DEF closed, h
<1>9. L!ServerString(lit, FALSE) = h
  BY <1>7, <1>8, Zenon DEF L!ServerString
<1> QED
  <2>1. ReadString(lit) = L!ServerString(lit, FALSE)
    BY SameQuotes, Zenon DEF ReadString
  <2> QED
    BY <1>9, <2>1 DEF lit, h

\* INSERT.
EvaluatedWell(k, v) ==
  LET w == Evaluate(DataType(k), Literal(k, v))
  IN w = Refused \/ IsKept(k, v, w) \/ (how = "insert" => Misread(k, v))

LEMMA NothingIsInserted ==
  ASSUME NEW k \in Classes, NEW v, OfClass(k, v), Kept(k, v) = NA
  PROVE  EvaluatedWell(k, v)
<1>1. v = NA \/ (k = "double" /\ v = NaN)
  BY DEF Kept
<1>2. Literal(k, v) = NA
  BY <1>1, ValueShapes DEF Literal
<1>3. Evaluate(DataType(k), NA) = NA
  BY ValueShapes DEF Evaluate
<1>4. IsKept(k, v, NA)
  BY DEF IsKept, OfType
<1> QED
  BY <1>2, <1>3, <1>4 DEF EvaluatedWell

LEMMA NumbersAreInserted ==
  ASSUME NEW k \in {"logical", "integer", "integer64", "double", "Date"}, NEW v, OfClass(k, v),
         Kept(k, v) # NA
  PROVE  EvaluatedWell(k, v)
<1>1. v # NA /\ Kept(k, v) = v /\ ~(k = "double" /\ v = NaN) /\ k \in Classes
  BY DEF Kept, Classes
<1>2. IsKept(k, v, v)
  BY <1>1, KeptHasType
<1>3. Input(DataType(k), AsText(k, v)) = v
  BY NumbersAreCopied, DatesAreCopied
<1>4. v.na = FALSE
  <2>1. v = Inf \/ v = Number(v.num)
    BY <1>1, ClassParts, NumericParts
  <2>2. Inf.na = FALSE
    BY DEF Inf, Text
  <2> QED
    BY <2>1, <2>2, ValueShapes
<1>5. Literal(k, v) = AsText(k, v)
  BY <1>1, <1>4 DEF Literal
<1>6. DataType(k) \in {"BOOLEAN", "INTEGER", "BIGINT", "DOUBLE PRECISION", "DATE"}
  BY DEF DataType
<1>7. AsText(k, v).na = FALSE
  <2>1. CASE AsText(k, v) = v
    BY <1>4, <2>1
  <2>2. CASE AsText(k, v) # v
    BY <1>1, <1>4, <2>2, ValueShapes DEF AsText
  <2> QED
    BY <2>1, <2>2
<1> DEFINE w == Evaluate(DataType(k), AsText(k, v))
<1>8. w = Refused \/ w = Input(DataType(k), AsText(k, v))
  BY <1>6, <1>7 DEF Evaluate
<1> HIDE DEF w
<1>9. w = Refused \/ IsKept(k, v, w)
  BY <1>2, <1>3, <1>8
<1> QED
  BY <1>5, <1>9 DEF EvaluatedWell, w

LEMMA TextsAreInserted ==
  ASSUME NEW k \in {"character", "list"}, NEW v, OfClass(k, v), Kept(k, v) # NA
  PROVE  EvaluatedWell(k, v)
<1>1. v # NA /\ Kept(k, v) = v /\ k \in Classes
  BY DEF Kept, Classes
<1>2. IsKept(k, v, v)
  BY <1>1, KeptHasType
<1>3. CASE k = "character"
  <2>1. v = Text(v.txt) /\ v.txt \in Seq(Symbols) /\ v.na = FALSE
    BY <1>1, <1>3, ClassParts, TextualParts
  <2> DEFINE x == Text(Quote(v.txt))
  <2>2. Literal(k, v) = x
    BY <1>3, <2>1 DEF Literal
  <2>3. x.na = FALSE /\ x.txt = Quote(v.txt)
    BY ValueShapes
  <2>4. ReadString(x.txt) = v.txt
    BY <2>1, <2>3, LettersAreRead
  <2> HIDE DEF x
  <2>5. v # Refused
    BY <2>1, TextIsNoError
  <2>6. Evaluate("TEXT", x) = LET s == Text(ReadString(x.txt))
                              IN IF s = Refused THEN Refused ELSE Input("TEXT", s)
    BY <2>3 DEF Evaluate
  <2>7. Evaluate("TEXT", x) = Input("TEXT", v)
    BY <2>1, <2>4, <2>5, <2>6
  <2>8. Input("TEXT", v) = v
    BY <2>1, InputParts
  <2> QED
    BY <1>2, <1>3, <2>2, <2>7, <2>8 DEF EvaluatedWell, DataType
<1>4. CASE k = "list"
  <2>1. v = Text(v.txt) /\ v.txt \in Seq(Fields) /\ v.na = FALSE
    BY <1>1, <1>4, ClassParts, TextualParts
  <2> DEFINE lit == <<Char("E"), SQ, BS, BS, Char("x")>> \o v.txt \o <<SQ>>
             u == <<BS, Char("x")>> \o v.txt
             x == Text(lit)
             y == Text(u)
  <2>2. Literal(k, v) = x
    BY <1>4, <2>1 DEF Literal
  <2>3. ReadString(lit) = u
    BY <2>1, HexIsRead
  <2>4. u \in Seq(Symbols) /\ SubSeq(u, 3, Len(u)) = v.txt
    BY <2>1, FieldTexts, BytesAreRead
  <2> HIDE DEF lit, u
  <2>5. x.na = FALSE /\ x.txt = lit /\ y.na = FALSE /\ y.txt = u
    BY ValueShapes
  <2>6. y # Refused
    BY <2>4, TextIsNoError
  <2> HIDE DEF x
  <2>7. Evaluate("BYTEA", x) = LET s == Text(ReadString(x.txt))
                               IN IF s = Refused THEN Refused ELSE Input("BYTEA", s)
    BY <2>5 DEF Evaluate
  <2>8. Evaluate("BYTEA", x) = Input("BYTEA", y)
    BY <2>3, <2>5, <2>6, <2>7
  <2> HIDE DEF y
  <2>9. Input("BYTEA", y) = Text(SubSeq(y.txt, 3, Len(y.txt)))
    BY <2>5, InputParts
  <2>10. Input("BYTEA", y) = v
    BY <2>1, <2>4, <2>5, <2>9
  <2> QED
    BY <1>2, <1>4, <2>2, <2>8, <2>10 DEF EvaluatedWell, DataType
<1> QED
  BY <1>3, <1>4

LEMMA TimesAreInserted ==
  ASSUME NEW v, OfClass("POSIXct", v), v # NA, zone \in Zones
  PROVE  EvaluatedWell("POSIXct", v)
<1>1. v = Number(v.num) /\ v.na = FALSE /\ v.num \in Int /\ Moment(v.num)
  BY ClassParts, NumericParts
<1>2. OnDay(v.num + zone * 60) /\ zone * 60 \in Int
  BY <1>1, DayShifts
<1>3. CASE zone # serverZone
  <2>1. how = "insert" => Misread("POSIXct", v)
    BY <1>3 DEF Misread
  <2> QED
    BY <2>1 DEF EvaluatedWell
<1>4. CASE zone = serverZone
  <2> DEFINE m == v.num + zone * 60
             c == Clock(m)
             x == Text(<<Opaque(c)>>)
  <2>1. ClockSeconds(c) = m
    <3>1. OnDay(m)
      BY <1>2
    <3> HIDE DEF m
    <3> QED
      BY <3>1, ClockComesBack
  <2>2. m - serverZone * 60 = v.num
    BY <1>1, <1>2, <1>4
  <2> HIDE DEF c
  <2>3. Literal("POSIXct", v) = x
    BY <1>1, ValueShapes DEF Literal, c
  <2> HIDE DEF m
  <2>4. x.na = FALSE /\ x.txt[1].at = c
    BY ValueShapes, OpaqueParts
  <2> HIDE DEF x
  <2>5. Evaluate("TIMESTAMPTZ", x) = Number(ClockSeconds(x.txt[1].at) - serverZone * 60)
    BY <2>4 DEF Evaluate
  <2>6. Evaluate("TIMESTAMPTZ", x) = v
    BY <1>1, <2>1, <2>2, <2>4, <2>5
  <2>7. IsKept("POSIXct", v, v)
    BY KeptHasType DEF Kept, Classes
  <2> QED
    BY <2>3, <2>6, <2>7 DEF EvaluatedWell, DataType
<1> QED
  BY <1>3, <1>4

LEMMA BeforeMidnight ==
  ASSUME NEW n \in Nat, ~(n >= Midnight)
  PROVE  n % Midnight = n /\ n \in TimesOfDay
<1>1. n \in Int /\ 0 <= n /\ n < Midnight /\ Midnight \in Int
  BY SMT DEF Midnight
<1>2. n % Midnight = n
  BY <1>1, SMT DEF Midnight
<1>3. n \in TimesOfDay
  BY <1>1, SMT DEF TimesOfDay
<1> QED
  BY <1>2, <1>3

LEMMA DifferencesAreInserted ==
  ASSUME NEW v, OfClass("difftime", v), v # NA
  PROVE  EvaluatedWell("difftime", v)
<1>1. v = Number(v.num) /\ v.na = FALSE /\ v.num \in Nat
  BY ClassParts, NumericParts
<1> DEFINE d == TimeOfDay(v.num)
           x == Text(<<Opaque(d)>>)
<1>2. Seconds(d) = v.num
  BY <1>1, TimeComesBack, SMT
<1> HIDE DEF d
<1>3. Literal("difftime", v) = x
  BY <1>1, ValueShapes DEF Literal, AsText, d
<1>4. x.na = FALSE /\ x.txt[1].at = d
  BY ValueShapes, OpaqueParts
<1> HIDE DEF x
<1>5. Evaluate("TIME", x) = Number(Seconds(x.txt[1].at) % Midnight)
  BY <1>4 DEF Evaluate
<1>6. CASE v.num >= Midnight
  <2>1. how = "insert" => Misread("difftime", v)
    BY <1>6 DEF Misread
  <2> QED
    BY <2>1 DEF EvaluatedWell
<1>7. CASE ~(v.num >= Midnight)
  <2>2. v.num % Midnight = v.num /\ v.num \in TimesOfDay
    BY <1>1, <1>7, BeforeMidnight
  <2>3. Evaluate("TIME", x) = v
    BY <1>1, <1>2, <1>4, <1>5, <2>2, SMT
  <2>4. IsKept("difftime", v, v)
    BY <2>2, KeptHasType, SMT DEF Kept, Classes
  <2> QED
    BY <1>3, <2>3, <2>4 DEF EvaluatedWell, DataType
<1> QED
  BY <1>6, <1>7, SMT

LEMMA AllIsInserted ==
  ASSUME NEW k \in Classes, NEW v, OfClass(k, v), zone \in Zones
  PROVE  EvaluatedWell(k, v)
<1>1. CASE Kept(k, v) = NA
  BY <1>1, NothingIsInserted
<1>2. CASE Kept(k, v) # NA /\ k \notin {"POSIXct", "difftime"}
  BY <1>2, NumbersAreInserted, TextsAreInserted DEF Classes
<1>3. CASE Kept(k, v) # NA /\ k \in {"POSIXct", "difftime"}
  <2>1. v # NA
    BY <1>3 DEF Kept
  <2> QED
    BY <1>3, <2>1, TimesAreInserted, DifferencesAreInserted
<1> QED
  BY <1>1, <1>2, <1>3

-----------------------------------------------------------------------------
(* Tables of other clients.                                                *)

Faithful(t, v, x) ==
  IF x.na THEN v.na \/ (t = "INTEGER" /\ Abs(v.num) > IntMax)
                    \/ (t = "BIGINT" /\ Abs(v.num) > BigMax)
                    \/ (t = "BIGINT" /\ Bigint = "integer" /\ Abs(v.num) > IntMax)
  ELSE ~v.na /\ IF t = "TIMESTAMP" THEN Clock(x.num + zone * 60) = Clock(v.num) ELSE x = v

LEMMA SeenIsFaithful ==
  ASSUME NEW t \in SqlTypes, NEW v, OfType(t, v), zone \in Zones
  PROVE  Faithful(t, v, Seen(t, v))
<1>1. CASE v = NA
  BY <1>1, ValueShapes DEF Faithful, Seen
<1>2. CASE v # NA /\ t \in {"INTEGER", "BIGINT"}
  <2> DEFINE max == IF t = "INTEGER" THEN IntMax ELSE BigMax
  <2>1. v = Number(v.num) /\ v.na = FALSE /\ v.num \in (-max - 1)..max
    <3>1. t = "INTEGER" => v = Number(v.num) /\ v.na = FALSE /\ v.num \in (-IntMax - 1)..IntMax
      BY <1>2, TypeParts, NumericParts
    <3>2. t = "BIGINT" => v = Number(v.num) /\ v.na = FALSE /\ v.num \in (-BigMax - 1)..BigMax
      BY <1>2, TypeParts, NumericParts
    <3> QED
      BY <1>2, <3>1, <3>2
  <2>2. v.num = -max - 1 => Abs(v.num) > max
    BY ValuesAssumption DEF Abs
  <2>3. IntegerOf(v.num, max) = IF v.num = -max - 1 THEN NA ELSE v
    BY <2>1 DEF IntegerOf
  <2>4. CASE t = "INTEGER"
    BY <1>2, <2>1, <2>2, <2>3, <2>4, ValueShapes DEF Seen, Faithful
  <2>5. CASE t = "BIGINT" /\ v.num = -max - 1
    <3>1. Seen(t, v) = NA
      BY <1>2, <2>3, <2>5, ValueShapes DEF Seen, ConvertBigint
    <3> QED
      BY <2>2, <2>5, <3>1, ValueShapes DEF Faithful
  <2>6. CASE t = "BIGINT" /\ v.num # -max - 1
    <3>1. Seen(t, v) = ConvertBigint(v)
      BY <1>2, <2>3, <2>6 DEF Seen
    <3> QED
      BY <2>1, <2>6, <3>1, ValueShapes DEF Faithful, ConvertBigint
  <2> QED
    BY <1>2, <2>4, <2>5, <2>6
<1>3. CASE v # NA /\ t = "TIMESTAMP"
  <2>1. v = Number(v.num) /\ v.na = FALSE /\ v.num \in Int
    BY <1>3, TypeParts, NumericParts
  <2>2. zone * 60 \in Int
    BY OffsetComesBack
  <2>3. (v.num - zone * 60) + zone * 60 = v.num
    BY <2>1, <2>2
  <2>4. Seen(t, v) = Number(v.num - zone * 60)
    BY <1>3 DEF Seen
  <2>5. Seen(t, v).na = FALSE /\ Seen(t, v).num = v.num - zone * 60
    BY <2>4, ValueShapes
  <2> QED
    BY <1>3, <2>1, <2>3, <2>5 DEF Faithful
<1>4. CASE v # NA /\ t \notin {"INTEGER", "BIGINT", "TIMESTAMP"}
  <2>1. v.na = FALSE
    <3>1. Numeric(v, {0, 1}) \/ v \in {NaN, Inf} \/ Numeric(v, Int) \/ Textual(v, Symbols)
          \/ Textual(v, Fields) \/ Numeric(v, Days) \/ Numeric(v, TimesOfDay)
      BY <1>4, TypeParts DEF SqlTypes
    <3>2. NaN.na = FALSE /\ Inf.na = FALSE
      BY DEF NaN, Inf, Text
    <3> QED
      BY <3>1, <3>2, NumericParts, TextualParts
  <2>2. Seen(t, v) = v
    BY <1>4 DEF Seen
  <2> QED
    BY <1>4, <2>1, <2>2 DEF Faithful
<1> QED
  BY <1>1, <1>2, <1>3, <1>4

-----------------------------------------------------------------------------
(* The invariant.                                                          *)

IsSequence(s) == Len(s) \in Nat /\ s = [i \in 1..Len(s) |-> s[i]]

\* A value in the table, and one that has been fetched.
WrittenCell(k, v, w) == IsKept(k, v, w) \/ Misread(k, v)
ReadCell(k, v, x) == x = Expected(k, v) \/ Misread(k, v)

\* A value as the server has received it.
TextCell(k, v, x) == Input(DataType(k), x) = Refused \/ IsKept(k, v, Input(DataType(k), x))

\* The rows that have arrived are those that have been sent.
Arrived(rows) ==
  /\ IsSequence(rows) /\ Len(rows) = sent
  /\ \A i \in 1..sent :
       /\ DOMAIN rows[i] = DOMAIN kinds
       /\ \A j \in DOMAIN kinds : TextCell(kinds[j], frame[i][j], rows[i][j])

GivenInv ==
  /\ how \in {"copy", "insert", "bind"}
  /\ kinds \in Shapes
  /\ zone \in Zones /\ serverZone \in Zones
  /\ frame \in Seq(Rows(kinds))

Beginning == pc = "R" /\ sent = 0 /\ stream = <<>> /\ table = <<>> /\ out = <<>>

CopyInv ==
  /\ pc = "copying" /\ types = Types /\ table = <<>> /\ out = <<>>
  /\ sent \in 0..Len(frame)
  /\ stream \in Seq(Symbols)
  /\ \E rows : CopyState(stream) = Copying(rows, <<>>, <<>>, <<>>) /\ Arrived(rows)

OwnTable(rows) ==
  /\ IsSequence(rows) /\ Len(rows) = Len(frame)
  /\ \A i \in DOMAIN frame :
       /\ DOMAIN rows[i] = DOMAIN kinds
       /\ \A j \in DOMAIN kinds : WrittenCell(kinds[j], frame[i][j], rows[i][j])

OwnInv ==
  /\ pc \in {"stored", "done"} /\ types = Types
  /\ OwnTable(table)
  /\ IsSequence(out) /\ Len(out) <= Len(table) /\ (pc = "done" => Len(out) = Len(table))
  /\ \A i \in 1..Len(out) : \A j \in DOMAIN kinds : ReadCell(kinds[j], frame[i][j], out[i][j])

OtherInv ==
  /\ pc \in {"stored", "done"} /\ sent = 0 /\ frame = <<>>
  /\ \E f \in Foreign :
       /\ types = <<f[1]>> /\ table = << <<f[2]>> >>
       /\ IsSequence(out) /\ Len(out) <= 1 /\ (pc = "done" => Len(out) = 1)
       /\ Len(out) = 1 => Faithful(f[1], f[2], out[1][1])

IInv ==
  /\ GivenInv
  /\ Beginning \/ CopyInv \/ OwnInv \/ OtherInv \/ pc = "failed"

LEMMA SequenceFacts ==
  /\ \A S : \A s \in Seq(S) : IsSequence(s) /\ DOMAIN s = 1..Len(s)
  /\ \A s : IsSequence(s) => \E S : s \in Seq(S)
<1>1. ASSUME NEW S, NEW s \in Seq(S) PROVE IsSequence(s) /\ DOMAIN s = 1..Len(s)
  <2>1. Len(s) \in Nat /\ s \in [1..Len(s) -> S]
    OBVIOUS
  <2> QED
    BY <2>1 DEF IsSequence
<1>2. ASSUME NEW s, IsSequence(s) PROVE \E S : s \in Seq(S)
  <2> DEFINE n == Len(s)
             S == {s[i] : i \in 1..n}
             f == [i \in 1..n |-> s[i]]
  <2>1. n \in Nat /\ s = f
    BY <1>2 DEF IsSequence
  <2>2. f \in [1..n -> S]
    OBVIOUS
  <2> HIDE DEF f, S, n
  <2>3. f \in Seq(S)
    BY <2>1, <2>2
  <2> QED
    BY <2>1, <2>3
<1> QED
  BY <1>1, <1>2

LEMMA OneMore ==
  ASSUME NEW s, IsSequence(s), NEW x
  PROVE  LET t == Append(s, x)
         IN /\ IsSequence(t) /\ Len(t) = Len(s) + 1 /\ t[Len(s) + 1] = x
            /\ \A i \in 1..Len(s) : t[i] = s[i]
<1>1. PICK S : s \in Seq(S)
  BY SequenceFacts
<1> DEFINE T == S \cup {x}
           t == Append(s, x)
<1>2. s \in Seq(T) /\ x \in T
  BY <1>1
<1> HIDE DEF T
<1>3. /\ t \in Seq(T) /\ Len(t) = Len(s) + 1 /\ t[Len(s) + 1] = x
      /\ \A i \in 1..Len(s) : t[i] = s[i]
  BY <1>2, AppendProperties
<1> HIDE DEF t
<1> QED
  BY <1>3, SequenceFacts DEF t

\* The data frame.
LEMMA FrameCells ==
  ASSUME GivenInv
  PROVE  /\ kinds \in Seq(Classes) /\ kinds # <<>>
         /\ Len(frame) \in Nat /\ DOMAIN frame = 1..Len(frame)
         /\ \A j \in DOMAIN kinds : kinds[j] \in Classes
         /\ \A i \in DOMAIN frame : \A j \in DOMAIN kinds : OfClass(kinds[j], frame[i][j])
<1>1. kinds \in Seq(Classes) /\ kinds # <<>>
  BY ValuesAssumption DEF GivenInv
<1>2. \A j \in DOMAIN kinds : kinds[j] \in Classes
  BY <1>1
<1>3. Len(frame) \in Nat /\ DOMAIN frame = 1..Len(frame) /\ \A i \in DOMAIN frame : frame[i] \in Rows(kinds)
  <2> DEFINE S == Rows(kinds)
  <2>1. frame \in Seq(S)
    BY DEF GivenInv
  <2> HIDE DEF S
  <2> QED
    BY <2>1 DEF S
<1>4. ASSUME NEW i \in DOMAIN frame, NEW j \in DOMAIN kinds PROVE OfClass(kinds[j], frame[i][j])
  <2>1. frame[i][j] \in Domain[kinds[j]]
    BY <1>3 DEF Rows
  <2> QED
    BY <1>2, <2>1, ValuesAssumption
<1> QED
  BY <1>1, <1>2, <1>3, <1>4

\* What is stored is a table of the values that were sent.
LEMMA StoreKeeps ==
  ASSUME GivenInv, NEW rows, DOMAIN rows = DOMAIN frame, IsSequence(rows), Len(rows) = Len(frame),
         \A i \in DOMAIN frame :
           /\ DOMAIN rows[i] = DOMAIN kinds
           /\ \A j \in DOMAIN kinds : rows[i][j] = Refused \/ WrittenCell(kinds[j], frame[i][j], rows[i][j]),
         Store(rows)
  PROVE  pc' = "failed" \/ (pc' = "stored" /\ table' = rows /\ OwnTable(rows))
<1>1. CASE \E i \in DOMAIN rows : \E j \in DOMAIN rows[i] : rows[i][j] = Refused
  BY <1>1, Zenon DEF Store
<1>2. CASE \A i \in DOMAIN rows : \A j \in DOMAIN rows[i] : rows[i][j] # Refused
  <2>1. pc' = "stored" /\ table' = rows
    BY <1>2, Zenon DEF Store
  <2>2. OwnTable(rows)
    BY <1>2 DEF OwnTable
  <2> QED
    BY <2>1, <2>2
<1> QED
  BY <1>1, <1>2

\* A table of the values of a row for each row of the data frame.
LEMMA TableOf ==
  ASSUME GivenInv, NEW e
  PROVE  LET rows == [i \in DOMAIN frame |-> e[i]]
         IN DOMAIN rows = DOMAIN frame /\ IsSequence(rows) /\ Len(rows) = Len(frame)
<1> DEFINE n == Len(frame)
           f == [i \in 1..n |-> e[i]]
<1>1. n \in Nat /\ DOMAIN frame = 1..n
  BY FrameCells
<1> HIDE DEF n
<1>2. DOMAIN f = 1..n /\ Len(f) = n /\ \A i \in 1..n : f[i] = e[i]
  BY <1>1
<1>3. f = [i \in 1..n |-> f[i]]
  BY <1>2
<1>4. IsSequence(f)
  BY <1>1, <1>2, <1>3 DEF IsSequence
<1> QED
  BY <1>1, <1>2, <1>4 DEF n

-----------------------------------------------------------------------------
(* The steps.                                                              *)

TextRow(i) == [j \in DOMAIN kinds |-> AsText(kinds[j], frame[i][j])]

LEMMA TextRows ==
  ASSUME GivenInv, NEW i \in DOMAIN frame
  PROVE  /\ TextRow(i) \in Seq(SqlValues) /\ TextRow(i) # <<>>
         /\ DOMAIN TextRow(i) = DOMAIN kinds
         /\ \A j \in DOMAIN kinds : TextCell(kinds[j], frame[i][j], TextRow(i)[j])
<1> DEFINE n == Len(kinds)
           r == TextRow(i)
<1>1. n \in Nat /\ n > 0 /\ DOMAIN kinds = 1..n
  BY FrameCells
<1> HIDE DEF n
<1>2. ASSUME NEW j \in DOMAIN kinds
      PROVE  AsText(kinds[j], frame[i][j]) \in SqlValues /\ TextCell(kinds[j], frame[i][j], AsText(kinds[j], frame[i][j]))
  <2>1. OfClass(kinds[j], frame[i][j]) /\ kinds[j] \in Classes /\ zone \in Zones
    BY FrameCells DEF GivenInv
  <2> QED
    BY <2>1, AllIsCopied DEF CopiedWell, TextCell
<1>3. DOMAIN r = DOMAIN kinds /\ \A j \in DOMAIN kinds : r[j] = AsText(kinds[j], frame[i][j])
  BY DEF TextRow
<1>4. r \in [1..n -> SqlValues]
  BY <1>1, <1>2 DEF TextRow
<1> HIDE DEF r
<1>5. r \in Seq(SqlValues) /\ Len(r) = n
  BY <1>1, <1>4
<1>6. r # <<>>
  BY <1>1, <1>5
<1> QED
  BY <1>2, <1>3, <1>5, <1>6 DEF r

LEMMA GivenStays ==
  ASSUME GivenInv, UNCHANGED given
  PROVE  GivenInv'
BY DEF GivenInv, given

LEMMA BeginCopyStep ==
  ASSUME GivenInv, Beginning, BeginCopy
  PROVE  CopyInv'
<1>1. /\ pc' = "copying" /\ types' = Types /\ table' = <<>> /\ out' = <<>> /\ sent' = 0 /\ stream' = <<>>
      /\ kinds' = kinds /\ frame' = frame
  BY DEF BeginCopy, Beginning, given
<1>2. types' = Types'
  BY <1>1 DEF Types
<1>3. CopyState(<<>>) = Copying(<<>>, <<>>, <<>>, <<>>) /\ <<>> \in Seq(Symbols)
  BY CopyReading DEF CopyStart, Copying
<1>4. IsSequence(<<>>) /\ Len(<<>>) = 0
  <2>1. <<>> \in Seq({})
    OBVIOUS
  <2> QED
    BY <2>1, SequenceFacts
<1>5. Len(frame) \in Nat
  BY FrameCells
<1> QED
  BY <1>1, <1>2, <1>3, <1>4, <1>5 DEF CopyInv, Arrived

LEMMA PutRowStep ==
  ASSUME GivenInv, CopyInv, PutRow
  PROVE  CopyInv'
<1> DEFINE n == sent + 1
           r == TextRow(n)
<1>1. PICK rows : CopyState(stream) = Copying(rows, <<>>, <<>>, <<>>) /\ Arrived(rows)
  BY DEF CopyInv
<1>2. sent \in Nat /\ n \in Nat /\ n \in 0..Len(frame) /\ n \in DOMAIN frame
  <2>1. sent \in 0..Len(frame) /\ sent < Len(frame)
    BY DEF CopyInv, PutRow
  <2> QED
    BY <2>1, FrameCells
<1>3. /\ stream' = stream \o EncodeRow(r) /\ sent' = n
      /\ kinds' = kinds /\ frame' = frame /\ types' = types /\ table' = table /\ out' = out /\ pc' = pc
  BY DEF PutRow, TextRow, given
<1>4. /\ r \in Seq(SqlValues) /\ r # <<>> /\ DOMAIN r = DOMAIN kinds
      /\ \A j \in DOMAIN kinds : TextCell(kinds[j], frame[n][j], r[j])
  BY <1>2, TextRows
<1> HIDE DEF r
<1> DEFINE next == Append(rows, r)
<1>5. stream' \in Seq(Symbols) /\ CopyState(stream') = Copying(next, <<>>, <<>>, <<>>)
  <2>1. stream \in Seq(Symbols)
    BY DEF CopyInv
  <2>2. /\ stream \o EncodeRow(r) \in Seq(Symbols)
        /\ CopyState(stream \o EncodeRow(r)) = Copying(next, <<>>, <<>>, <<>>)
    BY <1>1, <1>4, <2>1, RowIsRead
  <2> HIDE DEF next
  <2> QED
    BY <1>3, <2>2, Zenon
<1>6. /\ IsSequence(next) /\ Len(next) = n /\ next[n] = r
      /\ \A i \in 1..sent : next[i] = rows[i]
  BY <1>1, OneMore DEF Arrived
<1> HIDE DEF next
<1>7. ASSUME NEW i \in 1..n
      PROVE  /\ DOMAIN next[i] = DOMAIN kinds
             /\ \A j \in DOMAIN kinds : TextCell(kinds[j], frame[i][j], next[i][j])
  <2>1. CASE i = n
    BY <1>4, <1>6, <2>1
  <2>2. CASE i # n
    <3>1. i \in 1..sent
      BY <1>2, <2>2
    <3> QED
      BY <1>1, <1>6, <3>1 DEF Arrived
  <2> QED
    BY <2>1, <2>2
<1> HIDE DEF n
<1>8. pc' = "copying" /\ types' = Types' /\ table' = <<>> /\ out' = <<>>
  BY <1>3 DEF CopyInv, Types
<1>9. sent' \in 0..Len(frame')
  BY <1>2, <1>3
<1>10. CopyState(stream)' = Copying(next, <<>>, <<>>, <<>>)
  BY <1>5
<1>11. /\ IsSequence(next) /\ Len(next) = sent'
       /\ \A i \in 1..sent' :
            /\ DOMAIN next[i] = DOMAIN kinds'
            /\ \A j \in DOMAIN kinds' : TextCell(kinds'[j], frame'[i][j], next[i][j])
  BY <1>3, <1>6, <1>7
<1>12. (\E new : CopyState(stream) = Copying(new, <<>>, <<>>, <<>>) /\ Arrived(new))'
  BY <1>10, <1>11, Zenon DEF Arrived
<1> QED
  BY <1>5, <1>8, <1>9, <1>12 DEF CopyInv

LEMMA NothingRead == IsSequence(<<>>) /\ Len(<<>>) = 0
<1>1. <<>> \in Seq({})
  OBVIOUS
<1> QED
  BY <1>1, SequenceFacts

\* What is stored begins to be read.
LEMMA StoreStep ==
  ASSUME GivenInv, UNCHANGED given, types' = Types, out' = <<>>,
         NEW rows, DOMAIN rows = DOMAIN frame, IsSequence(rows), Len(rows) = Len(frame),
         \A i \in DOMAIN frame :
           /\ DOMAIN rows[i] = DOMAIN kinds
           /\ \A j \in DOMAIN kinds : rows[i][j] = Refused \/ WrittenCell(kinds[j], frame[i][j], rows[i][j]),
         Store(rows)
  PROVE  pc' = "failed" \/ OwnInv'
<1>1. pc' = "failed" \/ (pc' = "stored" /\ table' = rows /\ OwnTable(rows))
  BY StoreKeeps
<1>2. CASE pc' = "stored" /\ table' = rows /\ OwnTable(rows)
  <2>1. /\ kinds' = kinds /\ frame' = frame /\ how' = how /\ zone' = zone /\ serverZone' = serverZone
    BY DEF given
  <2>2. types' = Types'
    BY <2>1 DEF Types
  <2>4. /\ IsSequence(table') /\ Len(table') = Len(frame')
        /\ \A i \in DOMAIN frame' :
             /\ DOMAIN table'[i] = DOMAIN kinds'
             /\ \A j \in DOMAIN kinds' :
                  \/ IsKept(kinds'[j], frame'[i][j], table'[i][j])
                  \/ Misread(kinds[j], frame[i][j])
    BY <1>2, <2>1 DEF OwnTable, WrittenCell
  <2>5. OwnTable(table)'
    BY <2>1, <2>4 DEF OwnTable, WrittenCell, Misread
  <2>6. Len(table') \in Nat
    BY <2>4 DEF IsSequence
  <2> QED
    BY <1>2, <2>2, <2>5, <2>6, NothingRead DEF OwnInv
<1> QED
  BY <1>1, <1>2

LEMMA EndCopyStep ==
  ASSUME GivenInv, CopyInv, EndCopy
  PROVE  pc' = "failed" \/ OwnInv'
<1>1. PICK rows : CopyState(stream) = Copying(rows, <<>>, <<>>, <<>>) /\ Arrived(rows)
  BY DEF CopyInv
<1>2. Received = rows
  <2>1. Received = CopyState(stream).rows
    BY Zenon DEF Received, CopyTable, CopyState
  <2>2. Copying(rows, <<>>, <<>>, <<>>).rows = rows
    BY DEF Copying, CopyReader
  <2> QED
    BY <1>1, <2>1, <2>2
<1> DEFINE got == [i \in DOMAIN Received |-> [j \in DOMAIN Received[i] |-> Input(types[j], Received[i][j])]]
<1>3. Store(got) /\ UNCHANGED given /\ types' = Types /\ out' = <<>> /\ sent = Len(frame) /\ types = Types
  BY DEF EndCopy, CopyInv
<1>4. DOMAIN frame = 1..Len(frame) /\ Len(frame) \in Nat /\ DOMAIN rows = DOMAIN frame
  BY <1>1, <1>3, FrameCells, SequenceFacts DEF Arrived
<1>5. DOMAIN got = DOMAIN frame /\ IsSequence(got) /\ Len(got) = Len(frame)
  <2>1. got = [i \in DOMAIN frame |-> got[i]]
    BY <1>2, <1>4
  <2> HIDE DEF got
  <2> QED
    BY <2>1, TableOf
<1>6. ASSUME NEW i \in DOMAIN frame
      PROVE  /\ DOMAIN got[i] = DOMAIN kinds
             /\ \A j \in DOMAIN kinds : got[i][j] = Refused \/ WrittenCell(kinds[j], frame[i][j], got[i][j])
  <2>1. DOMAIN rows[i] = DOMAIN kinds /\ \A j \in DOMAIN kinds : TextCell(kinds[j], frame[i][j], rows[i][j])
    BY <1>1, <1>3, <1>4 DEF Arrived
  <2>2. DOMAIN got[i] = DOMAIN kinds /\ \A j \in DOMAIN kinds : got[i][j] = Input(types[j], rows[i][j])
    BY <1>2, <1>4, <2>1
  <2>3. \A j \in DOMAIN kinds : types[j] = DataType(kinds[j])
    BY <1>3 DEF Types
  <2> HIDE DEF got
  <2> QED
    BY <2>1, <2>2, <2>3 DEF TextCell, WrittenCell
<1> HIDE DEF got
<1> QED
  BY <1>3, <1>5, <1>6, StoreStep

LEMMA InsertStep ==
  ASSUME GivenInv, Beginning, Insert
  PROVE  pc' = "failed" \/ OwnInv'
<1> DEFINE got == [i \in DOMAIN frame |->
                    [j \in DOMAIN kinds |-> Evaluate(types'[j], Literal(kinds[j], frame[i][j]))]]
<1>1. Store(got) /\ UNCHANGED given /\ types' = Types /\ out' = <<>> /\ how = "insert"
  BY DEF Insert, Beginning
<1>2. DOMAIN got = DOMAIN frame /\ IsSequence(got) /\ Len(got) = Len(frame)
  <2>1. got = [i \in DOMAIN frame |-> got[i]]
    OBVIOUS
  <2> HIDE DEF got
  <2> QED
    BY <2>1, TableOf
<1>3. ASSUME NEW i \in DOMAIN frame
      PROVE  /\ DOMAIN got[i] = DOMAIN kinds
             /\ \A j \in DOMAIN kinds : got[i][j] = Refused \/ WrittenCell(kinds[j], frame[i][j], got[i][j])
  <2>1. DOMAIN got[i] = DOMAIN kinds
        /\ \A j \in DOMAIN kinds : got[i][j] = Evaluate(types'[j], Literal(kinds[j], frame[i][j]))
    OBVIOUS
  <2>2. \A j \in DOMAIN kinds : types'[j] = DataType(kinds[j])
    BY <1>1 DEF Types
  <2>3. \A j \in DOMAIN kinds : EvaluatedWell(kinds[j], frame[i][j])
    BY FrameCells, AllIsInserted DEF GivenInv
  <2> HIDE DEF got
  <2> QED
    BY <1>1, <2>1, <2>2, <2>3 DEF EvaluatedWell, WrittenCell
<1> HIDE DEF got
<1> QED
  BY <1>1, <1>2, <1>3, StoreStep

LEMMA BindStep ==
  ASSUME GivenInv, Beginning, Bind
  PROVE  pc' = "failed" \/ OwnInv'
<1> DEFINE got == [i \in DOMAIN frame |->
                    [j \in DOMAIN kinds |-> InputParameter(types'[j], Parameter(kinds[j], frame[i][j]))]]
<1>1. Store(got) /\ UNCHANGED given /\ types' = Types /\ out' = <<>>
  BY DEF Bind, Beginning
<1>2. DOMAIN got = DOMAIN frame /\ IsSequence(got) /\ Len(got) = Len(frame)
  <2>1. got = [i \in DOMAIN frame |-> got[i]]
    OBVIOUS
  <2> HIDE DEF got
  <2> QED
    BY <2>1, TableOf
<1>3. ASSUME NEW i \in DOMAIN frame
      PROVE  /\ DOMAIN got[i] = DOMAIN kinds
             /\ \A j \in DOMAIN kinds : got[i][j] = Refused \/ WrittenCell(kinds[j], frame[i][j], got[i][j])
  <2>1. DOMAIN got[i] = DOMAIN kinds
        /\ \A j \in DOMAIN kinds : got[i][j] = InputParameter(types'[j], Parameter(kinds[j], frame[i][j]))
    OBVIOUS
  <2>2. \A j \in DOMAIN kinds : types'[j] = DataType(kinds[j])
    BY <1>1 DEF Types
  <2>3. ASSUME NEW j \in DOMAIN kinds
        PROVE  LET w == InputParameter(DataType(kinds[j]), Parameter(kinds[j], frame[i][j]))
               IN w = Refused \/ IsKept(kinds[j], frame[i][j], w)
    BY FrameCells, AllIsBound DEF GivenInv
  <2> HIDE DEF got
  <2> QED
    BY <2>1, <2>2, <2>3 DEF WrittenCell
<1> HIDE DEF got
<1> QED
  BY <1>1, <1>2, <1>3, StoreStep

LEMMA OtherClientStep ==
  ASSUME GivenInv, Beginning, NEW f \in Foreign, OtherClient(f[1], f[2])
  PROVE  OtherInv'
<1>1. /\ pc' = "stored" /\ sent' = 0 /\ frame' = <<>> /\ out' = <<>>
      /\ types' = <<f[1]>> /\ table' = << <<f[2]>> >>
  BY DEF Beginning, OtherClient, given
<1> QED
  BY <1>1, NothingRead DEF OtherInv

\* Types of the columns are left alone by what follows.
LEMMA FetchOwnStep ==
  ASSUME GivenInv, OwnInv, FetchRow
  PROVE  OwnInv'
<1> DEFINE n == Len(out) + 1
           row == table[n]
           x == [j \in DOMAIN row |-> Finalize(types[j], FetchValue(types[j], row[j]))]
<1>1. /\ pc = "stored" /\ pc' = "stored" /\ types = Types /\ OwnTable(table)
      /\ IsSequence(out) /\ Len(out) < Len(table) /\ Len(table) = Len(frame)
      /\ Len(out) \in Nat /\ Len(table) \in Nat
  BY DEF OwnInv, FetchRow, OwnTable, IsSequence
<1>2. /\ out' = Append(out, x) /\ types' = types /\ table' = table
      /\ kinds' = kinds /\ frame' = frame /\ how' = how /\ zone' = zone /\ serverZone' = serverZone
  BY DEF FetchRow, given
<1>3. n \in DOMAIN frame /\ n \in Nat /\ n <= Len(table)
  BY <1>1, FrameCells
<1>4. DOMAIN row = DOMAIN kinds /\ \A j \in DOMAIN kinds : WrittenCell(kinds[j], frame[n][j], row[j])
  BY <1>1, <1>3 DEF OwnTable
<1>5. \A j \in DOMAIN kinds : x[j] = Reread(DataType(kinds[j]), row[j])
  BY <1>1, <1>4 DEF Types, Reread
<1> HIDE DEF row, x
<1>6. ASSUME NEW j \in DOMAIN kinds PROVE ReadCell(kinds[j], frame[n][j], x[j])
  <2>1. kinds[j] \in Classes /\ OfClass(kinds[j], frame[n][j]) /\ serverZone \in Zones
    BY <1>3, FrameCells DEF GivenInv
  <2>2. CASE IsKept(kinds[j], frame[n][j], row[j])
    <3> DEFINE k == kinds[j]
               v == frame[n][j]
               t == DataType(k)
               w == row[j]
    <3>1. t \in SqlTypes
      BY <2>1 DEF DataType, Classes, SqlTypes
    <3>2. w = Kept(k, v) /\ OfType(t, w) /\ k \in Classes /\ OfClass(k, v)
      BY <2>1, <2>2 DEF IsKept
    <3>3. x[j] = Reread(t, w)
      BY <1>5
    <3> HIDE DEF k, v, t, w
    <3>4. Reread(t, w) = Seen(t, w)
      BY <2>1, <3>1, <3>2, ReadBack
    <3>5. Seen(DataType(k), Kept(k, v)) = Expected(k, v)
      BY <3>2, KeptIsExpected
    <3>6. x[j] = Expected(k, v)
      BY <3>2, <3>3, <3>4, <3>5 DEF t
    <3> QED
      BY <3>6 DEF ReadCell, k, v
  <2>3. CASE Misread(kinds[j], frame[n][j])
    BY <2>3 DEF ReadCell
  <2> QED
    BY <1>4, <2>2, <2>3 DEF WrittenCell
<1> DEFINE next == Append(out, x)
<1>7. IsSequence(next) /\ Len(next) = n /\ next[n] = x /\ \A i \in 1..Len(out) : next[i] = out[i]
  BY <1>1, OneMore
<1> HIDE DEF next
<1>8. ASSUME NEW i \in 1..n, NEW j \in DOMAIN kinds PROVE ReadCell(kinds[j], frame[i][j], next[i][j])
  <2>1. CASE i = n
    BY <1>6, <1>7, <2>1
  <2>2. CASE i # n
    <3>1. i \in 1..Len(out)
      BY <1>1, <2>2
    <3> QED
      BY <1>7, <3>1 DEF OwnInv
  <2> QED
    BY <2>1, <2>2
<1>9. out' = next
  BY <1>2 DEF next
<1>10. (IsSequence(out) /\ Len(out) <= Len(table))'
  BY <1>2, <1>3, <1>7, <1>9
<1>11. \A i \in 1..Len(out') : \A j \in DOMAIN kinds' :
          ReadCell(kinds[j], frame[i][j], next[i][j])
  BY <1>2, <1>7, <1>8, <1>9
<1>12. (\A i \in 1..Len(out) : \A j \in DOMAIN kinds : ReadCell(kinds[j], frame[i][j], out[i][j]))'
  BY <1>2, <1>9, <1>11 DEF ReadCell, Misread
<1>13. (types = Types)'
  BY <1>1, <1>2 DEF Types
<1>14. OwnTable(table)'
  BY <1>1, <1>2 DEF OwnTable, WrittenCell, Misread
<1> QED
  BY <1>1, <1>10, <1>12, <1>13, <1>14 DEF OwnInv

LEMMA FetchOtherStep ==
  ASSUME GivenInv, OtherInv, FetchRow
  PROVE  OtherInv'
<1>1. PICK f \in Foreign :
        /\ types = <<f[1]>> /\ table = << <<f[2]>> >>
        /\ IsSequence(out) /\ Len(out) <= 1
  BY DEF OtherInv
<1> DEFINE t == f[1]
           w == f[2]
           row == table[Len(out) + 1]
           x == [j \in DOMAIN row |-> Finalize(types[j], FetchValue(types[j], row[j]))]
           next == Append(out, x)
<1>2. Len(out) < 1 /\ Len(out) \in Nat
  <2>1. Len(table) = 1 /\ Len(out) < Len(table)
    BY <1>1 DEF FetchRow
  <2> QED
    BY <1>1, <2>1 DEF IsSequence
<1>3. Len(out) = 0
  BY <1>2
<1>4. out' = next /\ pc = "stored" /\ pc' = "stored" /\ sent' = sent /\ frame' = frame /\ types' = types
      /\ table' = table /\ zone' = zone
  BY DEF FetchRow, given
<1>5. row = <<w>>
  BY <1>1, <1>3
<1>6. x[1] = Reread(t, w)
  <2>1. 1 \in DOMAIN <<w>> /\ <<w>>[1] = w /\ <<t>>[1] = t
    OBVIOUS
  <2>2. 1 \in DOMAIN row /\ row[1] = w /\ types[1] = t
    BY <1>1, <1>5, <2>1
  <2> HIDE DEF row
  <2> QED
    BY <2>2 DEF Reread
<1>7. t \in SqlTypes /\ OfType(t, w) /\ zone \in Zones /\ serverZone \in Zones
  BY ValuesAssumption DEF GivenInv
<1> HIDE DEF x, row, t, w
<1>8. Faithful(t, w, x[1])
  BY <1>6, <1>7, ReadBack, SeenIsFaithful
<1>9. IsSequence(next) /\ Len(next) = 1 /\ next[1] = x
  <2>1. IsSequence(next) /\ Len(next) = Len(out) + 1 /\ next[Len(out) + 1] = x
    BY <1>1, OneMore
  <2>2. Len(out) + 1 = 1
    BY <1>3
  <2> HIDE DEF next
  <2> QED
    BY <2>1, <2>2
<1> HIDE DEF next
<1>10. Faithful(t, w, next[1][1])
  BY <1>8, <1>9
<1>11. /\ types' = <<f[1]>> /\ table' = << <<f[2]>> >> /\ IsSequence(out') /\ Len(out') = 1
  BY <1>1, <1>4, <1>9
<1>12. Faithful(f[1], f[2], out[1][1])'
  BY <1>4, <1>10 DEF Faithful, t, w
<1> QED
  BY <1>4, <1>11, <1>12 DEF OtherInv

LEMMA FetchEndStep ==
  ASSUME GivenInv, OwnInv \/ OtherInv, FetchEnd
  PROVE  OwnInv' \/ OtherInv'
<1>1. /\ pc = "stored" /\ pc' = "done" /\ Len(out) = Len(table)
      /\ out' = out /\ types' = types /\ table' = table /\ sent' = sent
      /\ kinds' = kinds /\ frame' = frame /\ how' = how /\ zone' = zone /\ serverZone' = serverZone
  BY DEF FetchEnd, given
<1>2. ASSUME OwnInv PROVE OwnInv'
  BY <1>1, <1>2 DEF OwnInv, OwnTable, WrittenCell, ReadCell, Misread, Types
<1>3. ASSUME OtherInv PROVE OtherInv'
  <2>1. PICK f \in Foreign :
        /\ types = <<f[1]>> /\ table = << <<f[2]>> >>
        /\ IsSequence(out) /\ Len(out) <= 1
        /\ Len(out) = 1 => Faithful(f[1], f[2], out[1][1])
    BY <1>3 DEF OtherInv
  <2>2. Len(table) = 1
    BY <2>1
  <2>3. (Len(out) = 1 => Faithful(f[1], f[2], out[1][1]))'
    BY <1>1, <2>1 DEF Faithful
  <2> QED
    BY <1>1, <1>3, <2>1, <2>2, <2>3 DEF OtherInv
<1> QED
  BY <1>2, <1>3

LEMMA InitIInv == Init => IInv
<1> SUFFICES ASSUME Init PROVE IInv
  OBVIOUS
<1>1. PICK n \in 0..(IF how = "copy" THEN MaxRows ELSE 1) : frame \in [1..n -> Rows(kinds)]
  BY DEF Init
<1>2. n \in Nat
  BY <1>1, ValuesAssumption
<1>3. frame \in Seq(Rows(kinds))
  <2> DEFINE S == Rows(kinds)
  <2>1. frame \in [1..n -> S]
    BY <1>1
  <2> HIDE DEF S
  <2>2. frame \in Seq(S)
    BY <1>2, <2>1
  <2> QED
    BY <2>2 DEF S
<1>4. GivenInv /\ Beginning
  BY <1>3 DEF Init, GivenInv, Beginning
<1> QED
  BY <1>4 DEF IInv

LEMMA NextIInv == IInv /\ [Next]_vars => IInv'
<1> SUFFICES ASSUME IInv, [Next]_vars PROVE IInv'
  OBVIOUS
<1>1. GivenInv
  BY DEF IInv
<1>2. ASSUME UNCHANGED vars PROVE IInv'
  <2>1. /\ pc' = pc /\ out' = out /\ types' = types /\ table' = table /\ sent' = sent /\ stream' = stream
        /\ UNCHANGED given
        /\ kinds' = kinds /\ frame' = frame /\ how' = how /\ zone' = zone /\ serverZone' = serverZone
    BY <1>2 DEF vars, given
  <2>2. GivenInv'
    BY <1>1, <2>1, GivenStays
  <2>3. Beginning => Beginning'
    BY <2>1 DEF Beginning
  <2>4. CopyInv => CopyInv'
    BY <2>1 DEF CopyInv, Arrived, CopyState, Types
  <2>5. OwnInv => OwnInv'
    BY <2>1 DEF OwnInv, OwnTable, WrittenCell, ReadCell, Misread, Types
  <2>6. OtherInv => OtherInv'
    BY <2>1 DEF OtherInv, Faithful
  <2> QED
    BY <2>1, <2>2, <2>3, <2>4, <2>5, <2>6 DEF IInv
<1>3. ASSUME Next PROVE UNCHANGED given
  BY <1>3 DEF Next, BeginCopy, PutRow, EndCopy, Insert, Bind, OtherClient, FetchRow, FetchEnd
<1>4. ASSUME Next PROVE GivenInv'
  BY <1>1, <1>3, <1>4, GivenStays
<1>5. ASSUME BeginCopy PROVE IInv'
  <2>1. Beginning
    BY <1>5 DEF IInv, BeginCopy, CopyInv, OwnInv, OtherInv
  <2>2. CopyInv'
    BY <1>1, <1>5, <2>1, BeginCopyStep
  <2> QED
    BY <1>4, <1>5, <2>2 DEF IInv, Next
<1>6. ASSUME PutRow PROVE IInv'
  <2>1. CopyInv
    BY <1>6 DEF IInv, PutRow, Beginning, OwnInv, OtherInv
  <2>2. CopyInv'
    BY <1>1, <1>6, <2>1, PutRowStep
  <2> QED
    BY <1>4, <1>6, <2>2 DEF IInv, Next
<1>7. ASSUME EndCopy PROVE IInv'
  <2>1. CopyInv
    BY <1>7 DEF IInv, EndCopy, Beginning, OwnInv, OtherInv
  <2>2. pc' = "failed" \/ OwnInv'
    BY <1>1, <1>7, <2>1, EndCopyStep
  <2> QED
    BY <1>4, <1>7, <2>2 DEF IInv, Next
<1>8. ASSUME Insert PROVE IInv'
  <2>1. Beginning
    BY <1>8 DEF IInv, Insert, CopyInv, OwnInv, OtherInv
  <2>2. pc' = "failed" \/ OwnInv'
    BY <1>1, <1>8, <2>1, InsertStep
  <2> QED
    BY <1>4, <1>8, <2>2 DEF IInv, Next
<1>9. ASSUME Bind PROVE IInv'
  <2>1. Beginning
    BY <1>9 DEF IInv, Bind, CopyInv, OwnInv, OtherInv
  <2>2. pc' = "failed" \/ OwnInv'
    BY <1>1, <1>9, <2>1, BindStep
  <2> QED
    BY <1>4, <1>9, <2>2 DEF IInv, Next
<1>10. ASSUME NEW f \in Foreign, OtherClient(f[1], f[2]) PROVE IInv'
  <2>1. Beginning
    BY <1>10 DEF IInv, OtherClient, CopyInv, OwnInv, OtherInv
  <2>2. OtherInv'
    BY <1>1, <1>10, <2>1, OtherClientStep
  <2> QED
    BY <1>4, <1>10, <2>2 DEF IInv, Next
<1>11. ASSUME FetchRow PROVE IInv'
  <2>1. OwnInv \/ OtherInv
    BY <1>11 DEF IInv, FetchRow, Beginning, CopyInv
  <2>2. OwnInv' \/ OtherInv'
    BY <1>1, <1>11, <2>1, FetchOwnStep, FetchOtherStep
  <2> QED
    BY <1>4, <1>11, <2>2 DEF IInv, Next
<1>12. ASSUME FetchEnd PROVE IInv'
  <2>1. OwnInv \/ OtherInv
    BY <1>12 DEF IInv, FetchEnd, Beginning, CopyInv
  <2>2. OwnInv' \/ OtherInv'
    BY <1>1, <1>12, <2>1, FetchEndStep
  <2> QED
    BY <1>4, <1>12, <2>2 DEF IInv, Next
<1> QED
  BY <1>2, <1>5, <1>6, <1>7, <1>8, <1>9, <1>10, <1>11, <1>12 DEF Next

LEMMA Invariant == Spec => []IInv
BY InitIInv, NextIInv, PTL DEF Spec

\* The class of a column survives.
LEMMA ClassComesBack ==
  ASSUME NEW k \in Classes
  PROVE  FinalClass(DataType(k)) = IF k = "integer64" THEN BigintClass ELSE k
BY DEF FinalClass, DataType, ColumnType, RClass, Classes

\* What dbWriteTable(), with COPY or with INSERT, or dbBind() wrote comes back.
THEOREM FrameComesBack == Spec => []RoundTrip
<1>1. ASSUME IInv PROVE RoundTrip
  <2> SUFFICES ASSUME pc = "done", sent > 0
               PROVE  /\ DOMAIN out = DOMAIN frame
                      /\ \A j \in DOMAIN kinds :
                           FinalClass(types[j]) = IF kinds[j] = "integer64" THEN BigintClass ELSE kinds[j]
                      /\ \A i \in DOMAIN frame : \A j \in DOMAIN kinds :
                           \/ out[i][j] = Expected(kinds[j], frame[i][j])
                           \/ Misread(kinds[j], frame[i][j])
    BY DEF RoundTrip
  <2>1. GivenInv /\ OwnInv
    BY <1>1 DEF IInv, Beginning, CopyInv, OtherInv
  <2>2. /\ Len(out) = Len(frame) /\ IsSequence(out) /\ types = Types
        /\ \A i \in 1..Len(out) : \A j \in DOMAIN kinds : ReadCell(kinds[j], frame[i][j], out[i][j])
    BY <2>1 DEF OwnInv, OwnTable
  <2>3. DOMAIN frame = 1..Len(frame) /\ DOMAIN out = 1..Len(out) /\ \A j \in DOMAIN kinds : kinds[j] \in Classes
    BY <2>1, <2>2, FrameCells, SequenceFacts
  <2>4. \A j \in DOMAIN kinds : types[j] = DataType(kinds[j])
    BY <2>2 DEF Types
  <2>5. ASSUME NEW j \in DOMAIN kinds
        PROVE  FinalClass(types[j]) = IF kinds[j] = "integer64" THEN BigintClass ELSE kinds[j]
    BY <2>3, <2>4, ClassComesBack
  <2> QED
    BY <2>2, <2>3, <2>5 DEF ReadCell
<1> QED
  BY <1>1, Invariant, PTL

\* What other clients wrote is read as itself.
THEOREM OthersAreRead == Spec => []ForeignIsFaithful
<1>1. ASSUME IInv PROVE ForeignIsFaithful
  <2>1. CASE pc = "done" /\ frame = <<>> /\ table # <<>>
    <3>1. OtherInv
      <4>1. ASSUME OwnInv PROVE FALSE
        <5>1. IsSequence(table) /\ Len(table) = 0
          BY <2>1, <4>1 DEF OwnInv, OwnTable
        <5>2. PICK S : table \in Seq(S)
          BY <5>1, SequenceFacts
        <5> QED
          BY <2>1, <5>1, <5>2
      <4> QED
        BY <1>1, <2>1, <4>1 DEF IInv, Beginning, CopyInv
    <3>2. PICK f \in Foreign : types = <<f[1]>> /\ table = << <<f[2]>> >> /\ Faithful(f[1], f[2], out[1][1])
      BY <2>1, <3>1 DEF OtherInv
    <3>3. types[1] = f[1] /\ table[1][1] = f[2]
      BY <3>2
    <3> QED
      BY <3>2, <3>3 DEF ForeignIsFaithful, Faithful
  <2>2. CASE ~(pc = "done" /\ frame = <<>> /\ table # <<>>)
    BY <2>2, Zenon DEF ForeignIsFaithful
  <2> QED
    BY <2>1, <2>2
<1> QED
  BY <1>1, Invariant, PTL

=============================================================================
