---------------------------- MODULE Quoting_proofs ----------------------------
(***************************************************************************)
(* Names and strings of any characters and any length are read as they     *)
(* were quoted.                                                            *)
(*                                                                         *)
(* A reader is a recursive function of the text.  What it has read of the  *)
(* quoted form of a text grows with the text by one step for each of its   *)
(* characters, and sequences are covered by induction: a set of them that  *)
(* has the empty one, and with each sequence all that are longer by one    *)
(* element, has them all.                                                  *)
(***************************************************************************)
EXTENDS Quoting, SequenceTheorems, WellFoundedInduction, TLAPS

-----------------------------------------------------------------------------
(* Sequences and recursion.                                                *)

\* Induction over sequences: else there would be a shortest one that is missing.
LEMMA AllSequences ==
  ASSUME NEW S, NEW Good \in SUBSET Seq(S), <<>> \in Good,
         \A s \in Good, e \in S : Append(s, e) \in Good
  PROVE  \A s \in Seq(S) : s \in Good
<1> DEFINE Missing == Seq(S) \ Good
           Lengths == {Len(s) : s \in Missing}
<1> SUFFICES ASSUME Missing # {} PROVE FALSE
  OBVIOUS
<1>1. Lengths \subseteq Nat /\ Lengths # {}
  <2>1. \A s \in Missing : Len(s) \in Nat
    OBVIOUS
  <2> HIDE DEF Missing
  <2> QED
    BY <2>1
<1>2. PICK n \in Lengths : \A m \in Lengths : <<m, n>> \notin OpToRel(<, Nat)
  <2> HIDE DEF Lengths
  <2> QED
    BY <1>1, NatLessThanWellFounded, WFMin
<1>3. PICK s \in Missing : Len(s) = n
  BY <1>2
<1>4. s \in Seq(S) /\ s \notin Good /\ s # <<>>
  BY <1>3
<1>5. PICK u \in Seq(S), e \in S : s = Append(u, e)
  BY <1>4, SequenceEmptyOrAppend
<1>6. Len(u) \in Nat /\ Len(u) < n /\ n \in Nat
  <2>1. Len(u) \in Nat /\ Len(s) = Len(u) + 1
    BY <1>5, AppendProperties
  <2> QED
    BY <1>3, <2>1
<1>7. u \in Good
  <2> SUFFICES ASSUME u \in Missing PROVE FALSE
    BY <1>5
  <2>1. Len(u) \in Lengths
    OBVIOUS
  <2>2. <<Len(u), n>> \in OpToRel(<, Nat)
    BY <1>6 DEF OpToRel
  <2> QED
    BY <1>2, <2>1, <2>2
<1> QED
  BY <1>4, <1>5, <1>7

LEMMA TwoElements ==
  ASSUME NEW a, NEW b
  PROVE  Append(<<a>>, b) = <<a, b>>
<1> DEFINE S == {a, b}
           s == Append(<<a>>, b)
           t == <<a, b>>
<1>1. s \in Seq(S) /\ t \in Seq(S) /\ Len(s) = 2 /\ Len(t) = 2
  OBVIOUS
<1>2. s[1] = t[1] /\ s[2] = t[2]
  OBVIOUS
<1> HIDE DEF S, s, t
<1>3. \A i \in 1..Len(s) : s[i] = t[i]
  BY <1>1, <1>2
<1> QED
  BY <1>1, <1>3, SeqEqual DEF s, t

LEMMA ThreeElements ==
  ASSUME NEW a, NEW b, NEW c
  PROVE  Append(<<a, b>>, c) = <<a, b, c>> /\ <<a, b>> \o <<c>> = <<a, b, c>>
<1> DEFINE S == {a, b, c}
           s == Append(<<a, b>>, c)
           r == <<a, b>> \o <<c>>
           t == <<a, b, c>>
<1>1. s \in Seq(S) /\ t \in Seq(S) /\ r \in Seq(S) /\ Len(s) = 3 /\ Len(t) = 3 /\ Len(r) = 3
  OBVIOUS
<1>2. s[1] = a /\ s[2] = b /\ s[3] = c /\ r[1] = a /\ r[2] = b /\ r[3] = c /\ t[1] = a /\ t[2] = b /\ t[3] = c
  OBVIOUS
<1> HIDE DEF S, s, t, r
<1>3. \A i \in 1..3 : s[i] = t[i] /\ r[i] = t[i]
  BY <1>2
<1>4. s = t
  BY <1>1, <1>3, SeqEqual
<1>5. r = t
  BY <1>1, <1>3, SeqEqual
<1> QED
  BY <1>4, <1>5 DEF s, t, r

\* Two runs of the same steps agree.
Follows(f, g, n) ==
  n \in Nat /\ f[0] = g[0] /\ \A k \in 1..n : f[k - 1] = g[k - 1] => f[k] = g[k]

LEMMA SameRun ==
  ASSUME NEW n, NEW f, NEW g, Follows(f, g, n)
  PROVE  \A k \in 0..n : f[k] = g[k]
<1>0. n \in Nat /\ f[0] = g[0] /\ \A k \in 1..n : f[k - 1] = g[k - 1] => f[k] = g[k]
  BY DEF Follows
<1> DEFINE Differs == {k \in 0..n : f[k] # g[k]}
<1> SUFFICES ASSUME Differs # {} PROVE FALSE
  OBVIOUS
<1>1. Differs \subseteq Nat
  BY <1>0
<1>2. PICK k \in Differs : \A m \in Differs : <<m, k>> \notin OpToRel(<, Nat)
  <2> HIDE DEF Differs
  <2> QED
    BY <1>1, NatLessThanWellFounded, WFMin
<1>3. k \in 0..n /\ f[k] # g[k]
  BY <1>2
<1>4. k # 0
  BY <1>0, <1>3
<1>5. k - 1 \in 0..n /\ k - 1 \in Nat /\ k - 1 < k /\ k \in 1..n
  BY <1>0, <1>3, <1>4
<1>6. <<k - 1, k>> \in OpToRel(<, Nat)
  BY <1>5 DEF OpToRel
<1>7. k - 1 \notin Differs
  BY <1>2, <1>6
<1> QED
  BY <1>0, <1>3, <1>5, <1>7

\* The states of a machine that reads a text.
IsRun(f, St, C, step, start, t) ==
  /\ step \in [St -> [C -> St]] /\ start \in St /\ t \in Seq(C)
  /\ f \in [0..Len(t) -> St] /\ f[0] = start
  /\ \A k \in 1..Len(t) : f[k] = step[f[k - 1]][t[k]]

LEMMA RunExists ==
  ASSUME NEW St, NEW C, NEW step \in [St -> [C -> St]], NEW start \in St
  PROVE  \A t \in Seq(C) : \E f : IsRun(f, St, C, step, start, t)
<1> DEFINE Runs(f, t) == f[0] = start /\ \A k \in 1..Len(t) : f[k] = step[f[k - 1]][t[k]]
           Good == {t \in Seq(C) : \E f \in [0..Len(t) -> St] : Runs(f, t)}
<1>1. <<>> \in Good
  <2>1. <<>> \in Seq(C) /\ Len(<<>>) = 0
    OBVIOUS
  <2>2. [k \in 0..0 |-> start] \in [0..0 -> St] /\ Runs([k \in 0..0 |-> start], <<>>)
    OBVIOUS
  <2> HIDE DEF Runs
  <2> QED
    BY <2>1, <2>2
<1>2. ASSUME NEW t \in Good, NEW c \in C PROVE Append(t, c) \in Good
  <2> DEFINE u == Append(t, c)
             n == Len(t)
  <2>1. t \in Seq(C) /\ n \in Nat /\ u \in Seq(C) /\ Len(u) = n + 1
        /\ u[n + 1] = c /\ \A k \in 1..n : u[k] = t[k]
    BY AppendProperties
  <2>2. PICK f \in [0..n -> St] : Runs(f, t)
    BY <1>2
  <2> DEFINE g == [k \in 0..(n + 1) |-> IF k = n + 1 THEN step[f[n]][c] ELSE f[k]]
  <2>3. g \in [0..(n + 1) -> St]
    <3>1. n \in 0..n /\ f[n] \in St /\ step[f[n]][c] \in St
      <4>1. n \in 0..n
        BY <2>1
      <4> HIDE DEF n
      <4>2. f[n] \in St
        BY <4>1
      <4> QED
        BY <4>1, <4>2
    <3>2. \A k \in 0..(n + 1) : k # n + 1 => k \in 0..n
      BY <2>1
    <3> HIDE DEF n
    <3> QED
      BY <3>1, <3>2
  <2>4. Runs(g, u)
    <3>1. g[0] = start
      BY <2>1, <2>2
    <3>2. ASSUME NEW k \in 1..(n + 1) PROVE g[k] = step[g[k - 1]][u[k]]
      <4>1. CASE k = n + 1
        <5>1. g[k] = step[f[n]][c] /\ g[k - 1] = f[n] /\ u[k] = c
          BY <2>1, <4>1
        <5> QED
          BY <5>1
      <4>2. CASE k # n + 1
        <5>1. k \in 1..n /\ k - 1 \in 0..n /\ k - 1 # n + 1
          BY <2>1, <4>2
        <5>2. g[k] = f[k] /\ g[k - 1] = f[k - 1] /\ u[k] = t[k]
          BY <2>1, <4>2, <5>1
        <5> QED
          BY <2>2, <5>1, <5>2
      <4> QED
        BY <4>1, <4>2
    <3> QED
      BY <2>1, <3>1, <3>2
  <2> HIDE DEF Runs, g, u
  <2> QED
    BY <2>1, <2>3, <2>4 DEF u
<1>3. Good \in SUBSET Seq(C)
  OBVIOUS
<1> HIDE DEF Good
<1>4. \A t \in Seq(C) : t \in Good
  BY <1>1, <1>2, <1>3, AllSequences
<1> QED
  BY <1>4 DEF Good, IsRun

-----------------------------------------------------------------------------
(* The readers.                                                            *)

Modes == {"start", "quoted", "closed", "bare", "bad"}
NameStates == [parts : Seq(Seq(Chars)), last : Seq(Chars), mode : Modes]
StringStates ==
  [last : Seq(Chars), mode : {"start", "prefix", "in", "closed", "escape", "bad"}, escapes : BOOLEAN]

LEMMA Specials ==
  /\ DQ \in Chars /\ SQ \in Chars /\ BS \in Chars /\ Dot \in Chars /\ Space \in Chars /\ E \in Chars
  /\ DQ # SQ /\ DQ # BS /\ DQ # Dot /\ DQ # Space /\ DQ # E
  /\ SQ # BS /\ SQ # Dot /\ SQ # Space /\ SQ # E
  /\ BS # Dot /\ BS # Space /\ BS # E /\ Dot # Space /\ Dot # E /\ Space # E
  /\ DQ \notin DOMAIN Lower /\ Dot \notin DOMAIN Lower /\ Space \notin DOMAIN Lower
  /\ \A c \in DOMAIN Lower : c \in Chars /\ Lower[c] \in Chars
  /\ NameLen \in Nat \ {0}
<1> DEFINE all == <<DQ, SQ, BS, Dot, Space, E>>
<1>1. \A j, k \in 1..6 : all[j] = all[k] => j = k
  <2>1. DOMAIN all = 1..6
    OBVIOUS
  <2>2. IsInjective(all)
    BY QuotingAssumption
  <2> HIDE DEF all
  <2> QED
    BY <2>1, <2>2 DEF IsInjective
<1>2. /\ all[1] = DQ /\ all[2] = SQ /\ all[3] = BS /\ all[4] = Dot /\ all[5] = Space /\ all[6] = E
  OBVIOUS
<1> HIDE DEF all
<1>3. /\ DQ # SQ /\ DQ # BS /\ DQ # Dot /\ DQ # Space /\ DQ # E
      /\ SQ # BS /\ SQ # Dot /\ SQ # Space /\ SQ # E
      /\ BS # Dot /\ BS # Space /\ BS # E /\ Dot # Space /\ Dot # E /\ Space # E
  BY <1>1, <1>2
<1> QED
  BY <1>3, QuotingAssumption

LEMMA ServerStep ==
  ASSUME NEW st \in NameStates, NEW c \in Chars
  PROVE  ServerReads(st, c) \in NameStates
<1>1. /\ Append(st.last, c) \in Seq(Chars) /\ Append(st.parts, st.last) \in Seq(Seq(Chars))
      /\ Append(st.last, DQ) \in Seq(Chars)
      /\ <<>> \in Seq(Chars)
      /\ c \in DOMAIN Lower => Append(st.last, Lower[c]) \in Seq(Chars)
  BY Specials DEF NameStates
<1> QED
  BY <1>1 DEF NameStates, Modes, ServerReads, Quoted, Extend, NextPart, Bad

LEMMA RegexStep ==
  ASSUME NEW st \in NameStates, NEW c \in Chars
  PROVE  RegexReads(st, c) \in NameStates
<1>1. /\ Append(st.last, c) \in Seq(Chars) /\ Append(st.parts, st.last) \in Seq(Seq(Chars))
      /\ Append(st.last, DQ) \in Seq(Chars)
      /\ <<>> \in Seq(Chars)
  BY Specials DEF NameStates
<1> QED
  BY <1>1 DEF NameStates, Modes, RegexReads, Quoted, Extend, NextPart, Bad

LEMMA StringStep ==
  ASSUME NEW st \in StringStates, NEW c \in Chars
  PROVE  StringReads(st, c) \in StringStates
<1>1. Append(st.last, c) \in Seq(Chars) /\ Append(st.last, SQ) \in Seq(Chars)
  BY Specials DEF StringStates
<1> QED
  BY <1>1 DEF StringStates, StringReads, Extend, Bad

\* A run on a longer text goes on where the run on the shorter one ended.
LEMMA RunAppend ==
  ASSUME NEW St, NEW C, NEW step, NEW start, NEW t, NEW c \in C,
         NEW f, IsRun(f, St, C, step, start, t), NEW g, IsRun(g, St, C, step, start, Append(t, c))
  PROVE  /\ f[Len(t)] \in St
         /\ g[Len(Append(t, c))] = step[f[Len(t)]][c]
<1> DEFINE n == Len(t)
           u == Append(t, c)
<1>1. n \in Nat /\ Len(u) = n + 1 /\ u[n + 1] = c /\ \A k \in 1..n : u[k] = t[k]
  <2>1. t \in Seq(C)
    BY DEF IsRun
  <2> QED
    BY <2>1, AppendProperties
<1>2. f \in [0..n -> St] /\ f[0] = start /\ \A k \in 1..n : f[k] = step[f[k - 1]][t[k]]
  BY DEF IsRun
<1>3. g[0] = start /\ \A k \in 1..(n + 1) : g[k] = step[g[k - 1]][u[k]]
  BY <1>1 DEF IsRun
<1> HIDE DEF n, u
<1>4. ASSUME NEW k \in 1..n, g[k - 1] = f[k - 1] PROVE g[k] = f[k]
  <2>1. k \in 1..(n + 1)
    BY <1>1
  <2> QED
    BY <1>1, <1>2, <1>3, <1>4, <2>1
<1>5. \A k \in 0..n : g[k] = f[k]
  <2>1. n \in Nat /\ g[0] = f[0]
    BY <1>1, <1>2, <1>3
  <2>2. \A k \in 1..n : g[k - 1] = f[k - 1] => g[k] = f[k]
    BY <1>4
  <2>3. Follows(g, f, n)
    BY <2>1, <2>2 DEF Follows
  <2> QED
    BY <2>3, SameRun
<1>6. n \in 0..n /\ n + 1 \in 1..(n + 1) /\ (n + 1) - 1 = n
  BY <1>1
<1>7. g[n + 1] = step[g[(n + 1) - 1]][u[n + 1]]
  BY <1>3, <1>6
<1>8. g[n + 1] = step[f[n]][c]
  BY <1>1, <1>5, <1>6, <1>7
<1>9. f[n] \in St
  BY <1>2, <1>6
<1> QED
  BY <1>1, <1>8, <1>9 DEF n, u

\* What each reader makes of the empty text, and of one more character.
ServerTable == [st \in NameStates |-> [c \in Chars |-> ServerReads(st, c)]]

LEMMA ServerRun ==
  ASSUME NEW start \in NameStates, NEW t \in Seq(Chars)
  PROVE  \E f : /\ IsRun(f, NameStates, Chars, ServerTable, start, t)
                /\ Reading(ServerReads, start, t) = f[Len(t)]
<1> DEFINE n == Len(t)
           Is(f) == f = [k \in 0..Len(t) |-> IF k = 0 THEN start ELSE ServerReads(f[k - 1], t[k])]
           state == CHOOSE f : Is(f)
<1>1. n \in Nat /\ \A k \in 1..n : t[k] \in Chars
  OBVIOUS
<1>2. ServerTable \in [NameStates -> [Chars -> NameStates]]
  BY ServerStep DEF ServerTable
<1>3. \A st \in NameStates, c \in Chars : ServerTable[st][c] = ServerReads(st, c)
  BY DEF ServerTable
<1>4. PICK f : IsRun(f, NameStates, Chars, ServerTable, start, t)
  BY <1>2, RunExists
<1>5. f \in [0..n -> NameStates] /\ f[0] = start
  BY <1>4 DEF IsRun
<1>6. \A k \in 1..n : f[k] = ServerReads(f[k - 1], t[k])
  <2> SUFFICES ASSUME NEW k \in 1..n PROVE f[k] = ServerReads(f[k - 1], t[k])
    OBVIOUS
  <2>1. k - 1 \in 0..n /\ t[k] \in Chars
    BY <1>1
  <2>2. f[k] = ServerTable[f[k - 1]][t[k]]
    BY <1>4 DEF IsRun
  <2> HIDE DEF n
  <2> QED
    BY <1>3, <1>5, <2>1, <2>2
<1>7. Is(f)
  <2>1. \A k \in 0..n : f[k] = IF k = 0 THEN start ELSE ServerReads(f[k - 1], t[k])
    BY <1>1, <1>5, <1>6
  <2>2. f = [k \in 0..n |-> f[k]]
    BY <1>5
  <2> QED
    BY <2>1, <2>2
<1>8. Is(state)
  BY <1>7
<1>9. Reading(ServerReads, start, t) = state[n]
  BY DEF Reading
<1> HIDE DEF state
<1>10. state[0] = start /\ \A k \in 1..n : state[k] = ServerReads(state[k - 1], t[k])
  BY <1>1, <1>8
<1>11. state[n] = f[n]
  <2> HIDE DEF n, Is
  <2>1. \A k \in 1..n : state[k - 1] = f[k - 1] => state[k] = f[k]
    BY <1>6, <1>10
  <2>2. n \in Nat /\ state[0] = f[0]
    BY <1>1, <1>5, <1>10
  <2>3. Follows(state, f, n)
    BY <2>1, <2>2 DEF Follows
  <2>4. \A k \in 0..n : state[k] = f[k]
    BY <2>3, SameRun
  <2> QED
    BY <1>1, <2>4
<1> QED
  BY <1>4, <1>9, <1>11

ServerState(start, t) == Reading(ServerReads, start, t)

LEMMA ServerReading ==
  ASSUME NEW start \in NameStates
  PROVE  /\ ServerState(start, <<>>) = start
         /\ \A t \in Seq(Chars) : ServerState(start, t) \in NameStates
         /\ \A t \in Seq(Chars), c \in Chars :
              ServerState(start, Append(t, c)) = ServerReads(ServerState(start, t), c)
<1>1. ServerTable \in [NameStates -> [Chars -> NameStates]]
  BY ServerStep DEF ServerTable
<1>2. ServerState(start, <<>>) = start
  <2>1. <<>> \in Seq(Chars) /\ Len(<<>>) = 0
    OBVIOUS
  <2> QED
    BY <2>1, ServerRun DEF IsRun, ServerState
<1>3. ASSUME NEW t \in Seq(Chars), NEW c \in Chars
      PROVE  /\ ServerState(start, t) \in NameStates
             /\ ServerState(start, Append(t, c)) = ServerReads(ServerState(start, t), c)
  <2>1. Append(t, c) \in Seq(Chars)
    OBVIOUS
  <2>2. PICK f : /\ IsRun(f, NameStates, Chars, ServerTable, start, t)
                 /\ ServerState(start, t) = f[Len(t)]
    BY ServerRun DEF ServerState
  <2>3. PICK g : /\ IsRun(g, NameStates, Chars, ServerTable, start, Append(t, c))
                 /\ ServerState(start, Append(t, c)) = g[Len(Append(t, c))]
    BY <2>1, ServerRun DEF ServerState
  <2>4. f[Len(t)] \in NameStates /\ g[Len(Append(t, c))] = ServerTable[f[Len(t)]][c]
    BY <1>1, <2>2, <2>3, RunAppend
  <2>5. ServerTable[f[Len(t)]][c] = ServerReads(f[Len(t)], c)
    BY <2>4 DEF ServerTable
  <2> QED
    BY <2>2, <2>3, <2>4, <2>5
<1> QED
  BY <1>2, <1>3, Specials

RegexTable == [st \in NameStates |-> [c \in Chars |-> RegexReads(st, c)]]

LEMMA RegexRun ==
  ASSUME NEW start \in NameStates, NEW t \in Seq(Chars)
  PROVE  \E f : /\ IsRun(f, NameStates, Chars, RegexTable, start, t)
                /\ Reading(RegexReads, start, t) = f[Len(t)]
<1> DEFINE n == Len(t)
           Is(f) == f = [k \in 0..Len(t) |-> IF k = 0 THEN start ELSE RegexReads(f[k - 1], t[k])]
           state == CHOOSE f : Is(f)
<1>1. n \in Nat /\ \A k \in 1..n : t[k] \in Chars
  OBVIOUS
<1>2. RegexTable \in [NameStates -> [Chars -> NameStates]]
  BY RegexStep DEF RegexTable
<1>3. \A st \in NameStates, c \in Chars : RegexTable[st][c] = RegexReads(st, c)
  BY DEF RegexTable
<1>4. PICK f : IsRun(f, NameStates, Chars, RegexTable, start, t)
  BY <1>2, RunExists
<1>5. f \in [0..n -> NameStates] /\ f[0] = start
  BY <1>4 DEF IsRun
<1>6. \A k \in 1..n : f[k] = RegexReads(f[k - 1], t[k])
  <2> SUFFICES ASSUME NEW k \in 1..n PROVE f[k] = RegexReads(f[k - 1], t[k])
    OBVIOUS
  <2>1. k - 1 \in 0..n /\ t[k] \in Chars
    BY <1>1
  <2>2. f[k] = RegexTable[f[k - 1]][t[k]]
    BY <1>4 DEF IsRun
  <2> HIDE DEF n
  <2> QED
    BY <1>3, <1>5, <2>1, <2>2
<1>7. Is(f)
  <2>1. \A k \in 0..n : f[k] = IF k = 0 THEN start ELSE RegexReads(f[k - 1], t[k])
    BY <1>1, <1>5, <1>6
  <2>2. f = [k \in 0..n |-> f[k]]
    BY <1>5
  <2> QED
    BY <2>1, <2>2
<1>8. Is(state)
  BY <1>7
<1>9. Reading(RegexReads, start, t) = state[n]
  BY DEF Reading
<1> HIDE DEF state
<1>10. state[0] = start /\ \A k \in 1..n : state[k] = RegexReads(state[k - 1], t[k])
  BY <1>1, <1>8
<1>11. state[n] = f[n]
  <2> HIDE DEF n, Is
  <2>1. \A k \in 1..n : state[k - 1] = f[k - 1] => state[k] = f[k]
    BY <1>6, <1>10
  <2>2. n \in Nat /\ state[0] = f[0]
    BY <1>1, <1>5, <1>10
  <2>3. Follows(state, f, n)
    BY <2>1, <2>2 DEF Follows
  <2>4. \A k \in 0..n : state[k] = f[k]
    BY <2>3, SameRun
  <2> QED
    BY <1>1, <2>4
<1> QED
  BY <1>4, <1>9, <1>11

RegexState(start, t) == Reading(RegexReads, start, t)

LEMMA RegexReading ==
  ASSUME NEW start \in NameStates
  PROVE  /\ RegexState(start, <<>>) = start
         /\ \A t \in Seq(Chars) : RegexState(start, t) \in NameStates
         /\ \A t \in Seq(Chars), c \in Chars :
              RegexState(start, Append(t, c)) = RegexReads(RegexState(start, t), c)
<1>1. RegexTable \in [NameStates -> [Chars -> NameStates]]
  BY RegexStep DEF RegexTable
<1>2. RegexState(start, <<>>) = start
  <2>1. <<>> \in Seq(Chars) /\ Len(<<>>) = 0
    OBVIOUS
  <2> QED
    BY <2>1, RegexRun DEF IsRun, RegexState
<1>3. ASSUME NEW t \in Seq(Chars), NEW c \in Chars
      PROVE  /\ RegexState(start, t) \in NameStates
             /\ RegexState(start, Append(t, c)) = RegexReads(RegexState(start, t), c)
  <2>1. Append(t, c) \in Seq(Chars)
    OBVIOUS
  <2>2. PICK f : /\ IsRun(f, NameStates, Chars, RegexTable, start, t)
                 /\ RegexState(start, t) = f[Len(t)]
    BY RegexRun DEF RegexState
  <2>3. PICK g : /\ IsRun(g, NameStates, Chars, RegexTable, start, Append(t, c))
                 /\ RegexState(start, Append(t, c)) = g[Len(Append(t, c))]
    BY <2>1, RegexRun DEF RegexState
  <2>4. f[Len(t)] \in NameStates /\ g[Len(Append(t, c))] = RegexTable[f[Len(t)]][c]
    BY <1>1, <2>2, <2>3, RunAppend
  <2>5. RegexTable[f[Len(t)]][c] = RegexReads(f[Len(t)], c)
    BY <2>4 DEF RegexTable
  <2> QED
    BY <2>2, <2>3, <2>4, <2>5
<1> QED
  BY <1>2, <1>3, Specials

StringTable == [st \in StringStates |-> [c \in Chars |-> StringReads(st, c)]]

LEMMA StringRun ==
  ASSUME NEW start \in StringStates, NEW t \in Seq(Chars)
  PROVE  \E f : /\ IsRun(f, StringStates, Chars, StringTable, start, t)
                /\ Reading(StringReads, start, t) = f[Len(t)]
<1> DEFINE n == Len(t)
           Is(f) == f = [k \in 0..Len(t) |-> IF k = 0 THEN start ELSE StringReads(f[k - 1], t[k])]
           state == CHOOSE f : Is(f)
<1>1. n \in Nat /\ \A k \in 1..n : t[k] \in Chars
  OBVIOUS
<1>2. StringTable \in [StringStates -> [Chars -> StringStates]]
  BY StringStep DEF StringTable
<1>3. \A st \in StringStates, c \in Chars : StringTable[st][c] = StringReads(st, c)
  BY DEF StringTable
<1>4. PICK f : IsRun(f, StringStates, Chars, StringTable, start, t)
  BY <1>2, RunExists
<1>5. f \in [0..n -> StringStates] /\ f[0] = start
  BY <1>4 DEF IsRun
<1>6. \A k \in 1..n : f[k] = StringReads(f[k - 1], t[k])
  <2> SUFFICES ASSUME NEW k \in 1..n PROVE f[k] = StringReads(f[k - 1], t[k])
    OBVIOUS
  <2>1. k - 1 \in 0..n /\ t[k] \in Chars
    BY <1>1
  <2>2. f[k] = StringTable[f[k - 1]][t[k]]
    BY <1>4 DEF IsRun
  <2> HIDE DEF n
  <2> QED
    BY <1>3, <1>5, <2>1, <2>2
<1>7. Is(f)
  <2>1. \A k \in 0..n : f[k] = IF k = 0 THEN start ELSE StringReads(f[k - 1], t[k])
    BY <1>1, <1>5, <1>6
  <2>2. f = [k \in 0..n |-> f[k]]
    BY <1>5
  <2> QED
    BY <2>1, <2>2
<1>8. Is(state)
  BY <1>7
<1>9. Reading(StringReads, start, t) = state[n]
  BY DEF Reading
<1> HIDE DEF state
<1>10. state[0] = start /\ \A k \in 1..n : state[k] = StringReads(state[k - 1], t[k])
  BY <1>1, <1>8
<1>11. state[n] = f[n]
  <2> HIDE DEF n, Is
  <2>1. \A k \in 1..n : state[k - 1] = f[k - 1] => state[k] = f[k]
    BY <1>6, <1>10
  <2>2. n \in Nat /\ state[0] = f[0]
    BY <1>1, <1>5, <1>10
  <2>3. Follows(state, f, n)
    BY <2>1, <2>2 DEF Follows
  <2>4. \A k \in 0..n : state[k] = f[k]
    BY <2>3, SameRun
  <2> QED
    BY <1>1, <2>4
<1> QED
  BY <1>4, <1>9, <1>11

StringState(start, t) == Reading(StringReads, start, t)

LEMMA StringReading ==
  ASSUME NEW start \in StringStates
  PROVE  /\ StringState(start, <<>>) = start
         /\ \A t \in Seq(Chars) : StringState(start, t) \in StringStates
         /\ \A t \in Seq(Chars), c \in Chars :
              StringState(start, Append(t, c)) = StringReads(StringState(start, t), c)
<1>1. StringTable \in [StringStates -> [Chars -> StringStates]]
  BY StringStep DEF StringTable
<1>2. StringState(start, <<>>) = start
  <2>1. <<>> \in Seq(Chars) /\ Len(<<>>) = 0
    OBVIOUS
  <2> QED
    BY <2>1, StringRun DEF IsRun, StringState
<1>3. ASSUME NEW t \in Seq(Chars), NEW c \in Chars
      PROVE  /\ StringState(start, t) \in StringStates
             /\ StringState(start, Append(t, c)) = StringReads(StringState(start, t), c)
  <2>1. Append(t, c) \in Seq(Chars)
    OBVIOUS
  <2>2. PICK f : /\ IsRun(f, StringStates, Chars, StringTable, start, t)
                 /\ StringState(start, t) = f[Len(t)]
    BY StringRun DEF StringState
  <2>3. PICK g : /\ IsRun(g, StringStates, Chars, StringTable, start, Append(t, c))
                 /\ StringState(start, Append(t, c)) = g[Len(Append(t, c))]
    BY <2>1, StringRun DEF StringState
  <2>4. f[Len(t)] \in StringStates /\ g[Len(Append(t, c))] = StringTable[f[Len(t)]][c]
    BY <1>1, <2>2, <2>3, RunAppend
  <2>5. StringTable[f[Len(t)]][c] = StringReads(f[Len(t)], c)
    BY <2>4 DEF StringTable
  <2> QED
    BY <2>2, <2>3, <2>4, <2>5
<1> QED
  BY <1>2, <1>3, Specials

-----------------------------------------------------------------------------
(* Quoted texts.                                                           *)

FlatTable(S) == [s \in Seq(S) |-> [x \in Seq(S) |-> s \o x]]

\* FlattenSeq() runs through the sequences.
LEMMA FlattenRun ==
  ASSUME NEW S, NEW seqs \in Seq(Seq(S))
  PROVE  \E f : /\ IsRun(f, Seq(S), Seq(S), FlatTable(S), <<>>, seqs)
                /\ FlattenSeq(seqs) = f[Len(seqs)]
<1> DEFINE n == Len(seqs)
           Is(f) == f = [i \in 1..Len(seqs) |-> IF i = 1 THEN seqs[i] ELSE f[i - 1] \o seqs[i]]
           flatten == CHOOSE f : Is(f)
<1>1. n \in Nat /\ \A k \in 1..n : seqs[k] \in Seq(S)
  OBVIOUS
<1>2. FlatTable(S) \in [Seq(S) -> [Seq(S) -> Seq(S)]] /\ <<>> \in Seq(S)
  <2>1. \A s, x \in Seq(S) : s \o x \in Seq(S)
    OBVIOUS
  <2> QED
    BY <2>1 DEF FlatTable
<1>3. PICK f : IsRun(f, Seq(S), Seq(S), FlatTable(S), <<>>, seqs)
  BY <1>2, RunExists
<1>4. f \in [0..n -> Seq(S)] /\ f[0] = <<>>
  BY <1>3 DEF IsRun
<1>5. \A k \in 1..n : f[k] = f[k - 1] \o seqs[k]
  <2> SUFFICES ASSUME NEW k \in 1..n PROVE f[k] = f[k - 1] \o seqs[k]
    OBVIOUS
  <2>1. k - 1 \in 0..n /\ seqs[k] \in Seq(S)
    BY <1>1
  <2>2. f[k] = FlatTable(S)[f[k - 1]][seqs[k]]
    BY <1>3 DEF IsRun
  <2>3. f[k - 1] \in Seq(S)
    BY <1>4, <2>1
  <2> QED
    BY <2>1, <2>2, <2>3 DEF FlatTable
<1>6. CASE n = 0
  <2>1. seqs = <<>> /\ FlattenSeq(seqs) = seqs
    BY <1>6 DEF FlattenSeq
  <2> QED
    BY <1>3, <1>4, <1>6, <2>1
<1>7. CASE n # 0
  <2> DEFINE front == [i \in 1..n |-> f[i]]
  <2>1. ASSUME NEW i \in 1..n
        PROVE  front[i] = IF i = 1 THEN seqs[i] ELSE front[i - 1] \o seqs[i]
    <3>1. CASE i = 1
      <4>1. front[1] = f[1] /\ 1 - 1 = 0
        BY <3>1
      <4>2. f[1] = f[0] \o seqs[1] /\ seqs[1] \in Seq(S)
        BY <1>1, <1>5, <3>1, <4>1
      <4> QED
        BY <1>4, <3>1, <4>1, <4>2
    <3>2. CASE i # 1
      <4>1. i - 1 \in 1..n
        BY <1>1, <3>2
      <4>2. front[i] = f[i] /\ front[i - 1] = f[i - 1]
        BY <4>1
      <4> QED
        BY <1>5, <3>2, <4>2
    <3> QED
      BY <3>1, <3>2
  <2>2. front = [i \in 1..n |-> front[i]]
    OBVIOUS
  <2>3. Is(front)
    <3> HIDE DEF front
    <3> QED
      BY <2>1, <2>2
  <2> HIDE DEF front
  <2>4. Is(flatten)
    BY <2>3
  <2>5. FlattenSeq(seqs) = flatten[n]
    BY <1>7 DEF FlattenSeq
  <2> HIDE DEF flatten
  <2>6. \A i \in 1..n : flatten[i] = IF i = 1 THEN seqs[i] ELSE flatten[i - 1] \o seqs[i]
    BY <1>1, <2>4
  <2>10. /\ flatten[1] = seqs[1] /\ seqs[1] \in Seq(S) /\ f[1] = f[0] \o seqs[1]
         /\ \A i \in 1..n : i # 1 => flatten[i] = flatten[i - 1] \o seqs[i]
    <3> HIDE DEF n, Is
    <3>1. 1 \in 1..n /\ 1 - 1 = 0
      BY <1>1, <1>7
    <3> QED
      BY <1>1, <1>5, <2>6, <3>1
  <2> DEFINE g == [k \in 0..n |-> IF k = 0 THEN <<>> ELSE flatten[k]]
  <2> HIDE DEF Is, n
  <2>7. ASSUME NEW k \in 1..n, g[k - 1] = f[k - 1] PROVE g[k] = f[k]
    <3>1. k \in 0..n /\ k - 1 \in 0..n /\ k # 0
      BY <1>1
    <3>2. g[k] = flatten[k]
      BY <3>1
    <3>3. CASE k = 1
      <4> HIDE DEF g
      <4> QED
        BY <1>4, <2>10, <3>2, <3>3
    <3>4. CASE k # 1
      <4>1. flatten[k] = flatten[k - 1] \o seqs[k] /\ k - 1 # 0
        <5> HIDE DEF g
        <5>1. k - 1 # 0
          BY <1>1, <3>4
        <5> QED
          BY <2>10, <3>4, <5>1
      <4>2. g[k - 1] = flatten[k - 1]
        BY <3>1, <4>1
      <4> QED
        BY <1>5, <2>7, <3>2, <4>1, <4>2
    <3> QED
      BY <3>3, <3>4
  <2>8. g[0] = f[0] /\ g[n] = flatten[n] /\ n \in 0..n
    BY <1>1, <1>4, <1>7
  <2> HIDE DEF g
  <2>9. g[n] = f[n]
    <3>1. \A k \in 1..n : g[k - 1] = f[k - 1] => g[k] = f[k]
      BY <2>7
    <3>2. \A k \in 0..n : g[k] = f[k]
      <4>1. Follows(g, f, n)
        BY <1>1, <2>8, <3>1 DEF Follows
      <4> QED
        BY <4>1, SameRun
    <3> QED
      BY <2>8, <3>2
  <2> QED
    BY <1>3, <2>5, <2>8, <2>9 DEF n
<1> QED
  BY <1>6, <1>7

LEMMA Flattened ==
  ASSUME NEW S
  PROVE  /\ FlattenSeq(<<>>) = <<>>
         /\ \A seqs \in Seq(Seq(S)) : FlattenSeq(seqs) \in Seq(S)
         /\ \A seqs \in Seq(Seq(S)), x \in Seq(S) :
              FlattenSeq(Append(seqs, x)) = FlattenSeq(seqs) \o x
<1>1. FlattenSeq(<<>>) = <<>>
  BY DEF FlattenSeq
<1>2. ASSUME NEW seqs \in Seq(Seq(S)), NEW x \in Seq(S)
      PROVE  /\ FlattenSeq(seqs) \in Seq(S)
             /\ FlattenSeq(Append(seqs, x)) = FlattenSeq(seqs) \o x
  <2>1. Append(seqs, x) \in Seq(Seq(S))
    OBVIOUS
  <2>2. PICK f : /\ IsRun(f, Seq(S), Seq(S), FlatTable(S), <<>>, seqs)
                 /\ FlattenSeq(seqs) = f[Len(seqs)]
    BY FlattenRun
  <2>3. PICK g : /\ IsRun(g, Seq(S), Seq(S), FlatTable(S), <<>>, Append(seqs, x))
                 /\ FlattenSeq(Append(seqs, x)) = g[Len(Append(seqs, x))]
    BY <2>1, FlattenRun
  <2>4. f[Len(seqs)] \in Seq(S) /\ g[Len(Append(seqs, x))] = FlatTable(S)[f[Len(seqs)]][x]
    BY <2>2, <2>3, RunAppend
  <2> QED
    BY <2>2, <2>3, <2>4 DEF FlatTable
<1>3. <<>> \in Seq(S)
  OBVIOUS
<1> QED
  BY <1>1, <1>2, <1>3

\* A text whose special characters are doubled grows by one or two characters.
Twice(c, special) == IF c \in special THEN <<c, c>> ELSE <<c>>

LEMMA DoubledGrows ==
  ASSUME NEW special
  PROVE  /\ Doubled(<<>>, special) = <<>>
         /\ \A s \in Seq(Chars) : Doubled(s, special) \in Seq(Chars)
         /\ \A s \in Seq(Chars), c \in Chars :
              Doubled(Append(s, c), special) = Doubled(s, special) \o Twice(c, special)
<1> DEFINE Pairs(s) == [k \in DOMAIN s |-> IF s[k] \in special THEN <<s[k], s[k]>> ELSE <<s[k]>>]
<1>1. \A s : Doubled(s, special) = FlattenSeq(Pairs(s))
  BY DEF Doubled
<1>2. \A c \in Chars : Twice(c, special) \in Seq(Chars)
  BY DEF Twice
<1>3. ASSUME NEW s \in Seq(Chars)
      PROVE  /\ Pairs(s) \in Seq(Seq(Chars)) /\ Len(Pairs(s)) = Len(s)
             /\ \A k \in 1..Len(s) : Pairs(s)[k] = Twice(s[k], special)
  <2>1. DOMAIN s = 1..Len(s) /\ Len(s) \in Nat /\ \A k \in 1..Len(s) : s[k] \in Chars
    OBVIOUS
  <2>2. Pairs(s) = [k \in 1..Len(s) |-> Twice(s[k], special)]
    BY <2>1 DEF Twice
  <2>3. \A k \in 1..Len(s) : Twice(s[k], special) \in Seq(Chars)
    BY <1>2, <2>1
  <2> HIDE DEF Pairs
  <2>4. Pairs(s) \in [1..Len(s) -> Seq(Chars)]
    BY <2>2, <2>3
  <2> QED
    BY <2>1, <2>2, <2>4
<1>4. Pairs(<<>>) = <<>>
  OBVIOUS
<1> HIDE DEF Pairs
<1>5. ASSUME NEW s \in Seq(Chars), NEW c \in Chars
      PROVE  Pairs(Append(s, c)) = Append(Pairs(s), Twice(c, special))
  <2> DEFINE u == Append(s, c)
             v == Append(Pairs(s), Twice(c, special))
  <2>1. /\ u \in Seq(Chars) /\ Len(u) = Len(s) + 1 /\ u[Len(s) + 1] = c
        /\ \A k \in 1..Len(s) : u[k] = s[k]
    BY AppendProperties
  <2>2. Pairs(s) \in Seq(Seq(Chars)) /\ Len(Pairs(s)) = Len(s) /\ Len(s) \in Nat
        /\ \A k \in 1..Len(s) : Pairs(s)[k] = Twice(s[k], special)
    BY <1>3
  <2>3. Pairs(u) \in Seq(Seq(Chars)) /\ Len(Pairs(u)) = Len(u)
        /\ \A k \in 1..Len(u) : Pairs(u)[k] = Twice(u[k], special)
    BY <1>3, <2>1
  <2> HIDE DEF u
  <2>4. /\ v \in Seq(Seq(Chars)) /\ Len(v) = Len(s) + 1 /\ v[Len(s) + 1] = Twice(c, special)
        /\ \A k \in 1..Len(s) : v[k] = Twice(s[k], special)
    BY <1>2, <2>2, AppendProperties
  <2> HIDE DEF v
  <2>5. \A k \in 1..Len(u) : Pairs(u)[k] = v[k]
    <3> SUFFICES ASSUME NEW k \in 1..Len(u) PROVE Pairs(u)[k] = v[k]
      OBVIOUS
    <3>1. k = Len(s) + 1 \/ k \in 1..Len(s)
      BY <2>1, <2>2
    <3> QED
      BY <2>1, <2>3, <2>4, <3>1
  <2>6. Pairs(u) = v
    BY <2>1, <2>3, <2>4, <2>5, SeqEqual
  <2> QED
    BY <2>6 DEF u, v
<1>6. ASSUME NEW s \in Seq(Chars), NEW c \in Chars
      PROVE  FlattenSeq(Pairs(Append(s, c))) = FlattenSeq(Pairs(s)) \o Twice(c, special)
  BY <1>2, <1>3, <1>5, Flattened
<1>7. \A s \in Seq(Chars) : FlattenSeq(Pairs(s)) \in Seq(Chars)
  BY <1>3, Flattened
<1>8. FlattenSeq(<<>>) = <<>>
  BY Flattened
<1> QED
  BY <1>1, <1>4, <1>6, <1>7, <1>8

-----------------------------------------------------------------------------
(* Strings.                                                                *)

\* One more character of the string in its literal, and one more in what the
\* server has read.
LEMMA StringGrows ==
  ASSUME NEW start \in StringStates, NEW t \in Seq(Chars), NEW s \in Seq(Chars), NEW c \in Chars,
         NEW escapes \in BOOLEAN, escapes \/ c # BS,
         StringState(start, t) = [last |-> s, mode |-> "in", escapes |-> escapes]
  PROVE  StringState(start, t \o Twice(c, {SQ, BS}))
           = [last |-> Append(s, c), mode |-> "in", escapes |-> escapes]
<1> DEFINE In(r) == [last |-> r, mode |-> "in", escapes |-> escapes]
           once == Append(t, c)
<1>1. once \in Seq(Chars)
  OBVIOUS
<1>2. StringState(start, once) = StringReads(In(s), c)
  BY StringReading
<1>3. CASE c \notin {SQ, BS}
  <2>1. t \o Twice(c, {SQ, BS}) = once
    BY <1>3, AppendIsConcat DEF Twice
  <2>2. StringReads(In(s), c) = In(Append(s, c))
    BY <1>3, Specials DEF StringReads, Extend
  <2> QED
    BY <1>2, <2>1, <2>2
<1>4. CASE c \in {SQ, BS}
  <2>1. t \o Twice(c, {SQ, BS}) = Append(once, c)
    <3>1. t \o <<c, c>> = Append(Append(t, c), c)
      OBVIOUS
    <3> QED
      BY <1>4, <3>1 DEF Twice
  <2>2. StringState(start, Append(once, c)) = StringReads(StringReads(In(s), c), c)
    <3> HIDE DEF In, once
    <3>1. StringState(start, Append(once, c)) = StringReads(StringState(start, once), c)
      BY <1>1, StringReading
    <3> QED
      BY <1>2, <3>1
  <2>3. CASE c = SQ
    <3>1. StringReads(In(s), SQ) = [last |-> s, mode |-> "closed", escapes |-> escapes]
      BY Specials DEF StringReads
    <3>2. StringReads([last |-> s, mode |-> "closed", escapes |-> escapes], SQ) = In(Append(s, SQ))
      BY Specials DEF StringReads, Extend
    <3> QED
      BY <2>1, <2>2, <2>3, <3>1, <3>2
  <2>4. CASE c = BS
    <3>1. escapes = TRUE
      BY <2>4
    <3>2. StringReads(In(s), BS) = [last |-> s, mode |-> "escape", escapes |-> escapes]
      BY <3>1, Specials DEF StringReads
    <3>3. StringReads([last |-> s, mode |-> "escape", escapes |-> escapes], BS) = In(Append(s, BS))
      BY Specials DEF StringReads, Extend
    <3> QED
      BY <2>1, <2>2, <2>4, <3>2, <3>3
  <2> QED
    BY <1>4, <2>3, <2>4
<1> QED
  BY <1>3, <1>4

\* After the opening quote the server reads exactly the string, if backslashes
\* are special or there are none.
LEMMA StringIsInside ==
  ASSUME NEW start \in StringStates, NEW t \in Seq(Chars), NEW escapes \in BOOLEAN,
         StringState(start, t) = [last |-> <<>>, mode |-> "in", escapes |-> escapes]
  PROVE  \A s \in Seq(Chars) : (escapes \/ \A k \in DOMAIN s : s[k] # BS) =>
           StringState(start, t \o Doubled(s, {SQ, BS}))
             = [last |-> s, mode |-> "in", escapes |-> escapes]
<1> DEFINE D(s) == Doubled(s, {SQ, BS})
           Plain(s) == escapes \/ \A k \in DOMAIN s : s[k] # BS
           Good == {s \in Seq(Chars) : Plain(s) =>
                      StringState(start, t \o D(s))
                        = [last |-> s, mode |-> "in", escapes |-> escapes]}
<1>1. <<>> \in Good
  <2>1. D(<<>>) = <<>> /\ <<>> \in Seq(Chars) /\ t \o <<>> = t
    BY DoubledGrows
  <2> QED
    BY <2>1
<1>2. ASSUME NEW s \in Good, NEW c \in Chars PROVE Append(s, c) \in Good
  <2>1. s \in Seq(Chars) /\ Append(s, c) \in Seq(Chars)
    OBVIOUS
  <2>2. ASSUME Plain(Append(s, c)) PROVE Plain(s) /\ (escapes \/ c # BS)
    <3>1. /\ Len(Append(s, c)) = Len(s) + 1 /\ Append(s, c)[Len(s) + 1] = c
          /\ \A k \in 1..Len(s) : Append(s, c)[k] = s[k]
      BY <2>1, AppendProperties
    <3>2. DOMAIN s = 1..Len(s) /\ DOMAIN Append(s, c) = 1..(Len(s) + 1) /\ Len(s) \in Nat
      BY <2>1, <3>1
    <3>3. ASSUME ~escapes PROVE c # BS /\ \A k \in DOMAIN s : s[k] # BS
      <4>1. \A k \in 1..(Len(s) + 1) : Append(s, c)[k] # BS
        BY <2>2, <3>2, <3>3
      <4>2. Len(s) + 1 \in 1..(Len(s) + 1) /\ \A k \in 1..Len(s) : k \in 1..(Len(s) + 1)
        BY <3>2
      <4> QED
        BY <3>1, <3>2, <4>1, <4>2
    <3> QED
      BY <3>3
  <2>3. t \o D(Append(s, c)) = (t \o D(s)) \o Twice(c, {SQ, BS})
    <3>1. D(s) \in Seq(Chars) /\ D(Append(s, c)) = D(s) \o Twice(c, {SQ, BS})
      BY <2>1, DoubledGrows
    <3>2. Twice(c, {SQ, BS}) \in Seq(Chars)
      BY DEF Twice
    <3> HIDE DEF D
    <3> QED
      BY <3>1, <3>2, ConcatAssociative
  <2>4. t \o D(s) \in Seq(Chars)
    <3>1. D(s) \in Seq(Chars)
      BY <2>1, DoubledGrows
    <3> HIDE DEF D
    <3> QED
      BY <3>1
  <2> HIDE DEF D, Plain
  <2>5. Plain(Append(s, c)) =>
          StringState(start, (t \o D(s)) \o Twice(c, {SQ, BS}))
            = [last |-> Append(s, c), mode |-> "in", escapes |-> escapes]
    BY <2>1, <2>2, <2>4, StringGrows
  <2> QED
    BY <2>1, <2>3, <2>5
<1>3. Good \in SUBSET Seq(Chars)
  OBVIOUS
<1> HIDE DEF Good
<1>4. \A s \in Seq(Chars) : s \in Good
  BY <1>1, <1>2, <1>3, AllSequences
<1> QED
  BY <1>4 DEF Good

\* A literal is read as the string that was quoted.
LEMMA LiteralIsRead ==
  ASSUME NEW start \in StringStates, NEW t \in Seq(Chars), NEW escapes \in BOOLEAN,
         StringState(start, t) = [last |-> <<>>, mode |-> "in", escapes |-> escapes],
         NEW s \in Seq(Chars), escapes \/ \A k \in DOMAIN s : s[k] # BS
  PROVE  StringState(start, t \o (Doubled(s, {SQ, BS}) \o <<SQ>>))
           = [last |-> s, mode |-> "closed", escapes |-> escapes]
<1> DEFINE d == Doubled(s, {SQ, BS})
           u == t \o d
<1>1. d \in Seq(Chars) /\ u \in Seq(Chars)
  <2>1. d \in Seq(Chars)
    BY DoubledGrows
  <2> HIDE DEF d
  <2> QED
    BY <2>1
<1>2. StringState(start, u) = [last |-> s, mode |-> "in", escapes |-> escapes]
  BY StringIsInside
<1> HIDE DEF d
<1>3. t \o (d \o <<SQ>>) = Append(u, SQ)
  <2>1. <<SQ>> \in Seq(Chars) /\ SQ \in Chars
    BY Specials
  <2>2. t \o (d \o <<SQ>>) = (t \o d) \o <<SQ>>
    BY <1>1, <2>1, ConcatAssociative
  <2> QED
    BY <1>1, <2>1, <2>2, AppendIsConcat
<1> HIDE DEF u
<1>4. StringState(start, Append(u, SQ))
        = StringReads([last |-> s, mode |-> "in", escapes |-> escapes], SQ)
  BY <1>1, <1>2, Specials, StringReading
<1>5. StringReads([last |-> s, mode |-> "in", escapes |-> escapes], SQ)
        = [last |-> s, mode |-> "closed", escapes |-> escapes]
  BY Specials DEF StringReads
<1> QED
  BY <1>3, <1>4, <1>5 DEF d

StringStart(escapes) == [last |-> <<>>, mode |-> "start", escapes |-> escapes]

LEMMA Openings ==
  ASSUME NEW escapes \in BOOLEAN
  PROVE  /\ StringStart(escapes) \in StringStates
         /\ StringState(StringStart(escapes), <<SQ>>)
              = [last |-> <<>>, mode |-> "in", escapes |-> escapes]
         /\ StringState(StringStart(escapes), <<Space, E, SQ>>)
              = [last |-> <<>>, mode |-> "in", escapes |-> TRUE]
<1> DEFINE start == StringStart(escapes)
           prefix == [last |-> <<>>, mode |-> "prefix", escapes |-> TRUE]
<1>1. start \in StringStates
  BY DEF StringStart, StringStates
<1>2. <<>> \in Seq(Chars) /\ <<Space>> \in Seq(Chars) /\ <<Space, E>> \in Seq(Chars)
  BY Specials
<1>4. /\ StringReads(start, SQ) = [last |-> <<>>, mode |-> "in", escapes |-> escapes]
      /\ StringReads(start, Space) = start
      /\ StringReads(start, E) = prefix
      /\ StringReads(prefix, SQ) = [last |-> <<>>, mode |-> "in", escapes |-> TRUE]
  BY Specials DEF StringReads, StringStart
<1> HIDE DEF start, prefix
<1>5. /\ StringState(start, <<>>) = start
      /\ \A t \in Seq(Chars), c \in Chars :
           StringState(start, Append(t, c)) = StringReads(StringState(start, t), c)
  BY <1>1, StringReading
<1>6. StringState(start, <<SQ>>) = StringReads(start, SQ)
  <2>1. StringState(start, Append(<<>>, SQ)) = StringReads(StringState(start, <<>>), SQ)
    BY <1>2, <1>5, Specials
  <2>2. Append(<<>>, SQ) = <<SQ>>
    OBVIOUS
  <2> QED
    BY <1>5, <2>1, <2>2
<1>7. StringState(start, <<Space>>) = start
  <2>1. StringState(start, Append(<<>>, Space)) = StringReads(StringState(start, <<>>), Space)
    BY <1>2, <1>5, Specials
  <2>2. Append(<<>>, Space) = <<Space>>
    OBVIOUS
  <2> QED
    BY <1>4, <1>5, <2>1, <2>2
<1>8. StringState(start, <<Space, E>>) = prefix
  <2>1. StringState(start, Append(<<Space>>, E)) = StringReads(StringState(start, <<Space>>), E)
    BY <1>2, <1>5, Specials
  <2>2. Append(<<Space>>, E) = <<Space, E>>
    BY TwoElements
  <2> QED
    BY <1>4, <1>7, <2>1, <2>2
<1>9. StringState(start, <<Space, E, SQ>>) = StringReads(prefix, SQ)
  <2>1. StringState(start, Append(<<Space, E>>, SQ))
          = StringReads(StringState(start, <<Space, E>>), SQ)
    BY <1>2, <1>5, Specials
  <2>2. Append(<<Space, E>>, SQ) = <<Space, E, SQ>>
    BY ThreeElements
  <2> QED
    BY <1>8, <2>1, <2>2
<1> QED
  BY <1>1, <1>4, <1>6, <1>9 DEF start

\* The server reads back every string that it is given quoted.
LEMMA QuotedIsRead ==
  ASSUME NEW s \in Seq(Chars)
  PROVE  /\ ServerString(QuoteString(s), FALSE) = s
         /\ ServerString(QuoteRedshift(s), TRUE) = s
         /\ QuoteString(s) \in Seq(Chars) /\ QuoteRedshift(s) \in Seq(Chars)
<1> DEFINE body == Doubled(s, {SQ, BS}) \o <<SQ>>
<1>1. Doubled(s, {SQ, BS}) \in Seq(Chars) /\ <<SQ>> \in Seq(Chars) /\ <<Space, E, SQ>> \in Seq(Chars)
      /\ <<Space, E>> \in Seq(Chars) /\ <<>> \in Seq(Chars)
  <2>1. Doubled(s, {SQ, BS}) \in Seq(Chars)
    BY DoubledGrows
  <2>2. <<SQ>> \in Seq(Chars) /\ <<Space, E, SQ>> \in Seq(Chars)
        /\ <<Space, E>> \in Seq(Chars) /\ <<>> \in Seq(Chars)
    BY Specials
  <2> QED
    BY <2>1, <2>2
<1>2. body \in Seq(Chars)
  BY <1>1
<1>3. ASSUME NEW t, NEW redshift_ \in BOOLEAN, NEW escapes \in BOOLEAN,
             StringState(StringStart(redshift_), t) = [last |-> s, mode |-> "closed", escapes |-> escapes]
      PROVE  ServerString(t, redshift_) = s
  <2> DEFINE end == [last |-> s, mode |-> "closed", escapes |-> escapes]
  <2>1. Reading(StringReads, [last |-> <<>>, mode |-> "start", escapes |-> redshift_], t) = end
    BY <1>3, Zenon DEF StringState, StringStart
  <2>2. end.last = s /\ end.mode = "closed"
    OBVIOUS
  <2> HIDE DEF end
  <2> QED
    BY <2>1, <2>2, Zenon DEF ServerString
<1>4. /\ QuoteString(s) = (IF \E k \in DOMAIN s : s[k] = BS THEN <<Space, E, SQ>> ELSE <<SQ>>) \o body
      /\ QuoteRedshift(s) = <<SQ>> \o body
  <2>1. QuoteRedshift(s) = <<SQ>> \o body
    BY <1>1, ConcatAssociative DEF QuoteRedshift
  <2>2. QuoteString(s) = (IF \E k \in DOMAIN s : s[k] = BS THEN <<Space, E>> ELSE <<>>) \o (<<SQ>> \o body)
    BY <1>1, ConcatAssociative DEF QuoteString
  <2>3. <<>> \o (<<SQ>> \o body) = <<SQ>> \o body
    BY <1>1, <1>2
  <2>4. <<Space, E>> \o (<<SQ>> \o body) = (<<Space, E>> \o <<SQ>>) \o body
    BY <1>1, <1>2, ConcatAssociative
  <2>5. <<Space, E>> \o <<SQ>> = <<Space, E, SQ>>
    BY ThreeElements
  <2> HIDE DEF body
  <2> QED
    BY <2>1, <2>2, <2>3, <2>4, <2>5
<1>5. ServerString(<<SQ>> \o body, TRUE) = s
  BY <1>1, <1>3, Openings, LiteralIsRead
<1> HIDE DEF body
<1>6. ASSUME \E k \in DOMAIN s : s[k] = BS PROVE ServerString(QuoteString(s), FALSE) = s
  <2>1. ServerString(<<Space, E, SQ>> \o body, FALSE) = s
    BY <1>1, <1>3, Openings, LiteralIsRead DEF body
  <2>2. QuoteString(s) = <<Space, E, SQ>> \o body
    BY <1>4, <1>6
  <2> QED
    BY <2>1, <2>2
<1>7. ASSUME \A k \in DOMAIN s : s[k] # BS PROVE ServerString(QuoteString(s), FALSE) = s
  <2>1. ServerString(<<SQ>> \o body, FALSE) = s
    BY <1>1, <1>3, <1>7, Openings, LiteralIsRead DEF body
  <2>2. QuoteString(s) = <<SQ>> \o body
    BY <1>4, <1>7
  <2> QED
    BY <2>1, <2>2
<1>8. QuoteString(s) \in Seq(Chars) /\ QuoteRedshift(s) \in Seq(Chars)
  BY <1>1, <1>2, <1>4
<1> QED
  BY <1>4, <1>5, <1>6, <1>7, <1>8

-----------------------------------------------------------------------------
(* Names.                                                                  *)

\* Both readers of names; inside quotes they do the same.
NameReads(who, st, c) == IF who = "server" THEN ServerReads(st, c) ELSE RegexReads(st, c)
NameState(who, t) == IF who = "server" THEN ServerState(Start, t) ELSE RegexState(Start, t)
Name(parts, last, mode) == [parts |-> parts, last |-> last, mode |-> mode]

LEMMA NameReading ==
  ASSUME NEW who \in {"server", "regex"}
  PROVE  /\ NameState(who, <<>>) = Start
         /\ \A t \in Seq(Chars) : NameState(who, t) \in NameStates
         /\ \A t \in Seq(Chars), c \in Chars :
              NameState(who, Append(t, c)) = NameReads(who, NameState(who, t), c)
<1>1. Start \in NameStates
  <2>1. <<>> \in Seq(Chars) /\ <<>> \in Seq(Seq(Chars))
    OBVIOUS
  <2> QED
    BY <2>1 DEF Start, NameStates, Modes
<1>2. CASE who = "server"
  BY <1>1, <1>2, ServerReading DEF NameState, NameReads
<1>3. CASE who = "regex"
  BY <1>1, <1>3, RegexReading DEF NameState, NameReads
<1> QED
  BY <1>2, <1>3

LEMMA NameSteps ==
  ASSUME NEW who \in {"server", "regex"}, NEW p \in Seq(Seq(Chars)), NEW s \in Seq(Chars)
  PROVE  /\ NameReads(who, Name(p, s, "start"), DQ) = Name(p, s, "quoted")
         /\ NameReads(who, Name(p, s, "quoted"), DQ) = Name(p, s, "closed")
         /\ NameReads(who, Name(p, s, "closed"), DQ) = Name(p, Append(s, DQ), "quoted")
         /\ \A c \in Chars \ {DQ} :
              NameReads(who, Name(p, s, "quoted"), c) = Name(p, Append(s, c), "quoted")
         /\ s # <<>> =>
              NameReads(who, Name(p, s, "closed"), Dot) = Name(Append(p, s), <<>>, "start")
         /\ NameReads(who, Name(p, <<>>, "closed"), Dot).mode = "bad"
         /\ \A c \in Chars : NameReads(who, Name(p, s, "bad"), c).mode = "bad"
BY Specials DEF NameReads, ServerReads, RegexReads, Quoted, Extend, NextPart, Bad, Name

\* Inside quotes, a reader reads exactly what was quoted.
LEMMA NameIsInside ==
  ASSUME NEW who \in {"server", "regex"}, NEW p \in Seq(Seq(Chars)), NEW t \in Seq(Chars),
         NameState(who, t) = Name(p, <<>>, "quoted")
  PROVE  \A s \in Seq(Chars) : NameState(who, t \o Doubled(s, {DQ})) = Name(p, s, "quoted")
<1> DEFINE D(s) == Doubled(s, {DQ})
           Good == {s \in Seq(Chars) : NameState(who, t \o D(s)) = Name(p, s, "quoted")}
<1>1. <<>> \in Good
  <2>1. D(<<>>) = <<>> /\ <<>> \in Seq(Chars) /\ t \o <<>> = t
    BY DoubledGrows
  <2> QED
    BY <2>1
<1>2. ASSUME NEW s \in Good, NEW c \in Chars PROVE Append(s, c) \in Good
  <2>1. s \in Seq(Chars) /\ Append(s, c) \in Seq(Chars) /\ NameState(who, t \o D(s)) = Name(p, s, "quoted")
    OBVIOUS
  <2>2. D(s) \in Seq(Chars) /\ D(Append(s, c)) = D(s) \o Twice(c, {DQ})
    BY <2>1, DoubledGrows
  <2> HIDE DEF D
  <2> DEFINE u == t \o D(s)
  <2>3. u \in Seq(Chars) /\ Append(u, c) \in Seq(Chars)
    BY <2>2
  <2>4. t \o D(Append(s, c)) = u \o Twice(c, {DQ})
    <3>1. Twice(c, {DQ}) \in Seq(Chars)
      BY DEF Twice
    <3> QED
      BY <2>2, <3>1, ConcatAssociative
  <2>5. NameState(who, u) = Name(p, s, "quoted")
    BY <2>1
  <2> HIDE DEF u
  <2>6. NameState(who, Append(u, c)) = NameReads(who, Name(p, s, "quoted"), c)
    BY <2>3, <2>5, NameReading
  <2>7. NameState(who, u \o Twice(c, {DQ})) = Name(p, Append(s, c), "quoted")
    <3>1. CASE c # DQ
      <4>1. u \o Twice(c, {DQ}) = Append(u, c)
        BY <2>3, <3>1, AppendIsConcat DEF Twice
      <4>2. NameReads(who, Name(p, s, "quoted"), c) = Name(p, Append(s, c), "quoted")
        <5>1. c \in Chars \ {DQ}
          BY <3>1
        <5>2. \A b \in Chars \ {DQ} :
                NameReads(who, Name(p, s, "quoted"), b) = Name(p, Append(s, b), "quoted")
          BY <2>1, NameSteps
        <5> QED
          BY <5>1, <5>2
      <4> QED
        BY <2>6, <4>1, <4>2
    <3>2. CASE c = DQ
      <4>1. u \o <<c, c>> = Append(Append(u, c), c)
        BY <2>3
      <4>2. u \o Twice(c, {DQ}) = Append(Append(u, c), c)
        BY <3>2, <4>1 DEF Twice
      <4>3. NameState(who, Append(u, c)) = Name(p, s, "closed")
        <5>1. NameReads(who, Name(p, s, "quoted"), DQ) = Name(p, s, "closed")
          BY <2>1, NameSteps
        <5> QED
          BY <2>6, <3>2, <5>1
      <4>4. NameState(who, Append(Append(u, c), c)) = NameReads(who, Name(p, s, "closed"), c)
        BY <2>3, <4>3, NameReading
      <4>5. NameReads(who, Name(p, s, "closed"), DQ) = Name(p, Append(s, DQ), "quoted")
        BY <2>1, NameSteps
      <4> QED
        BY <3>2, <4>2, <4>4, <4>5
    <3> QED
      BY <3>1, <3>2
  <2> QED
    BY <2>1, <2>4, <2>7
<1>3. Good \in SUBSET Seq(Chars)
  OBVIOUS
<1> HIDE DEF Good
<1>4. \A s \in Seq(Chars) : s \in Good
  BY <1>1, <1>2, <1>3, AllSequences
<1> QED
  BY <1>4 DEF Good

\* A quoted part, from its opening quote to the closing one.
LEMMA PartIsRead ==
  ASSUME NEW who \in {"server", "regex"}, NEW p \in Seq(Seq(Chars)), NEW t \in Seq(Chars),
         NameState(who, t) = Name(p, <<>>, "start"), NEW q \in Seq(Chars)
  PROVE  /\ QuoteIdentifier(q) \in Seq(Chars)
         /\ NameState(who, t \o QuoteIdentifier(q)) = Name(p, q, "closed")
<1> DEFINE d == Doubled(q, {DQ})
           u == Append(t, DQ)
           v == u \o d
<1>1. DQ \in Chars /\ <<DQ>> \in Seq(Chars) /\ <<>> \in Seq(Chars)
  BY Specials
<1>2. d \in Seq(Chars)
  BY DoubledGrows
<1>3. u \in Seq(Chars) /\ NameState(who, u) = Name(p, <<>>, "quoted")
  <2>1. u \in Seq(Chars)
    BY <1>1
  <2>2. NameState(who, Append(t, DQ)) = NameReads(who, Name(p, <<>>, "start"), DQ)
    BY <1>1, NameReading
  <2>3. NameReads(who, Name(p, <<>>, "start"), DQ) = Name(p, <<>>, "quoted")
    BY <1>1, NameSteps
  <2> QED
    BY <2>1, <2>2, <2>3
<1>4. NameState(who, v) = Name(p, q, "quoted")
  BY <1>3, NameIsInside
<1>5. QuoteIdentifier(q) = (<<DQ>> \o d) \o <<DQ>>
  BY DEF QuoteIdentifier
<1> HIDE DEF d
<1>6. v \in Seq(Chars)
  BY <1>2, <1>3
<1>7. QuoteIdentifier(q) \in Seq(Chars)
  BY <1>1, <1>2, <1>5
<1>8. t \o QuoteIdentifier(q) = Append(v, DQ)
  <2>1. u = t \o <<DQ>>
    BY <1>1, AppendIsConcat
  <2>2. Append(v, DQ) = v \o <<DQ>>
    BY <1>1, <1>6, AppendIsConcat
  <2>3. t \o ((<<DQ>> \o d) \o <<DQ>>) = (t \o (<<DQ>> \o d)) \o <<DQ>>
    BY <1>1, <1>2, ConcatAssociative
  <2>4. t \o (<<DQ>> \o d) = (t \o <<DQ>>) \o d
    BY <1>1, <1>2, ConcatAssociative
  <2> QED
    BY <1>5, <2>1, <2>2, <2>3, <2>4
<1> HIDE DEF v
<1>9. NameState(who, Append(v, DQ)) = Name(p, q, "closed")
  BY <1>1, <1>4, <1>6, NameReading, NameSteps
<1> QED
  BY <1>7, <1>8, <1>9

\* What has been refused stays refused.
LEMMA BadStays ==
  ASSUME NEW who \in {"server", "regex"}, NEW t \in Seq(Chars), NameState(who, t).mode = "bad"
  PROVE  \A s \in Seq(Chars) : NameState(who, t \o s).mode = "bad"
<1> DEFINE Good == {s \in Seq(Chars) : NameState(who, t \o s).mode = "bad"}
<1>1. <<>> \in Good
  <2>1. <<>> \in Seq(Chars) /\ t \o <<>> = t
    OBVIOUS
  <2> QED
    BY <2>1
<1>2. ASSUME NEW s \in Good, NEW c \in Chars PROVE Append(s, c) \in Good
  <2> DEFINE u == t \o s
             st == NameState(who, u)
  <2>1. s \in Seq(Chars) /\ Append(s, c) \in Seq(Chars) /\ u \in Seq(Chars) /\ st.mode = "bad"
    OBVIOUS
  <2>2. t \o Append(s, c) = Append(u, c)
    OBVIOUS
  <2>3. st \in NameStates /\ NameState(who, Append(u, c)) = NameReads(who, st, c)
    BY <2>1, NameReading
  <2>4. st = Name(st.parts, st.last, "bad") /\ st.parts \in Seq(Seq(Chars)) /\ st.last \in Seq(Chars)
    BY <2>1, <2>3 DEF NameStates, Name
  <2> HIDE DEF st, u
  <2>5. NameReads(who, st, c).mode = "bad"
    BY <2>4, NameSteps
  <2> QED
    BY <2>1, <2>2, <2>3, <2>5
<1>3. Good \in SUBSET Seq(Chars)
  OBVIOUS
<1> HIDE DEF Good
<1>4. \A s \in Seq(Chars) : s \in Good
  BY <1>1, <1>2, <1>3, AllSequences
<1> QED
  BY <1>4 DEF Good

\* The quoted form of an Id grows with its parts.
PartText(k, q) == (IF k = 1 THEN <<>> ELSE <<Dot>>) \o QuoteIdentifier(q)

LEMMA IdentifierText ==
  ASSUME NEW q \in Seq(Chars)
  PROVE  /\ QuoteIdentifier(q) \in Seq(Chars)
         /\ \A k \in Nat : PartText(k, q) \in Seq(Chars)
<1>1. DQ \in Chars /\ Dot \in Chars /\ <<DQ>> \in Seq(Chars) /\ <<Dot>> \in Seq(Chars) /\ <<>> \in Seq(Chars)
  BY Specials
<1>2. Doubled(q, {DQ}) \in Seq(Chars)
  BY DoubledGrows
<1>3. QuoteIdentifier(q) \in Seq(Chars)
  BY <1>1, <1>2 DEF QuoteIdentifier
<1>4. ASSUME NEW k \in Nat PROVE PartText(k, q) \in Seq(Chars)
  BY <1>1, <1>3 DEF PartText
<1> QED
  BY <1>3, <1>4

LEMMA IdGrows ==
  /\ QuoteId(<<>>) = <<>>
  /\ \A names \in Seq(Seq(Chars)) : QuoteId(names) \in Seq(Chars)
  /\ \A names \in Seq(Seq(Chars)), q \in Seq(Chars) :
       QuoteId(Append(names, q)) = QuoteId(names) \o PartText(Len(names) + 1, q)
<1> DEFINE Pieces(names) == [k \in DOMAIN names |->
             (IF k = 1 THEN <<>> ELSE <<Dot>>) \o QuoteIdentifier(names[k])]
<1>1. \A names : QuoteId(names) = FlattenSeq(Pieces(names))
  BY DEF QuoteId
<1>2. Pieces(<<>>) = <<>>
  OBVIOUS
<1>3. ASSUME NEW names \in Seq(Seq(Chars))
      PROVE  /\ Pieces(names) \in Seq(Seq(Chars)) /\ Len(Pieces(names)) = Len(names)
             /\ \A k \in 1..Len(names) : Pieces(names)[k] = PartText(k, names[k])
  <2>1. DOMAIN names = 1..Len(names) /\ Len(names) \in Nat
        /\ \A k \in 1..Len(names) : k \in Nat /\ names[k] \in Seq(Chars)
    OBVIOUS
  <2>2. Pieces(names) = [k \in 1..Len(names) |-> PartText(k, names[k])]
    BY <2>1 DEF PartText
  <2>3. \A k \in 1..Len(names) : PartText(k, names[k]) \in Seq(Chars)
    BY <2>1, IdentifierText
  <2> HIDE DEF Pieces
  <2>4. Pieces(names) \in [1..Len(names) -> Seq(Chars)]
    BY <2>2, <2>3
  <2>5. \A k \in 1..Len(names) : Pieces(names)[k] = PartText(k, names[k])
    BY <2>2
  <2>6. Pieces(names) \in Seq(Seq(Chars)) /\ Len(Pieces(names)) = Len(names)
    <3> DEFINE n == Len(names)
               w == Pieces(names)
    <3>1. n \in Nat /\ w \in [1..n -> Seq(Chars)]
      BY <2>1, <2>4
    <3> HIDE DEF n, w
    <3>2. w \in Seq(Seq(Chars)) /\ Len(w) = n
      BY <3>1
    <3> QED
      BY <3>2 DEF n, w
  <2> QED
    BY <2>5, <2>6
<1> HIDE DEF Pieces
<1>4. ASSUME NEW names \in Seq(Seq(Chars)), NEW q \in Seq(Chars)
      PROVE  Pieces(Append(names, q)) = Append(Pieces(names), PartText(Len(names) + 1, q))
  <2> DEFINE n == Len(names)
             more == Append(names, q)
             x == PartText(n + 1, q)
             v == Append(Pieces(names), x)
  <2>1. /\ n \in Nat /\ more \in Seq(Seq(Chars)) /\ Len(more) = n + 1
        /\ more[n + 1] = q /\ \A k \in 1..n : more[k] = names[k]
    BY AppendProperties
  <2>2. x \in Seq(Chars)
    <3>1. n + 1 \in Nat
      BY <2>1
    <3> HIDE DEF n
    <3> QED
      BY <3>1, IdentifierText
  <2>3. /\ Pieces(names) \in Seq(Seq(Chars)) /\ Len(Pieces(names)) = n
        /\ \A k \in 1..n : Pieces(names)[k] = PartText(k, names[k])
    BY <1>3
  <2>4. /\ Pieces(more) \in Seq(Seq(Chars)) /\ Len(Pieces(more)) = n + 1
        /\ \A k \in 1..(n + 1) : Pieces(more)[k] = PartText(k, more[k])
    <3> HIDE DEF more, n
    <3> QED
      BY <1>3, <2>1
  <2> HIDE DEF more, x
  <2>5. /\ v \in Seq(Seq(Chars)) /\ Len(v) = n + 1 /\ v[n + 1] = x
        /\ \A k \in 1..n : v[k] = Pieces(names)[k]
    <3> HIDE DEF n
    <3> QED
      BY <2>1, <2>2, <2>3, AppendProperties
  <2> HIDE DEF n, v
  <2>6. ASSUME NEW k \in 1..(n + 1) PROVE Pieces(more)[k] = v[k]
    <3>1. CASE k = n + 1
      BY <2>1, <2>4, <2>5, <3>1 DEF x
    <3>2. CASE k # n + 1
      <4>1. k \in 1..n
        BY <2>1, <3>2
      <4> QED
        BY <2>1, <2>3, <2>4, <2>5, <4>1
    <3> QED
      BY <3>1, <3>2
  <2>7. Pieces(more) = v
    BY <2>4, <2>5, <2>6, SeqEqual
  <2> QED
    BY <2>7 DEF more, v, x, n
<1>5. ASSUME NEW names \in Seq(Seq(Chars)), NEW q \in Seq(Chars)
      PROVE  /\ QuoteId(names) \in Seq(Chars)
             /\ QuoteId(Append(names, q)) = QuoteId(names) \o PartText(Len(names) + 1, q)
  <2>1. Pieces(names) \in Seq(Seq(Chars)) /\ PartText(Len(names) + 1, q) \in Seq(Chars)
    <3>1. Len(names) + 1 \in Nat
      OBVIOUS
    <3>2. \A k \in Nat : PartText(k, q) \in Seq(Chars)
      BY IdentifierText
    <3>3. Pieces(names) \in Seq(Seq(Chars))
      BY <1>3
    <3> QED
      BY <3>1, <3>2, <3>3
  <2>2. FlattenSeq(Append(Pieces(names), PartText(Len(names) + 1, q)))
          = FlattenSeq(Pieces(names)) \o PartText(Len(names) + 1, q)
    BY <2>1, Flattened
  <2>3. FlattenSeq(Pieces(names)) \in Seq(Chars)
    BY <2>1, Flattened
  <2> QED
    BY <1>1, <1>4, <2>2, <2>3
<1>6. <<>> \in Seq(Chars)
  OBVIOUS
<1>7. QuoteId(<<>>) = <<>>
  BY <1>1, <1>2, Flattened
<1> QED
  BY <1>5, <1>6, <1>7

LEMMA DotBetween ==
  ASSUME NEW t \in Seq(Chars), NEW i \in Seq(Chars)
  PROVE  t \o (<<Dot>> \o i) = Append(t, Dot) \o i
<1>1. Dot \in Chars /\ <<Dot>> \in Seq(Chars)
  BY Specials
<1> DEFINE d == <<Dot>>
<1>2. Append(t, Dot) = t \o d
  BY <1>1, AppendIsConcat
<1>3. d \in Seq(Chars)
  BY <1>1
<1> HIDE DEF d
<1>4. (t \o d) \o i = t \o (d \o i)
  BY <1>3, ConcatAssociative
<1> QED
  BY <1>2, <1>4 DEF d

\* A blank part is refused at the dot after it, and all others are read.
LEMMA IdIsRead ==
  ASSUME NEW who \in {"server", "regex"}
  PROVE  \A names \in Seq(Seq(Chars)), q \in Seq(Chars) :
           IF Blank(names) THEN NameState(who, QuoteId(Append(names, q))).mode = "bad"
           ELSE NameState(who, QuoteId(Append(names, q))) = Name(names, q, "closed")
<1> DEFINE State(names, q) == NameState(who, QuoteId(Append(names, q)))
           Right(names, q) == IF Blank(names) THEN State(names, q).mode = "bad"
                              ELSE State(names, q) = Name(names, q, "closed")
           Good == {names \in Seq(Seq(Chars)) : \A q \in Seq(Chars) : Right(names, q)}
<1>1. <<>> \in Good
  <2> SUFFICES ASSUME NEW q \in Seq(Chars) PROVE State(<<>>, q) = Name(<<>>, q, "closed") /\ ~Blank(<<>>)
    OBVIOUS
  <2>1. <<>> \in Seq(Chars) /\ <<>> \in Seq(Seq(Chars)) /\ Len(<<>>) = 0
    OBVIOUS
  <2>2. QuoteIdentifier(q) \in Seq(Chars)
    BY IdentifierText
  <2>3. QuoteId(Append(<<>>, q)) = <<>> \o QuoteIdentifier(q)
    <3>1. PartText(1, q) = <<>> \o QuoteIdentifier(q)
      BY DEF PartText
    <3>2. <<>> \o QuoteIdentifier(q) = QuoteIdentifier(q)
      BY <2>2
    <3>3. QuoteId(Append(<<>>, q)) = QuoteId(<<>>) \o PartText(0 + 1, q)
      BY <2>1, IdGrows
    <3>4. QuoteId(<<>>) = <<>> /\ 0 + 1 = 1
      BY IdGrows
    <3> QED
      BY <3>1, <3>2, <3>3, <3>4
  <2>4. NameState(who, <<>>) = Name(<<>>, <<>>, "start")
    BY NameReading DEF Start, Name
  <2>5. NameState(who, <<>> \o QuoteIdentifier(q)) = Name(<<>>, q, "closed")
    BY <2>1, <2>4, PartIsRead
  <2>6. ~Blank(<<>>)
    BY DEF Blank
  <2> QED
    BY <2>3, <2>5, <2>6
<1>2. ASSUME NEW names \in Good, NEW r \in Seq(Chars) PROVE Append(names, r) \in Good
  <2> DEFINE more == Append(names, r)
             t == QuoteId(more)
  <2>1. names \in Seq(Seq(Chars)) /\ Right(names, r)
    OBVIOUS
  <2>2. /\ more \in Seq(Seq(Chars)) /\ Len(more) = Len(names) + 1 /\ Len(names) \in Nat
        /\ more[Len(names) + 1] = r /\ \A k \in 1..Len(names) : more[k] = names[k]
    BY <2>1, AppendProperties
  <2>3. t \in Seq(Chars)
    BY <2>2, IdGrows
  <2>4. Blank(more) <=> (Blank(names) \/ r = <<>>)
    <3>1. DOMAIN more = 1..(Len(names) + 1) /\ DOMAIN names = 1..Len(names)
      BY <2>1, <2>2
    <3> DEFINE n == Len(names)
    <3> HIDE DEF n, more
    <3>2. n + 1 \in 1..(n + 1) /\ \A k \in 1..n : k \in 1..(n + 1)
      BY <2>2 DEF n
    <3>3. \A k \in 1..(n + 1) : k = n + 1 \/ k \in 1..n
      BY <2>2 DEF n
    <3> QED
      BY <2>2, <3>1, <3>2, <3>3 DEF n, Blank
  <2> SUFFICES ASSUME NEW q \in Seq(Chars) PROVE Right(more, q)
    BY <2>2
  <2>5. Dot \in Chars /\ <<Dot>> \in Seq(Chars)
    BY Specials
  <2>6. QuoteIdentifier(q) \in Seq(Chars) /\ <<Dot>> \o QuoteIdentifier(q) \in Seq(Chars)
    BY <2>5, IdentifierText
  <2>7. QuoteId(Append(more, q)) = t \o (<<Dot>> \o QuoteIdentifier(q))
    <3>1. QuoteId(Append(more, q)) = t \o PartText(Len(more) + 1, q)
      BY <2>2, IdGrows
    <3>2. Len(more) + 1 # 1
      BY <2>2
    <3> HIDE DEF more
    <3>3. PartText(Len(more) + 1, q) = <<Dot>> \o QuoteIdentifier(q)
      BY <3>2 DEF PartText
    <3> QED
      BY <3>1, <3>3
  <2>8. t \o (<<Dot>> \o QuoteIdentifier(q)) = Append(t, Dot) \o QuoteIdentifier(q)
    <3> DEFINE i == QuoteIdentifier(q)
    <3>1. t \in Seq(Chars) /\ i \in Seq(Chars)
      BY <2>3, <2>6
    <3> HIDE DEF t, i, Good
    <3> QED
      BY <3>1, DotBetween DEF i
  <2>9. Append(t, Dot) \in Seq(Chars) /\ NameState(who, Append(t, Dot)) = NameReads(who, NameState(who, t), Dot)
    <3> HIDE DEF t
    <3>1. Append(t, Dot) \in Seq(Chars)
      BY <2>3, <2>5
    <3> QED
      BY <2>3, <2>5, <3>1, NameReading
  <2>10. ASSUME Blank(names) PROVE State(more, q).mode = "bad"
    <3>1. NameState(who, t).mode = "bad"
      BY <2>1, <2>10
    <3> HIDE DEF t, more
    <3> QED
      BY <2>3, <2>6, <2>7, <3>1, BadStays
  <2>11. ASSUME ~Blank(names) PROVE NameState(who, t) = Name(names, r, "closed")
    BY <2>1, <2>11
  <2> HIDE DEF t
  <2>12. ASSUME ~Blank(names), r = <<>> PROVE State(more, q).mode = "bad"
    <3>1. NameState(who, t) = Name(names, <<>>, "closed")
      BY <2>11, <2>12
    <3>2. NameReads(who, Name(names, <<>>, "closed"), Dot).mode = "bad"
      BY <2>1, <2>12, NameSteps
    <3>3. NameState(who, Append(t, Dot)).mode = "bad"
      BY <2>9, <3>1, <3>2
    <3>4. NameState(who, Append(t, Dot) \o QuoteIdentifier(q)).mode = "bad"
      BY <2>6, <2>9, <3>3, BadStays
    <3> QED
      BY <2>7, <2>8, <3>4
  <2>13. ASSUME ~Blank(names), r # <<>> PROVE State(more, q) = Name(more, q, "closed")
    <3>1. NameReads(who, Name(names, r, "closed"), Dot) = Name(more, <<>>, "start")
      BY <2>1, <2>13, NameSteps
    <3>2. NameState(who, Append(t, Dot)) = Name(more, <<>>, "start")
      BY <2>9, <2>11, <2>13, <3>1
    <3> DEFINE v == Append(t, Dot)
    <3>3. v \in Seq(Chars) /\ more \in Seq(Seq(Chars)) /\ NameState(who, v) = Name(more, <<>>, "start")
      BY <2>2, <2>9, <3>2
    <3> HIDE DEF v, more
    <3>4. NameState(who, v \o QuoteIdentifier(q)) = Name(more, q, "closed")
      BY <3>3, PartIsRead
    <3> QED
      BY <2>7, <2>8, <3>4 DEF v
  <2> HIDE DEF State, more
  <2> QED
    BY <2>4, <2>10, <2>12, <2>13
<1>3. Good \in SUBSET Seq(Seq(Chars))
  OBVIOUS
<1> HIDE DEF Good
<1>4. \A names \in Seq(Seq(Chars)) : names \in Good
  BY <1>1, <1>2, <1>3, AllSequences
<1> QED
  BY <1>4 DEF Good

\* What the two readers make of a text that they have read to its end.
LEMMA ServerEnd ==
  ASSUME NEW t, NEW p \in Seq(Seq(Chars)), NEW q \in Seq(Chars), NEW mode \in Modes,
         NameState("server", t) = Name(p, q, mode)
  PROVE  ServerName(t) = IF mode \in {"bare", "closed"} /\ q # <<>>
                         THEN [k \in DOMAIN Append(p, q) |-> Cut(Append(p, q)[k])] ELSE Error
<1> DEFINE end == Name(p, q, mode)
<1>1. Reading(ServerReads, Start, t) = end
  BY Zenon DEF NameState, ServerState
<1>2. end.parts = p /\ end.last = q /\ end.mode = mode
  BY DEF Name
<1> HIDE DEF end
<1> QED
  BY <1>1, <1>2, Zenon DEF ServerName

LEMMA RegexEnd ==
  ASSUME NEW t, NEW p \in Seq(Seq(Chars)), NEW q \in Seq(Chars), NEW mode \in Modes,
         NameState("regex", t) = Name(p, q, mode)
  PROVE  Unquote(t) = IF mode = "bad" \/ mode = "quoted" \/ Len(p) > 2 \/ (mode = "closed" /\ q = <<>>)
                      THEN Error ELSE IF q = <<>> THEN p ELSE Append(p, q)
<1> DEFINE end == Name(p, q, mode)
<1>0. "regex" # "server"
  OBVIOUS
<1>1. Reading(RegexReads, Start, t) = end
  BY <1>0, Zenon DEF NameState, RegexState
<1>2. end.parts = p /\ end.last = q /\ end.mode = mode
  BY DEF Name
<1> HIDE DEF end
<1> QED
  BY <1>1, <1>2, Zenon DEF Unquote

LEMMA StateIsName ==
  ASSUME NEW st \in NameStates
  PROVE  /\ st = Name(st.parts, st.last, st.mode)
         /\ st.parts \in Seq(Seq(Chars)) /\ st.last \in Seq(Chars) /\ st.mode \in Modes
BY DEF NameStates, Name

\* A name of up to three parts comes back from both readers.
LEMMA IdIsKept ==
  ASSUME NEW id \in Seq(Seq(Chars)), Len(id) \in 1..3
  PROVE  /\ QuoteId(id) \in Seq(Chars)
         /\ IF Blank(id) THEN ServerName(QuoteId(id)) = Error /\ Unquote(QuoteId(id)) = Error
            ELSE /\ ServerName(QuoteId(id)) = [k \in DOMAIN id |-> Cut(id[k])]
                 /\ Unquote(QuoteId(id)) = id
<1>1. id # <<>>
  OBVIOUS
<1>2. PICK p \in Seq(Seq(Chars)), q \in Seq(Chars) : id = Append(p, q)
  BY <1>1, SequenceEmptyOrAppend
<1>3. /\ Len(id) = Len(p) + 1 /\ Len(p) \in Nat /\ id[Len(p) + 1] = q
      /\ \A k \in 1..Len(p) : id[k] = p[k]
  BY <1>2, AppendProperties
<1>4. Blank(id) <=> (Blank(p) \/ q = <<>>)
  <2> DEFINE n == Len(p)
  <2>1. DOMAIN id = 1..(n + 1) /\ DOMAIN p = 1..n
    BY <1>2, <1>3
  <2> HIDE DEF n
  <2>2. n + 1 \in 1..(n + 1) /\ \A k \in 1..n : k \in 1..(n + 1)
    BY <1>3 DEF n
  <2>3. \A k \in 1..(n + 1) : k = n + 1 \/ k \in 1..n
    BY <1>3 DEF n
  <2> QED
    BY <1>3, <2>1, <2>2, <2>3 DEF n, Blank
<1>5. QuoteId(id) \in Seq(Chars)
  BY IdGrows
<1>6. "server" \in {"server", "regex"} /\ "regex" \in {"server", "regex"}
  OBVIOUS
<1>7. ASSUME Blank(p) PROVE ServerName(QuoteId(id)) = Error /\ Unquote(QuoteId(id)) = Error
  <2> DEFINE s == NameState("server", QuoteId(id))
             r == NameState("regex", QuoteId(id))
  <2>1. s.mode = "bad" /\ r.mode = "bad"
    BY <1>2, <1>6, <1>7, IdIsRead
  <2>2. s \in NameStates /\ r \in NameStates
    BY <1>5, <1>6, NameReading
  <2> HIDE DEF s, r
  <2>3. /\ s = Name(s.parts, s.last, "bad") /\ s.parts \in Seq(Seq(Chars)) /\ s.last \in Seq(Chars)
        /\ r = Name(r.parts, r.last, "bad") /\ r.parts \in Seq(Seq(Chars)) /\ r.last \in Seq(Chars)
        /\ "bad" \in Modes
    BY <2>1, <2>2, StateIsName
  <2>4. ServerName(QuoteId(id)) = Error
    <3>1. NameState("server", QuoteId(id)) = Name(s.parts, s.last, "bad")
      BY <2>3 DEF s
    <3>2. "bad" \notin {"bare", "closed"}
      OBVIOUS
    <3> QED
      BY <2>3, <3>1, <3>2, ServerEnd
  <2>5. Unquote(QuoteId(id)) = Error
    <3>1. NameState("regex", QuoteId(id)) = Name(r.parts, r.last, "bad")
      BY <2>3 DEF r
    <3> QED
      BY <2>3, <3>1, RegexEnd
  <2> QED
    BY <2>4, <2>5
<1>8. ASSUME ~Blank(p)
      PROVE  /\ NameState("server", QuoteId(id)) = Name(p, q, "closed")
             /\ NameState("regex", QuoteId(id)) = Name(p, q, "closed")
             /\ "closed" \in Modes
  BY <1>2, <1>6, <1>8, IdIsRead DEF Modes
<1>9. ASSUME ~Blank(p), q = <<>> PROVE ServerName(QuoteId(id)) = Error /\ Unquote(QuoteId(id)) = Error
  <2>1. ServerName(QuoteId(id)) = Error
    <3>1. ~("closed" \in {"bare", "closed"} /\ q # <<>>)
      BY <1>9
    <3>2. ServerName(QuoteId(id))
            = IF "closed" \in {"bare", "closed"} /\ q # <<>>
              THEN [k \in DOMAIN Append(p, q) |-> Cut(Append(p, q)[k])] ELSE Error
      BY <1>8, <1>9, ServerEnd
    <3> QED
      BY <3>1, <3>2
  <2>2. Unquote(QuoteId(id)) = Error
    BY <1>8, <1>9, RegexEnd
  <2> QED
    BY <2>1, <2>2
<1>10. ASSUME ~Blank(p), q # <<>>
       PROVE  /\ ServerName(QuoteId(id)) = [k \in DOMAIN id |-> Cut(id[k])]
              /\ Unquote(QuoteId(id)) = id
  <2>1. ServerName(QuoteId(id)) = [k \in DOMAIN id |-> Cut(id[k])]
    <3>1. ServerName(QuoteId(id)) = [k \in DOMAIN Append(p, q) |-> Cut(Append(p, q)[k])]
      BY <1>8, <1>10, ServerEnd
    <3> QED
      BY <1>2, <3>1
  <2>2. Len(p) <= 2
    BY <1>3
  <2>3. Unquote(QuoteId(id)) = Append(p, q)
    <3>1. ~("closed" = "bad" \/ "closed" = "quoted" \/ Len(p) > 2 \/ ("closed" = "closed" /\ q = <<>>))
      BY <1>3, <1>10, <2>2
    <3> QED
      BY <1>8, <1>10, <3>1, RegexEnd
  <2> QED
    BY <1>2, <2>1, <2>3
<1> QED
  BY <1>4, <1>5, <1>7, <1>9, <1>10

\* The readers go through a name that the server accepts side by side.
Alike(st, rt) ==
  st.mode # "bad" =>
    rt.mode = st.mode /\ Len(rt.parts) = Len(st.parts) /\ Len(rt.last) = Len(st.last)

LEMMA SideBySide ==
  ASSUME NEW st \in NameStates, NEW rt \in NameStates, NEW c \in Chars, Alike(st, rt)
  PROVE  /\ Alike(ServerReads(st, c), RegexReads(rt, c))
         /\ (ServerReads(st, c).mode # "bad" /\ st = rt /\ (c \in DOMAIN Lower => Lower[c] = c)) =>
              RegexReads(rt, c) = ServerReads(st, c)
<1>1. /\ Len(Append(st.last, c)) = Len(st.last) + 1 /\ Len(Append(rt.last, c)) = Len(rt.last) + 1
      /\ Len(Append(st.last, DQ)) = Len(st.last) + 1 /\ Len(Append(rt.last, DQ)) = Len(rt.last) + 1
      /\ c \in DOMAIN Lower => Len(Append(st.last, Lower[c])) = Len(st.last) + 1
      /\ Len(Append(st.parts, st.last)) = Len(st.parts) + 1
      /\ Len(Append(rt.parts, rt.last)) = Len(rt.parts) + 1
      /\ (st.last = <<>> <=> Len(st.last) = 0) /\ (rt.last = <<>> <=> Len(rt.last) = 0)
  BY Specials DEF NameStates
<1>2. c \in DOMAIN Lower => c # DQ /\ c # Dot /\ c # Space
  BY Specials
<1>3. DQ # Dot /\ DQ # Space /\ Dot # Space
  BY Specials
<1>4. CASE st.mode = "bad"
  BY <1>2, <1>4 DEF Alike, ServerReads, Quoted, Bad, NameStates
<1>5. ASSUME st.mode # "bad"
      PROVE  rt.mode = st.mode /\ Len(rt.parts) = Len(st.parts) /\ Len(rt.last) = Len(st.last)
  BY <1>5 DEF Alike
<1>6. CASE st.mode = "start"
  BY <1>1, <1>2, <1>3, <1>5, <1>6
  DEF Alike, ServerReads, RegexReads, Quoted, Extend, NextPart, Bad, NameStates
<1>7. CASE st.mode = "bare"
  BY <1>1, <1>2, <1>3, <1>5, <1>7
  DEF Alike, ServerReads, RegexReads, Quoted, Extend, NextPart, Bad, NameStates
<1>8. CASE st.mode = "quoted"
  BY <1>1, <1>2, <1>3, <1>5, <1>8
  DEF Alike, ServerReads, RegexReads, Quoted, Extend, NextPart, Bad, NameStates
<1>9. CASE st.mode = "closed"
  BY <1>1, <1>2, <1>3, <1>5, <1>9
  DEF Alike, ServerReads, RegexReads, Quoted, Extend, NextPart, Bad, NameStates
<1>10. st.mode \in {"start", "quoted", "closed", "bare", "bad"}
  BY DEF NameStates, Modes
<1> QED
  BY <1>4, <1>6, <1>7, <1>8, <1>9, <1>10

LEMMA FoldsGrows ==
  ASSUME NEW t \in Seq(Chars), NEW c \in Chars, ~Folds(Append(t, c))
  PROVE  ~Folds(t) /\ (c \in DOMAIN Lower => Lower[c] = c)
<1> DEFINE n == Len(t)
           u == Append(t, c)
<1>1. /\ n \in Nat /\ DOMAIN t = 1..n /\ DOMAIN u = 1..(n + 1)
      /\ u[n + 1] = c /\ \A k \in 1..n : u[k] = t[k]
  BY AppendProperties
<1> HIDE DEF n, u
<1>2. n + 1 \in DOMAIN u /\ \A k \in DOMAIN t : k \in DOMAIN u /\ u[k] = t[k]
  BY <1>1
<1>3. \A k \in DOMAIN u : u[k] \in DOMAIN Lower => Lower[u[k]] = u[k]
  BY DEF Folds, u
<1> QED
  BY <1>1, <1>2, <1>3 DEF Folds

LEMMA ReadersAgree ==
  \A t \in Seq(Chars) :
    /\ Alike(NameState("server", t), NameState("regex", t))
    /\ (NameState("server", t).mode # "bad" /\ ~Folds(t)) =>
         NameState("regex", t) = NameState("server", t)
<1> DEFINE S(t) == NameState("server", t)
           R(t) == NameState("regex", t)
           Good == {t \in Seq(Chars) : /\ Alike(S(t), R(t))
                                       /\ (S(t).mode # "bad" /\ ~Folds(t)) => R(t) = S(t)}
<1>1. "server" \in {"server", "regex"} /\ "regex" \in {"server", "regex"} /\ "regex" # "server"
  OBVIOUS
<1>2. S(<<>>) = Start /\ R(<<>>) = Start
  BY <1>1, NameReading
<1>3. <<>> \in Good
  <2>1. <<>> \in Seq(Chars)
    OBVIOUS
  <2> HIDE DEF S, R
  <2> QED
    BY <1>2, <2>1 DEF Alike
<1>4. ASSUME NEW t \in Good, NEW c \in Chars PROVE Append(t, c) \in Good
  <2> DEFINE st == S(t)
             rt == R(t)
             u == Append(t, c)
  <2>1. t \in Seq(Chars) /\ u \in Seq(Chars) /\ Alike(st, rt)
        /\ ((st.mode # "bad" /\ ~Folds(t)) => rt = st)
    OBVIOUS
  <2>2. st \in NameStates /\ rt \in NameStates
    BY <1>1, <2>1, NameReading
  <2>3. S(u) = ServerReads(st, c)
    <3>1. NameState("server", Append(t, c)) = NameReads("server", NameState("server", t), c)
      BY <1>1, <2>1, NameReading
    <3> QED
      BY <3>1 DEF NameReads
  <2>4. R(u) = RegexReads(rt, c)
    <3>1. NameState("regex", Append(t, c)) = NameReads("regex", NameState("regex", t), c)
      BY <1>1, <2>1, NameReading
    <3> QED
      BY <1>1, <3>1 DEF NameReads
  <2>5. ~Folds(u) => ~Folds(t) /\ (c \in DOMAIN Lower => Lower[c] = c)
    BY <2>1, FoldsGrows
  <2>6. st.mode = "bad" => S(u).mode = "bad"
    <3> SUFFICES ASSUME st.mode = "bad" PROVE S(u).mode = "bad"
      OBVIOUS
    <3> HIDE DEF st
    <3>1. st = Name(st.parts, st.last, "bad") /\ st.parts \in Seq(Seq(Chars)) /\ st.last \in Seq(Chars)
      BY <2>2, StateIsName
    <3>2. NameReads("server", st, c).mode = "bad"
      BY <1>1, <3>1, NameSteps
    <3> QED
      BY <2>3, <3>2 DEF NameReads
  <2> HIDE DEF S, R, st, rt
  <2>7. /\ Alike(ServerReads(st, c), RegexReads(rt, c))
        /\ (ServerReads(st, c).mode # "bad" /\ st = rt /\ (c \in DOMAIN Lower => Lower[c] = c)) =>
             RegexReads(rt, c) = ServerReads(st, c)
    BY <2>1, <2>2, SideBySide
  <2>8. (S(u).mode # "bad" /\ ~Folds(u)) => R(u) = S(u)
    BY <2>1, <2>3, <2>4, <2>5, <2>6, <2>7
  <2> HIDE DEF u
  <2>9. u \in Good
    BY <2>1, <2>3, <2>4, <2>7, <2>8
  <2> QED
    BY <2>9 DEF u
<1>5. Good \in SUBSET Seq(Chars)
  OBVIOUS
<1> HIDE DEF Good
<1>6. \A t \in Seq(Chars) : t \in Good
  BY <1>3, <1>4, <1>5, AllSequences
<1> QED
  BY <1>6 DEF Good

LEMMA ShortIsWhole ==
  ASSUME NEW s \in Seq(Chars), Len(s) <= NameLen
  PROVE  Cut(s) = s
<1>1. Len(s) \in Nat /\ NameLen \in Nat
  BY Specials
<1>2. (IF Len(s) < NameLen THEN Len(s) ELSE NameLen) = Len(s)
  BY <1>1
<1>3. SubSeq(s, 1, Len(s)) = s
  BY SubSeqFull
<1> QED
  BY <1>2, <1>3 DEF Cut

\* What the server takes for a name of up to three parts, R takes for the same one.
LEMMA SameName ==
  ASSUME NEW t \in Seq(Chars), ServerName(t) # Error, Len(ServerName(t)) <= 3
  PROVE  /\ Unquote(t) # Error
         /\ \/ Unquote(t) = ServerName(t)
            \/ Long(Unquote(t))
            \/ Folds(t) /\ Len(Unquote(t)) = Len(ServerName(t))
<1> DEFINE st == NameState("server", t)
           rt == NameState("regex", t)
           names == Append(st.parts, st.last)
           back_ == Append(rt.parts, rt.last)
<1>1. "server" \in {"server", "regex"} /\ "regex" \in {"server", "regex"}
  OBVIOUS
<1>2. st \in NameStates /\ rt \in NameStates
  BY <1>1, NameReading
<1>3. Alike(st, rt) /\ ((st.mode # "bad" /\ ~Folds(t)) => rt = st)
  BY ReadersAgree
<1> HIDE DEF st, rt
<1>4. /\ st = Name(st.parts, st.last, st.mode)
      /\ st.parts \in Seq(Seq(Chars)) /\ st.last \in Seq(Chars) /\ st.mode \in Modes
  BY <1>2, StateIsName
<1>5. /\ rt = Name(rt.parts, rt.last, rt.mode)
      /\ rt.parts \in Seq(Seq(Chars)) /\ rt.last \in Seq(Chars) /\ rt.mode \in Modes
  BY <1>2, StateIsName
<1>6. ServerName(t) = IF st.mode \in {"bare", "closed"} /\ st.last # <<>>
                      THEN [k \in DOMAIN names |-> Cut(names[k])] ELSE Error
  BY <1>4, ServerEnd DEF st
<1>7. /\ st.mode \in {"bare", "closed"} /\ st.last # <<>>
      /\ ServerName(t) = [k \in DOMAIN names |-> Cut(names[k])]
  BY <1>6
<1>8. rt.mode = st.mode /\ Len(rt.parts) = Len(st.parts) /\ Len(rt.last) = Len(st.last)
  BY <1>3, <1>7 DEF Alike
<1>9. rt.last # <<>>
  BY <1>4, <1>5, <1>7, <1>8
<1>10. /\ names \in Seq(Seq(Chars)) /\ Len(names) = Len(st.parts) + 1 /\ DOMAIN names = 1..Len(names)
       /\ back_ \in Seq(Seq(Chars)) /\ Len(back_) = Len(rt.parts) + 1 /\ DOMAIN back_ = 1..Len(back_)
  BY <1>4, <1>5
<1> HIDE DEF names, back_
<1>11. Len(ServerName(t)) = Len(names)
  <2> DEFINE n == Len(names)
  <2>1. n \in Nat /\ ServerName(t) = [k \in 1..n |-> Cut(names[k])]
    BY <1>7, <1>10
  <2> HIDE DEF n
  <2> QED
    BY <2>1 DEF n
<1>12. Len(rt.parts) <= 2
  BY <1>4, <1>8, <1>10, <1>11
<1>13. Unquote(t) = back_
  <2>1. Unquote(t) = IF rt.mode = "bad" \/ rt.mode = "quoted" \/ Len(rt.parts) > 2
                        \/ (rt.mode = "closed" /\ rt.last = <<>>)
                     THEN Error ELSE IF rt.last = <<>> THEN rt.parts ELSE Append(rt.parts, rt.last)
    BY <1>5, RegexEnd DEF rt
  <2>2. ~(Len(rt.parts) > 2)
    BY <1>5, <1>12
  <2> QED
    BY <1>7, <1>8, <1>9, <2>1, <2>2 DEF back_
<1>14. back_ # Error
  BY <1>10, QuotingAssumption
<1>15. Len(back_) = Len(ServerName(t))
  BY <1>8, <1>10, <1>11
<1>16. ASSUME ~Folds(t), ~Long(back_) PROVE back_ = ServerName(t)
  <2>1. back_ = names
    BY <1>3, <1>7, <1>16 DEF names, back_
  <2>2. ASSUME NEW k \in DOMAIN names PROVE Cut(names[k]) = names[k]
    <3>1. names[k] \in Seq(Chars)
      BY <1>10
    <3>2. Len(names[k]) <= NameLen
      <4>1. ~(Len(names[k]) > NameLen)
        BY <1>16, <2>1 DEF Long
      <4> QED
        BY <3>1, <4>1, Specials
    <3> QED
      BY <3>1, <3>2, ShortIsWhole
  <2>3. names = [k \in DOMAIN names |-> names[k]]
    BY <1>10
  <2> QED
    BY <1>7, <2>1, <2>2, <2>3
<1> QED
  BY <1>13, <1>14, <1>15, <1>16

-----------------------------------------------------------------------------
(* The promises.                                                           *)

\* What was written is the quoted form of what was given, and what was read is
\* what the readers make of it.
QuotedOf ==
  /\ what = "Id" => text = QuoteId(given)
  /\ what = "SQL" => text = given
  /\ what = "string" => text = (IF given = NA THEN NA ELSE Quote(given))

ReadOf ==
  /\ what = "string" => read = (IF text = NA THEN NA ELSE ServerString(text, redshift))
  /\ what # "string" => read = ServerName(text) /\ back = Unquote(text)

Given ==
  /\ redshift \in BOOLEAN
  /\ what \in {"Id", "string", "SQL"}
  /\ what = "Id" => given \in Names
  /\ what = "string" => given \in Strings \cup {NA}
  /\ what = "SQL" => given \in Texts

IInv ==
  /\ Given
  /\ pc # "R" => QuotedOf
  /\ pc = "read" => ReadOf

LEMMA Invariant == Spec => []IInv
<1>1. Init => IInv
  <2> SUFFICES ASSUME Init PROVE IInv
    OBVIOUS
  <2>1. Given
    BY DEF Init, Given
  <2>2. pc = "R"
    BY DEF Init
  <2> QED
    BY <2>1, <2>2 DEF IInv
<1>2. IInv /\ [Next]_vars => IInv'
  <2> SUFFICES ASSUME IInv, [Next]_vars PROVE IInv'
    OBVIOUS
  <2>0. /\ given' = given /\ what' = what /\ redshift' = redshift
        /\ Given /\ Given'
    BY DEF IInv, Next, QuoteName, QuoteText, ReadName, ReadText, vars, Given
  <2>1. CASE QuoteName
    <3>1. QuotedOf'
      BY <2>0, <2>1 DEF QuoteName, QuotedOf, Quote
    <3> QED
      BY <2>0, <2>1, <3>1 DEF IInv, QuoteName
  <2>2. CASE QuoteText
    <3>1. QuotedOf'
      BY <2>0, <2>2 DEF QuoteText, QuotedOf, Quote
    <3> QED
      BY <2>0, <2>2, <3>1 DEF IInv, QuoteText
  <2>3. CASE ReadName
    <3>1. QuotedOf'
      <4>1. QuotedOf /\ text' = text
        BY <2>3 DEF IInv, ReadName
      <4> QED
        BY <2>0, <4>1 DEF QuotedOf, Quote
    <3>2. ReadOf'
      BY <2>0, <2>3 DEF ReadName, ReadOf
    <3> QED
      BY <2>0, <3>1, <3>2 DEF IInv
  <2>4. CASE ReadText
    <3>1. QuotedOf'
      <4>1. QuotedOf /\ text' = text
        BY <2>4 DEF IInv, ReadText
      <4> QED
        BY <2>0, <4>1 DEF QuotedOf, Quote
    <3>2. ReadOf'
      BY <2>0, <2>4 DEF ReadText, ReadOf
    <3> QED
      BY <2>0, <3>1, <3>2 DEF IInv
  <2>5. CASE UNCHANGED vars
    <3>1. (QuotedOf <=> QuotedOf') /\ (ReadOf <=> ReadOf') /\ pc' = pc
      BY <2>5 DEF vars, QuotedOf, ReadOf, Quote
    <3> QED
      BY <2>0, <3>1 DEF IInv
  <2> QED
    BY <2>1, <2>2, <2>3, <2>4, <2>5 DEF Next
<1> QED
  BY <1>1, <1>2, PTL DEF Spec

\* dbQuoteIdentifier() of an Id: whatever the characters of its parts, the
\* server and dbUnquoteIdentifier() read exactly these parts, or refuse a blank one.
THEOREM NameComesBack == Spec => []NameIsKept
<1>1. IInv => NameIsKept
  <2> SUFFICES ASSUME IInv, pc = "read", what = "Id"
               PROVE  IF Blank(given) THEN read = Error /\ back = Error
                      ELSE read = [k \in DOMAIN given |-> Cut(given[k])] /\ back = given
    BY DEF NameIsKept
  <2>1. given \in Names /\ text = QuoteId(given) /\ read = ServerName(text) /\ back = Unquote(text)
    BY DEF IInv, Given, QuotedOf, ReadOf
  <2>2. given \in Seq(Seq(Chars)) /\ Len(given) \in 1..3
    BY <2>1, QuotingAssumption
  <2> QED
    BY <2>1, <2>2, IdIsKept
<1> QED
  BY <1>1, Invariant, PTL

\* A name that the user wrote as SQL: dbUnquoteIdentifier() splits it where the
\* server does, and finds the same parts unless the server folds or cuts them.
THEOREM ReadersAgreeOnNames == Spec => []NamesAgree
<1>1. IInv => NamesAgree
  <2> SUFFICES ASSUME IInv, pc = "read", what = "SQL", read # Error, Len(read) <= 3
               PROVE  \/ back = read
                      \/ back # Error /\ Long(back)
                      \/ back # Error /\ Folds(text) /\ Len(back) = Len(read)
    BY DEF NamesAgree
  <2>1. given \in Texts /\ text = given /\ read = ServerName(text) /\ back = Unquote(text)
    BY DEF IInv, Given, QuotedOf, ReadOf
  <2>2. text \in Seq(Chars)
    BY <2>1, QuotingAssumption
  <2> QED
    BY <2>1, <2>2, SameName
<1> QED
  BY <1>1, Invariant, PTL

\* dbQuoteString(): the server reads exactly the string that was quoted,
\* whatever its characters, on PostgreSQL and on Redshift.
THEOREM StringComesBack == Spec => []StringIsRead
<1>1. IInv => StringIsRead
  <2> SUFFICES ASSUME IInv, pc = "read", what = "string" PROVE read = given
    BY DEF StringIsRead
  <2>1. /\ given \in Strings \cup {NA} /\ redshift \in BOOLEAN
        /\ text = IF given = NA THEN NA ELSE Quote(given)
        /\ read = IF text = NA THEN NA ELSE ServerString(text, redshift)
    BY DEF IInv, Given, QuotedOf, ReadOf
  <2>2. CASE given = NA
    BY <2>1, <2>2
  <2>3. CASE given # NA
    <3>1. given \in Seq(Chars)
      BY <2>1, <2>3, QuotingAssumption
    <3>2. Quote(given) \in Seq(Chars) /\ ServerString(Quote(given), redshift) = given
      BY <2>1, <3>1, QuotedIsRead DEF Quote
    <3>3. Quote(given) # NA
      BY <3>2, QuotingAssumption
    <3> QED
      BY <2>1, <2>3, <3>2, <3>3
  <2> QED
    BY <2>2, <2>3
<1> QED
  BY <1>1, Invariant, PTL

=============================================================================
