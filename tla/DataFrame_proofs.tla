--------------------------- MODULE DataFrame_proofs ---------------------------
(* Proofs about DataFrame, for any number of columns and rows, any capacity   *)
(* of the storages and any n_max.                                             *)
EXTENDS DataFrame, SequenceTheorems, TLAPS

\* Storage s holds the values o + 1 to p of a column with the values f: those
\* beyond its vector are NULLs that were only counted.
Tile(s, f, o, p) ==
  /\ p = o + s.used /\ p <= Len(f)
  /\ \A i \in 1..s.used : f[o + i] = IF i <= Len(s.data) THEN s.data[i] ELSE Null

\* The storages ss hold the values of f one behind the other; off[k] precede
\* storage k.
Tiles(ss, f, off) ==
  /\ off \in [1..(Len(ss) + 1) -> Nat]
  /\ off[1] = 0 /\ off[Len(ss) + 1] = Len(f)
  /\ \A k \in 1..Len(ss) : Tile(ss[k], f, off[k], off[k + 1])

\* s is the first n elements of f.
Front(s, f, n) == Len(s) = n /\ n <= Len(f) /\ \A i \in 1..n : s[i] = f[i]

\* How far column c has been copied.
Progress(c, off) ==
  /\ c < col => Front(out[c], fed[c], rows)
  /\ c = col => /\ next \in 1..(Len(storage[c]) + 1)
                /\ Front(out[c], fed[c], MinOf(off[next], rows))
  /\ c > col => out[c] = <<>>

Filled == \A c \in Columns : \E off : Tiles(storage[c], fed[c], off) /\ Progress(c, off)

\* Where the calls are.
Shape ==
  /\ \A c \in Columns : rows <= Len(fed[c])
  /\ pc \in {"new", "gathering"} => \A c \in Columns : Len(fed[c]) = rows
  /\ pc \in {"new", "gathering", "lost"} =>
       col = 1 /\ next = 1 /\ \A c \in Columns : out[c] = <<>>
  /\ pc = "new" => rows = 0
  /\ pc = "done" => col > NCols

\* The inductive invariant.
Sound == TypeOK /\ Shape /\ Filled

(***************************************************************************)
(* Storages.                                                               *)
(***************************************************************************)

LEMMA AllocateType ==
  ASSUME NEW l \in Int, NEW known \in BOOLEAN, NEW desired \in Int
  PROVE  /\ Allocate(l, known, desired) \in Storages
         /\ Allocate(l, known, desired).used = 0
         /\ known => Len(Allocate(l, known, desired).data) >= 1
<1> DEFINE n == NewCapacity(l, desired)
<1>1. n \in Nat /\ n >= 1
  BY DataFrameAssumption DEF NewCapacity, MaxOf
<1> HIDE DEF n
<1>2. [k \in 1..n |-> Junk] \in Seq(Values \cup {Junk})
  BY <1>1
<1>3. Len([k \in 1..n |-> Junk]) = n
  BY <1>1
<1> QED
  BY <1>1, <1>2, <1>3 DEF Allocate, Storages, n

LEMMA StoreType ==
  ASSUME NEW s \in Storages, NEW v \in Values
  PROVE  /\ Store(s, v) \in Storages
         /\ Store(s, v).used = s.used + 1
         /\ Len(Store(s, v).data) = Len(s.data)
         /\ s.used < Len(s.data) => Store(s, v).data[s.used + 1] = v
         /\ \A i \in 1..Len(s.data) : i # s.used + 1 => Store(s, v).data[i] = s.data[i]
<1> DEFINE d == IF s.used < Len(s.data) THEN [s.data EXCEPT ![s.used + 1] = v] ELSE s.data
<1>1. s.data \in Seq(Values \cup {Junk}) /\ s.used \in Nat /\ s.known \in BOOLEAN
  BY DEF Storages
<1>2. d \in Seq(Values \cup {Junk}) /\ Len(d) = Len(s.data)
  BY <1>1
<1>3. /\ s.used < Len(s.data) => d[s.used + 1] = v
      /\ \A i \in 1..Len(s.data) : i # s.used + 1 => d[i] = s.data[i]
  BY <1>1
<1>4. Store(s, v) = [[s EXCEPT !.used = s.used + 1] EXCEPT !.data = d]
  BY DEF Store, Capacity
<1> HIDE DEF d
<1>5. Store(s, v) = [known |-> s.known, used |-> s.used + 1, data |-> d]
  BY <1>4 DEF Storages
<1> QED
  BY <1>1, <1>2, <1>3, <1>5 DEF Storages

\* What storage s holds stays where it is when the column gets one value more.
LEMMA KeptInPlace ==
  ASSUME NEW f \in Seq(Values), NEW v \in Values, NEW s \in Storages,
         NEW o \in Nat, NEW p \in Nat, Tile(s, f, o, p)
  PROVE  Tile(s, Append(f, v), o, p)
<1>1. s.used \in Nat
  BY DEF Storages
<1>2. \A i \in 1..s.used : o + i \in 1..Len(f)
  BY <1>1 DEF Tile
<1>3. /\ Len(Append(f, v)) = Len(f) + 1
      /\ \A j \in 1..Len(f) : Append(f, v)[j] = f[j]
  OBVIOUS
<1>4. p = o + s.used /\ p <= Len(Append(f, v))
  BY <1>1, <1>3 DEF Tile
<1> QED
  BY <1>2, <1>3, <1>4 DEF Tile

LEMMA NewTiles ==
  ASSUME NEW l \in Int, NEW known \in BOOLEAN
  PROVE  /\ <<Allocate(l, known, 0)>> \in Seq(Storages)
         /\ Tiles(<<Allocate(l, known, 0)>>, <<>>, [k \in 1..2 |-> 0])
<1> DEFINE a == Allocate(l, known, 0)
<1>1. a \in Storages /\ a.used = 0
  BY AllocateType
<1> HIDE DEF a
<1>2. <<a>> \in Seq(Storages) /\ Len(<<a>>) = 1 /\ <<a>>[1] = a
  BY <1>1
<1>3. Tiles(<<a>>, <<>>, [k \in 1..2 |-> 0])
  BY <1>1, <1>2 DEF Tiles, Tile
<1> QED
  BY <1>2, <1>3 DEF a

\* One value more: DbColumn::set_col_value() keeps the storages in line with
\* the values of the column.
LEMMA SetColValueTiles ==
  ASSUME NEW l \in Int, NEW ss \in Seq(Storages), ss # <<>>,
         NEW f \in Seq(Values), NEW off, Tiles(ss, f, off), NEW v \in Values
  PROVE  /\ SetColValue(l, ss, v) \in Seq(Storages)
         /\ SetColValue(l, ss, v) # <<>>
         /\ \E new : Tiles(SetColValue(l, ss, v), Append(f, v), new)
<1> DEFINE n == Len(ss)
           s == ss[n]
           g == Append(f, v)
<1>1. n \in Nat /\ n >= 1 /\ s \in Storages
  OBVIOUS
<1>2. /\ g \in Seq(Values) /\ Len(g) = Len(f) + 1 /\ g[Len(f) + 1] = v
      /\ \A i \in 1..Len(f) : g[i] = f[i]
  OBVIOUS
<1>3. /\ s.used \in Nat /\ off[n] \in Nat /\ off[n + 1] = off[n] + s.used
      /\ off[n + 1] = Len(f) /\ Len(f) = off[n] + s.used
  <2>1. n \in 1..Len(ss)
    BY <1>1
  <2>2. s.used \in Nat
    BY <1>1 DEF Storages
  <2> QED
    BY <1>1, <2>1, <2>2 DEF Tiles, Tile
<1>4. \A k \in 1..n : ss[k] \in Storages
  OBVIOUS
<1>5. CASE Spills(s, v)
  <2> DEFINE a == Allocate(l, TRUE, Desired(l, s))
             b == Store(a, v)
             tt == Append(ss, b)
             new == [k \in 1..(n + 2) |-> IF k <= n + 1 THEN off[k] ELSE Len(f) + 1]
  <2>1. Desired(l, s) \in Int
    BY <1>1 DEF Desired, Capacity, Storages
  <2>2. a \in Storages /\ a.used = 0 /\ Len(a.data) >= 1
    BY <2>1, AllocateType
  <2> HIDE DEF a
  <2>3. /\ b \in Storages /\ b.used = 1 /\ Len(b.data) >= 1 /\ b.data[1] = v
    <3>1. a.data \in Seq(Values \cup {Junk})
      BY <2>2 DEF Storages
    <3> QED
      BY <2>2, <3>1, StoreType
  <2> HIDE DEF b
  <2>4. /\ tt \in Seq(Storages) /\ Len(tt) = n + 1 /\ tt[n + 1] = b
        /\ \A k \in 1..n : tt[k] = ss[k]
    BY <2>3
  <2> HIDE DEF tt, n
  <2>5. Tiles(tt, g, new)
    <3>1. new \in [1..(Len(tt) + 1) -> Nat]
      BY <1>1, <2>4 DEF Tiles, n
    <3>2. new[1] = 0 /\ new[Len(tt) + 1] = Len(g)
      BY <1>1, <1>2, <2>4 DEF Tiles
    <3>3. ASSUME NEW k \in 1..n
          PROVE Tile(tt[k], g, new[k], new[k + 1])
      <4>1. new[k] = off[k] /\ new[k + 1] = off[k + 1] /\ tt[k] = ss[k]
        BY <1>1, <2>4
      <4>2. off[k] \in Nat /\ off[k + 1] \in Nat /\ Tile(ss[k], f, off[k], off[k + 1])
        BY <1>1 DEF Tiles, n
      <4> QED
        BY <1>4, <4>1, <4>2, KeptInPlace
    <3>4. Tile(tt[n + 1], g, new[n + 1], new[n + 2])
      <4>1. new[n + 1] = Len(f) /\ new[n + 2] = Len(f) + 1
        BY <1>1, <1>3
      <4> HIDE DEF new
      <4> QED
        BY <1>2, <2>3, <2>4, <4>1 DEF Tile
    <3> HIDE DEF new, g
    <3>5. \A k \in 1..Len(tt) : k \in 1..n \/ (k = n + 1 /\ k + 1 = n + 2)
      BY <1>1, <2>4
    <3> QED
      BY <3>1, <3>2, <3>3, <3>4, <3>5 DEF Tiles
  <2>6. SetColValue(l, ss, v) = tt
    BY <1>5 DEF SetColValue, tt, b, a, n
  <2> HIDE DEF new
  <2> QED
    BY <1>1, <2>4, <2>5, <2>6 DEF g
<1>6. CASE ~Spills(s, v)
  <2> DEFINE b == Store(s, v)
             tt == [ss EXCEPT ![n] = b]
             new == [off EXCEPT ![n + 1] = Len(f) + 1]
  <2>1. /\ b \in Storages /\ b.used = s.used + 1 /\ Len(b.data) = Len(s.data)
        /\ s.used < Len(s.data) => b.data[s.used + 1] = v
        /\ \A i \in 1..Len(s.data) : i # s.used + 1 => b.data[i] = s.data[i]
    BY <1>1, StoreType
  <2>2. v = Null \/ s.used < Len(s.data)
    BY <1>1, <1>6 DEF Spills, Capacity, Storages
  <2> HIDE DEF b
  <2>3. /\ tt \in Seq(Storages) /\ Len(tt) = n /\ tt[n] = b
        /\ \A k \in 1..(n - 1) : tt[k] = ss[k]
    BY <1>1, <2>1
  <2>4. Len(s.data) \in Nat
    BY <1>1 DEF Storages
  <2> HIDE DEF tt, n, s
  <2>5. Tiles(tt, g, new)
    <3>1. new \in [1..(Len(tt) + 1) -> Nat]
      BY <1>1, <2>3 DEF Tiles, n
    <3>2. new[1] = 0 /\ new[Len(tt) + 1] = Len(g)
      BY <1>1, <1>2, <2>3 DEF Tiles, n
    <3>3. ASSUME NEW k \in 1..(n - 1)
          PROVE Tile(tt[k], g, new[k], new[k + 1])
      <4>1. new[k] = off[k] /\ new[k + 1] = off[k + 1] /\ tt[k] = ss[k]
        BY <1>1, <2>3 DEF Tiles, n
      <4>2. off[k] \in Nat /\ off[k + 1] \in Nat /\ Tile(ss[k], f, off[k], off[k + 1])
        <5>1. k \in 1..Len(ss) /\ k \in 1..(Len(ss) + 1) /\ k + 1 \in 1..(Len(ss) + 1)
          BY <1>1 DEF n
        <5> QED
          BY <5>1 DEF Tiles
      <4>3. ss[k] \in Storages
        BY <1>1, <1>4
      <4> QED
        BY <4>1, <4>2, <4>3, KeptInPlace
    <3>4. Tile(tt[n], g, new[n], new[n + 1])
      <4>1. new[n + 1] = Len(f) + 1 /\ new[n] = off[n]
        BY <1>1 DEF Tiles, n
      <4>2. Tile(s, f, off[n], off[n + 1])
        BY <1>1 DEF Tiles, n, s
      <4>3. Tile(s, g, off[n], off[n + 1])
        BY <1>1, <1>3, <4>2, KeptInPlace
      <4> HIDE DEF new, g
      <4>4. ASSUME NEW i \in 1..b.used
            PROVE g[off[n] + i] = IF i <= Len(b.data) THEN b.data[i] ELSE Null
        <5>1. CASE i = s.used + 1
          <6>1. g[off[n] + i] = v
            BY <1>2, <1>3, <5>1
          <6> QED
            BY <1>3, <2>1, <2>2, <2>4, <5>1, <6>1
        <5>2. CASE i # s.used + 1
          <6>1. i \in 1..s.used
            BY <1>3, <2>1, <5>2
          <6>2. i <= Len(s.data) => b.data[i] = s.data[i]
            BY <2>1, <2>4, <5>2, <6>1
          <6> QED
            BY <2>1, <4>3, <6>1, <6>2 DEF Tile
        <5> QED
          BY <5>1, <5>2
      <4>5. Tile(b, g, off[n], Len(f) + 1)
        <5>1. Len(f) + 1 = off[n] + b.used /\ Len(f) + 1 <= Len(g)
          <6>1. b.used = s.used + 1 /\ Len(f) \in Nat /\ Len(g) = Len(f) + 1
            BY <1>2, <2>1
          <6>2. s.used \in Nat /\ off[n] \in Nat /\ Len(f) = off[n] + s.used
            BY <1>3
          <6> QED
            BY <6>1, <6>2
        <5> QED
          BY <4>4, <5>1 DEF Tile
      <4> QED
        BY <2>3, <4>1, <4>5
    <3> HIDE DEF new, g
    <3>5. \A k \in 1..Len(tt) : k \in 1..(n - 1) \/ k = n
      BY <1>1, <2>3
    <3> QED
      BY <3>1, <3>2, <3>3, <3>4, <3>5 DEF Tiles
  <2>6. SetColValue(l, ss, v) = tt
    BY <1>6 DEF SetColValue, tt, b, n, s
  <2> HIDE DEF new
  <2> QED
    BY <1>1, <2>3, <2>5, <2>6 DEF g
<1> QED
  BY <1>5, <1>6

(***************************************************************************)
(* Copying.                                                                *)
(***************************************************************************)

LEMMA CopiedFront ==
  ASSUME NEW f \in Seq(Values), NEW s \in Storages, NEW o \in Nat, NEW p \in Nat,
         Tile(s, f, o, p), NEW n \in Nat, n <= Len(f),
         NEW done \in Seq(Values), Front(done, f, MinOf(o, n))
  PROVE  /\ done \o Copied(s, n - Len(done)) \in Seq(Values)
         /\ Front(done \o Copied(s, n - Len(done)), f, MinOf(p, n))
<1> DEFINE m == Len(done)
           more == Copied(s, n - m)
           u == MinOf(s.used, n - m)
<1>1. s.used \in Nat /\ p = o + s.used /\ p <= Len(f) /\ Len(f) \in Nat
  BY DEF Storages, Tile
<1>2. m \in Nat /\ m = MinOf(o, n) /\ m <= n /\ (u > 0 => m = o)
  BY <1>1 DEF Front, MinOf
<1>3. u \in Nat /\ m + u = MinOf(p, n) /\ m + u <= n
  BY <1>1, <1>2 DEF MinOf
<1>4. /\ more = [k \in 1..u |-> IF k <= Len(s.data) THEN s.data[k] ELSE Null]
      /\ u <= s.used
  BY <1>1, <1>2 DEF Copied, Capacity, MinOf
<1> HIDE DEF more, u
<1>5. \A k \in 1..u : more[k] = f[m + k] /\ f[m + k] \in Values
  <2> SUFFICES ASSUME NEW k \in 1..u PROVE more[k] = f[m + k] /\ f[m + k] \in Values
    OBVIOUS
  <2>1. m = o /\ k \in 1..s.used /\ m + k \in 1..Len(f)
    BY <1>1, <1>2, <1>3, <1>4
  <2>2. f[o + k] = IF k <= Len(s.data) THEN s.data[k] ELSE Null
    BY <2>1 DEF Tile
  <2> QED
    BY <1>4, <2>1, <2>2
<1>6. more \in Seq(Values) /\ Len(more) = u
  <2>1. more = [k \in 1..u |-> more[k]] /\ \A k \in 1..u : more[k] \in Values
    BY <1>4, <1>5
  <2> QED
    BY <1>3, <2>1
<1> HIDE DEF m
<1>7. /\ done \o more \in Seq(Values)
      /\ Len(done \o more) = m + u
      /\ \A i \in 1..m : (done \o more)[i] = done[i]
      /\ \A i \in 1..u : (done \o more)[m + i] = more[i]
  <2>1. /\ done \o more \in Seq(Values)
        /\ Len(done \o more) = Len(done) + Len(more)
        /\ \A i \in 1..(Len(done) + Len(more)) :
             (done \o more)[i] = IF i <= Len(done) THEN done[i] ELSE more[i - Len(done)]
    BY <1>6, ConcatProperties
  <2>2. ASSUME NEW i \in 1..u PROVE (done \o more)[m + i] = more[i]
    <3>1. m + i \in 1..(m + u) /\ ~(m + i <= m) /\ (m + i) - m = i
      BY <1>2, <1>3
    <3> QED
      BY <1>6, <2>1, <3>1 DEF m
  <2>3. \A i \in 1..m : i \in 1..(m + u)
    BY <1>2, <1>3
  <2> QED
    BY <1>6, <2>1, <2>2, <2>3 DEF m
<1>8. \A i \in 1..(m + u) : (done \o more)[i] = f[i]
  <2> SUFFICES ASSUME NEW i \in 1..(m + u) PROVE (done \o more)[i] = f[i]
    OBVIOUS
  <2>1. CASE i <= m
    <3>1. i \in 1..m /\ done[i] = f[i]
      BY <1>2, <1>3, <2>1 DEF Front, m
    <3> QED
      BY <1>7, <3>1
  <2>2. CASE i > m
    <3>1. i - m \in 1..u /\ m + (i - m) = i
      BY <1>2, <1>3, <2>2
    <3> QED
      BY <1>5, <1>7, <3>1
  <2>3. i <= m \/ i > m
    BY <1>2, <1>3
  <2> QED
    BY <2>1, <2>2, <2>3
<1>9. Front(done \o more, f, m + u)
  BY <1>1, <1>2, <1>3, <1>7, <1>8 DEF Front
<1> QED
  BY <1>3, <1>7, <1>9 DEF more, m

\* The front of a column, as the property writes it.
LEMMA FrontIsSubSeq ==
  ASSUME NEW f \in Seq(Values), NEW s \in Seq(Values), NEW n \in Nat, Front(s, f, n)
  PROVE  s = SubSeq(f, 1, n)
<1>1. /\ SubSeq(f, 1, n) \in Seq(Values) /\ Len(SubSeq(f, 1, n)) = n
      /\ \A i \in 1..n : SubSeq(f, 1, n)[i] = f[i]
  BY DEF Front
<1>2. Len(s) = n /\ \A i \in 1..n : s[i] = f[i]
  BY DEF Front
<1> QED
  BY <1>1, <1>2

(***************************************************************************)
(* The steps.                                                              *)
(***************************************************************************)

LEMMA LimitsAreInts == TypeOK => limit \in Int
  BY DataFrameAssumption DEF TypeOK

LEMMA ColumnType ==
  ASSUME TypeOK, NEW c \in Columns
  PROVE  /\ storage[c] \in Seq(Storages) /\ fed[c] \in Seq(Values) /\ out[c] \in Seq(Values)
         /\ rows \in Nat /\ Len(fed[c]) \in Nat
  BY DEF TypeOK

LEMMA SoundInit == Init => Sound
<1> SUFFICES ASSUME Init PROVE Sound
  OBVIOUS
<1>1. TypeOK
  BY DataFrameAssumption, EmptySeq DEF Init, TypeOK
<1>2. Shape
  BY DEF Init, Shape
<1>3. ASSUME NEW c \in Columns
      PROVE \E off : Tiles(storage[c], fed[c], off) /\ Progress(c, off)
  <2> DEFINE off == [k \in 1..1 |-> 0]
  <2>1. storage[c] = <<>> /\ fed[c] = <<>> /\ out[c] = <<>> /\ col = 1 /\ next = 1 /\ rows = 0
    BY <1>3 DEF Init
  <2>2. Tiles(<<>>, <<>>, off)
    BY DEF Tiles
  <2>3. Progress(c, off)
    BY <2>1 DEF Progress, Front, MinOf, Columns
  <2> QED
    BY <2>1, <2>2, <2>3
<1> QED
  BY <1>1, <1>2, <1>3 DEF Sound, Filled

\* Before anything is copied it is enough that the storages hold the values.
LEMMA BeforeCopying ==
  ASSUME TypeOK', Shape', col' = 1, next' = 1, \A c \in Columns : out'[c] = <<>>,
         \A c \in Columns : \E off : Tiles(storage'[c], fed'[c], off)
  PROVE  Sound'
<1>1. ASSUME NEW c \in Columns
      PROVE \E off : Tiles(storage'[c], fed'[c], off) /\ Progress(c, off)'
  <2>1. PICK off : Tiles(storage'[c], fed'[c], off)
    BY <1>1
  <2>2. /\ rows' \in Nat /\ fed'[c] \in Seq(Values) /\ storage'[c] \in Seq(Storages)
        /\ Len(fed'[c]) \in Nat /\ Len(storage'[c]) \in Nat
    BY <1>1 DEF TypeOK
  <2>3. Front(out'[c], fed'[c], MinOf(off[1], rows'))
    <3>1. off[1] = 0 /\ out'[c] = <<>>
      BY <1>1, <2>1 DEF Tiles
    <3>2. MinOf(0, rows') = 0
      BY <2>2 DEF MinOf
    <3> QED
      BY <2>2, <3>1, <3>2 DEF Front
  <2>4. ~(c < 1) /\ 1 \in 1..(Len(storage'[c]) + 1)
    BY <1>1, <2>2 DEF Columns
  <2>5. Progress(c, off)'
    BY <1>1, <2>3, <2>4 DEF Progress
  <2> QED
    BY <2>1, <2>5
<1> QED
  BY <1>1 DEF Sound, Filled

\* The data frame is new and nothing is in it.
LEMMA NothingYet ==
  ASSUME Sound, pc = "new"
  PROVE  /\ col = 1 /\ next = 1 /\ rows = 0
         /\ \A c \in Columns : fed[c] = <<>> /\ out[c] = <<>>
<1>1. ASSUME NEW c \in Columns PROVE fed[c] = <<>>
  <2>1. fed[c] \in Seq(Values) /\ Len(fed[c]) = 0
    BY <1>1, ColumnType DEF Sound, Shape
  <2> QED
    BY <2>1
<1> QED
  BY <1>1 DEF Sound, Shape

LEMMA NewColumnsTiles ==
  ASSUME NEW l \in Int, NEW c \in Columns
  PROVE  /\ NewColumns(l)[c] \in Seq(Storages) /\ NewColumns(l)[c] # <<>>
         /\ \E off : Tiles(NewColumns(l)[c], <<>>, off)
<1>1. PICK known \in BOOLEAN : NewColumns(l)[c] = <<Allocate(l, known, 0)>>
  BY DEF NewColumns
<1> DEFINE ss == <<Allocate(l, known, 0)>>
<1>2. ss \in Seq(Storages) /\ Tiles(ss, <<>>, [k \in 1..2 |-> 0])
  BY NewTiles
<1>3. ss # <<>>
  OBVIOUS
<1> HIDE DEF ss
<1>4. NewColumns(l)[c] = ss
  BY <1>1 DEF ss
<1> QED
  BY <1>2, <1>3, <1>4

LEMMA SoundCreate ==
  ASSUME Sound, NEW l \in Limits, NEW complete \in BOOLEAN, Create(l, complete)
  PROVE  Sound'
<1>1. pc = "new" /\ l \in Int
  BY DataFrameAssumption DEF Create
<1>2. \A c \in Columns : /\ storage'[c] \in Seq(Storages) /\ storage'[c] # <<>>
                         /\ \E off : Tiles(storage'[c], fed'[c], off)
  BY <1>1, NewColumnsTiles, NothingYet DEF Create
<1>3. storage' = [c \in Columns |-> storage'[c]]
  BY DEF Create, NewColumns
<1>4. TypeOK'
  BY <1>2, <1>3 DEF Create, Sound, TypeOK
<1>5. col' = 1 /\ next' = 1 /\ \A c \in Columns : out'[c] = <<>>
  BY <1>1, NothingYet DEF Create
<1>6. Shape'
  BY <1>1, <1>5 DEF Create, Sound, Shape
<1> QED
  BY <1>2, <1>4, <1>5, <1>6, BeforeCopying

LEMMA SoundPeek ==
  ASSUME Sound, NEW row \in NextRow, NEW complete \in BOOLEAN, Peek(row, complete)
  PROVE  Sound'
<1>1. pc = "new" /\ rows = 0 /\ col = 1 /\ next = 1 /\ pc' = "copying"
      /\ limit' = 1 /\ UNCHANGED <<rows, col, next, out>>
      /\ \A c \in Columns : fed[c] = <<>> /\ out[c] = <<>>
  BY NothingYet DEF Peek
<1>2. /\ storage' = [c \in Columns |-> storage'[c]] /\ fed' = [c \in Columns |-> fed'[c]]
      /\ \A c \in Columns : /\ storage'[c] \in Seq(Storages) /\ storage'[c] # <<>>
                             /\ fed'[c] \in Seq(Values)
                             /\ \E off : Tiles(storage'[c], fed'[c], off)
  <2>1. CASE complete
    <3>1. storage' = NewColumns(1) /\ fed' = fed
      BY <2>1 DEF Peek
    <3>2. fed' = [c \in Columns |-> fed'[c]] /\ \A c \in Columns : fed'[c] \in Seq(Values)
      BY <3>1 DEF Sound, TypeOK
    <3>3. storage' = [c \in Columns |-> storage'[c]]
      BY <3>1 DEF NewColumns
    <3> QED
      BY <1>1, <3>1, <3>2, <3>3, NewColumnsTiles
  <2>2. CASE ~complete
    <3>1. /\ storage' = [c \in Columns |-> SetColValue(1, NewColumns(1)[c], row[c])]
          /\ fed' = [c \in Columns |-> <<row[c]>>]
      BY <2>2 DEF Peek
    <3>2. ASSUME NEW c \in Columns
          PROVE /\ storage'[c] \in Seq(Storages) /\ storage'[c] # <<>>
                /\ fed'[c] \in Seq(Values)
                /\ \E off : Tiles(storage'[c], fed'[c], off)
      <4>1. PICK off : Tiles(NewColumns(1)[c], <<>>, off)
        BY NewColumnsTiles
      <4>2. row[c] \in Values
        BY <1>1 DEF NextRow, Values
      <4>3. <<>> \in Seq(Values) /\ <<row[c]>> = Append(<<>>, row[c])
        OBVIOUS
      <4>4. NewColumns(1)[c] \in Seq(Storages) /\ NewColumns(1)[c] # <<>>
        BY NewColumnsTiles
      <4>5. storage'[c] = SetColValue(1, NewColumns(1)[c], row[c]) /\ fed'[c] = <<row[c]>>
        BY <3>1
      <4>6. <<row[c]>> \in Seq(Values)
        BY <4>2
      <4> DEFINE ss == NewColumns(1)[c]
                 e == <<>>
      <4>7. ss \in Seq(Storages) /\ ss # <<>> /\ e \in Seq(Values) /\ Tiles(ss, e, off)
        BY <4>1, <4>3, <4>4
      <4> HIDE DEF ss, e
      <4>8. /\ SetColValue(1, ss, row[c]) \in Seq(Storages)
            /\ SetColValue(1, ss, row[c]) # <<>>
            /\ \E new : Tiles(SetColValue(1, ss, row[c]), Append(e, row[c]), new)
        BY <4>2, <4>7, SetColValueTiles
      <4> USE DEF ss, e
      <4>9. storage'[c] = SetColValue(1, ss, row[c]) /\ fed'[c] = Append(e, row[c])
        BY <4>3, <4>5
      <4> HIDE DEF ss, e
      <4> QED
        BY <4>5, <4>6, <4>8, <4>9
    <3> QED
      BY <3>1, <3>2
  <2> QED
    BY <2>1, <2>2
<1>3. TypeOK'
  BY <1>1, <1>2 DEF Sound, TypeOK
<1>4. Shape'
  BY <1>1, <1>2 DEF Shape
<1> QED
  BY <1>1, <1>2, <1>3, <1>4, BeforeCopying

\* One row more, for Gather and Interrupted.
LEMMA OneRowMore ==
  ASSUME Sound, pc = "gathering", NEW row \in NextRow, SetColValues(storage, row)
  PROVE  /\ storage' \in [Columns -> Seq(Storages)] /\ fed' \in [Columns -> Seq(Values)]
         /\ \A c \in Columns : /\ storage'[c] # <<>>
                                /\ Len(fed'[c]) = rows + 1
                                /\ \E off : Tiles(storage'[c], fed'[c], off)
<1>1. /\ storage' = [c \in Columns |-> SetColValue(limit, storage[c], row[c])]
      /\ fed' = [c \in Columns |-> Append(fed[c], row[c])]
  BY DEF SetColValues
<1>2. ASSUME NEW c \in Columns
      PROVE /\ storage'[c] \in Seq(Storages) /\ storage'[c] # <<>>
            /\ fed'[c] \in Seq(Values) /\ Len(fed'[c]) = rows + 1
            /\ \E off : Tiles(storage'[c], fed'[c], off)
  <2>1. PICK off : Tiles(storage[c], fed[c], off)
    BY DEF Sound, Filled
  <2>2. row[c] \in Values
    BY DEF Sound, TypeOK, NextRow, Values
  <2>3. /\ storage[c] \in Seq(Storages) /\ storage[c] # <<>>
        /\ fed[c] \in Seq(Values) /\ Len(fed[c]) = rows /\ limit \in Int
    BY ColumnType, LimitsAreInts DEF Sound, TypeOK, Shape
  <2>4. storage'[c] = SetColValue(limit, storage[c], row[c]) /\ fed'[c] = Append(fed[c], row[c])
    BY <1>1
  <2>5. fed'[c] \in Seq(Values) /\ Len(fed'[c]) = rows + 1
    BY <2>2, <2>3, <2>4
  <2> QED
    BY <2>1, <2>2, <2>3, <2>4, <2>5, SetColValueTiles
<1> QED
  BY <1>1, <1>2

LEMMA SoundGather ==
  ASSUME Sound, NEW row \in NextRow,
         (\E last \in BOOLEAN : Gather(row, last)) \/ Interrupted(row)
  PROVE  Sound'
<1>1. /\ pc = "gathering" /\ SetColValues(storage, row) /\ rows' = rows + 1
      /\ pc' \in {"copying", "gathering", "lost"} /\ UNCHANGED <<limit, col, next, out>>
  BY DEF Gather, Interrupted
<1>2. /\ storage' \in [Columns -> Seq(Storages)] /\ fed' \in [Columns -> Seq(Values)]
      /\ \A c \in Columns : /\ storage'[c] # <<>>
                             /\ Len(fed'[c]) = rows + 1
                             /\ \E off : Tiles(storage'[c], fed'[c], off)
  BY <1>1, OneRowMore
<1>3. TypeOK'
  BY <1>1, <1>2 DEF Sound, TypeOK
<1>4. col = 1 /\ next = 1 /\ \A c \in Columns : out[c] = <<>>
  BY <1>1 DEF Sound, Shape
<1>5. Shape'
  BY <1>1, <1>2, <1>3, <1>4 DEF Shape, TypeOK
<1> QED
  BY <1>1, <1>2, <1>3, <1>4, <1>5, BeforeCopying

LEMMA SoundCopyStorage ==
  ASSUME Sound, CopyStorage
  PROVE  Sound'
<1>1. /\ pc = "copying" /\ col \in Columns /\ next \in 1..Len(storage[col])
      /\ next' = next + 1 /\ UNCHANGED <<limit, rows, storage, fed, pc, col>>
  BY DataFrameAssumption DEF CopyStorage, Sound, TypeOK, Columns
<1> DEFINE new == out[col] \o Copied(storage[col][next], rows - Len(out[col]))
<1>2. out' = [out EXCEPT ![col] = new] /\ out \in [Columns -> Seq(Values)]
  BY DEF CopyStorage, Sound, TypeOK
<1> HIDE DEF new
<1>3. PICK off : Tiles(storage[col], fed[col], off) /\ Progress(col, off)
  BY <1>1 DEF Sound, Filled
<1>4. /\ next + 1 \in 1..(Len(storage[col]) + 1)
      /\ off[next] \in Nat /\ off[next + 1] \in Nat
      /\ Tile(storage[col][next], fed[col], off[next], off[next + 1])
  BY <1>1, <1>3 DEF Tiles
<1>5. /\ storage[col][next] \in Storages /\ fed[col] \in Seq(Values)
      /\ out[col] \in Seq(Values) /\ rows \in Nat /\ rows <= Len(fed[col])
  BY <1>1, ColumnType DEF Sound, Shape
<1>6. Front(out[col], fed[col], MinOf(off[next], rows))
  BY <1>1, <1>3 DEF Progress, Columns
<1>7. new \in Seq(Values) /\ Front(new, fed[col], MinOf(off[next + 1], rows))
  BY <1>4, <1>5, <1>6, CopiedFront DEF new
<1>8. out' \in [Columns -> Seq(Values)] /\ out'[col] = new
      /\ \A c \in Columns : c # col => out'[c] = out[c]
  BY <1>1, <1>2, <1>7
<1>9. TypeOK'
  BY <1>1, <1>8 DEF Sound, TypeOK
<1>10. Shape'
  BY <1>1 DEF Sound, Shape
<1>11. ASSUME NEW c \in Columns
       PROVE \E o : Tiles(storage'[c], fed'[c], o) /\ Progress(c, o)'
  <2>1. CASE c = col
    <3>1. Progress(c, off)'
      BY <1>1, <1>4, <1>7, <1>8, <2>1 DEF Progress, Columns
    <3> QED
      BY <1>1, <1>3, <2>1, <3>1
  <2>2. CASE c # col
    <3>1. PICK o : Tiles(storage[c], fed[c], o) /\ Progress(c, o)
      BY DEF Sound, Filled
    <3>2. Progress(c, o)'
      BY <1>1, <1>8, <2>2, <3>1 DEF Progress
    <3> QED
      BY <1>1, <3>1, <3>2
  <2> QED
    BY <2>1, <2>2
<1> QED
  BY <1>9, <1>10, <1>11 DEF Sound, Filled

LEMMA SoundNextColumn ==
  ASSUME Sound, NextColumn
  PROVE  Sound'
<1>1. /\ pc = "copying" /\ col \in Columns /\ ~(next <= Len(storage[col]))
      /\ col' = col + 1 /\ next' = 1 /\ UNCHANGED <<limit, rows, storage, fed, pc, out>>
      /\ NCols \in Nat
  BY DataFrameAssumption DEF NextColumn, Sound, TypeOK, Columns
<1>2. TypeOK'
  BY <1>1 DEF Sound, TypeOK, Columns
<1>3. Shape'
  BY <1>1 DEF Sound, Shape
<1>4. ASSUME NEW c \in Columns
      PROVE \E off : Tiles(storage'[c], fed'[c], off) /\ Progress(c, off)'
  <2>1. PICK off : Tiles(storage[c], fed[c], off) /\ Progress(c, off)
    BY DEF Sound, Filled
  <2>2. /\ Len(storage[c]) \in Nat /\ rows \in Nat /\ rows <= Len(fed[c])
        /\ fed[c] \in Seq(Values) /\ Len(fed[c]) \in Nat
    BY ColumnType DEF Sound, Shape
  <2>3. CASE c < col
    BY <1>1, <2>1, <2>3 DEF Progress, Columns
  <2>4. CASE c = col
    <3>1. next = Len(storage[c]) + 1 /\ Front(out[c], fed[c], MinOf(off[next], rows))
      BY <1>1, <2>1, <2>2, <2>4 DEF Progress, Columns
    <3>2. MinOf(off[next], rows) = rows
      BY <2>1, <2>2, <3>1 DEF Tiles, MinOf
    <3>3. Progress(c, off)'
      BY <1>1, <2>4, <3>1, <3>2 DEF Progress, Columns
    <3> QED
      BY <1>1, <2>1, <3>3
  <2>5. CASE c > col
    <3>1. out[c] = <<>> /\ off[1] = 0
      BY <2>1, <2>5 DEF Progress, Tiles
    <3>2. MinOf(off[1], rows) = 0
      BY <2>2, <3>1 DEF MinOf
    <3>3. Front(out[c], fed[c], MinOf(off[1], rows))
      BY <2>2, <3>1, <3>2 DEF Front
    <3>4. 1 \in 1..(Len(storage[c]) + 1) /\ ~(c < col + 1)
      BY <1>1, <2>2, <2>5 DEF Columns
    <3>5. Progress(c, off)'
      BY <1>1, <3>1, <3>3, <3>4 DEF Progress
    <3> QED
      BY <1>1, <2>1, <3>5
  <2> QED
    BY <1>1, <2>3, <2>4, <2>5 DEF Columns
<1> QED
  BY <1>2, <1>3, <1>4 DEF Sound, Filled

\* The steps that change neither the storages nor what has been copied.
LEMMA SoundReturn ==
  ASSUME Sound, Return \/ UNCHANGED vars
  PROVE  Sound'
<1>1. /\ UNCHANGED <<limit, rows, storage, fed, col, next, out>>
      /\ pc' = pc \/ (pc' = "done" /\ pc = "copying" /\ col > NCols)
  BY DEF Return, vars
<1>2. TypeOK'
  BY <1>1 DEF Sound, TypeOK
<1>3. Shape'
  BY <1>1 DEF Sound, Shape
<1>4. Filled'
  BY <1>1 DEF Sound, Filled, Progress
<1> QED
  BY <1>2, <1>3, <1>4 DEF Sound

LEMMA SoundStep == Sound /\ [Next]_vars => Sound'
  BY SoundCreate, SoundPeek, SoundGather, SoundCopyStorage, SoundNextColumn, SoundReturn
     DEF Next

LEMMA AlwaysSound == Spec => []Sound
  BY SoundInit, SoundStep, PTL DEF Spec

\* Every variable keeps its type; what is copied is never what a new vector
\* happens to contain.
THEOREM TypeCorrect == Spec => []TypeOK
<1>1. Sound => TypeOK
  BY DEF Sound
<1> QED
  BY <1>1, AlwaysSound, PTL

\* For any rows, NULLs, capacities and n_max, each vector holds the values that
\* its column was given, each at its row.
THEOREM ColumnsAreRead == Spec => []ColumnsAreFaithful
<1>1. Sound => ColumnsAreFaithful
  <2> SUFFICES ASSUME Sound, pc = "done", NEW c \in Columns
               PROVE out[c] = SubSeq(fed[c], 1, rows)
    BY DEF ColumnsAreFaithful
  <2>1. c < col
    BY DataFrameAssumption DEF Sound, Shape, TypeOK, Columns
  <2>2. Front(out[c], fed[c], rows)
    BY <2>1 DEF Sound, Filled, Progress
  <2> QED
    BY <2>2, ColumnType, FrontIsSubSeq DEF Sound
<1> QED
  BY <1>1, AlwaysSound, PTL

(***************************************************************************)
(* The elements allocated.  Room is a recursive function, but with a limit *)
(* a column has two storages at most, and no induction is needed.          *)
(***************************************************************************)

\* The storages ss of a column that n values have been fed to, of at most l: a
\* first one of one element, or none, and a second one of what was left then.
Fits(l, ss, n) ==
  \/ /\ Len(ss) = 1
     /\ Capacity(ss[1]) = IF ss[1].known THEN 1 ELSE 0
     /\ ss[1].used = n
  \/ /\ Len(ss) = 2 /\ ss[2].known
     /\ Capacity(ss[1]) <= ss[1].used /\ Capacity(ss[2]) = l - ss[1].used
     /\ ss[1].used + ss[2].used = n

Limited ==
  /\ pc = "new" => \A c \in Columns : storage[c] = <<>>
  /\ limit > 0 /\ pc # "new" =>
       /\ pc = "gathering" => rows < limit
       /\ \A c \in Columns : Fits(limit, storage[c], Len(fed[c]))

LEMMA RoomOfNone == Room(<<>>) = 0
<1> DEFINE Is(f) == f = [k \in 0..0 |-> IF k = 0 THEN 0 ELSE f[k - 1] + Capacity(<<>>[k])]
           room == CHOOSE f : Is(f)
<1>1. Is([k \in 0..0 |-> 0])
  OBVIOUS
<1>2. Is(room)
  BY <1>1
<1>3. Room(<<>>) = room[0]
  BY DEF Room
<1> HIDE DEF room
<1> QED
  BY <1>2, <1>3

LEMMA RoomOfOne ==
  ASSUME NEW ss \in Seq(Storages), Len(ss) = 1
  PROVE  Room(ss) = Capacity(ss[1])
<1> DEFINE Is(f) == f = [k \in 0..Len(ss) |-> IF k = 0 THEN 0 ELSE f[k - 1] + Capacity(ss[k])]
           room == CHOOSE f : Is(f)
<1>1. Capacity(ss[1]) \in Nat
  BY DEF Capacity, Storages
<1>2. Is([k \in 0..1 |-> IF k = 0 THEN 0 ELSE Capacity(ss[1])])
  BY <1>1
<1>3. Is(room)
  BY <1>2
<1>4. Room(ss) = room[Len(ss)]
  BY DEF Room
<1> HIDE DEF room
<1>5. room[0] = 0 /\ room[1] = room[0] + Capacity(ss[1])
  BY <1>3
<1> QED
  BY <1>1, <1>4, <1>5

LEMMA RoomOfTwo ==
  ASSUME NEW ss \in Seq(Storages), Len(ss) = 2
  PROVE  Room(ss) = Capacity(ss[1]) + Capacity(ss[2])
<1> DEFINE Is(f) == f = [k \in 0..Len(ss) |-> IF k = 0 THEN 0 ELSE f[k - 1] + Capacity(ss[k])]
           room == CHOOSE f : Is(f)
<1>1. Capacity(ss[1]) \in Nat /\ Capacity(ss[2]) \in Nat
  BY DEF Capacity, Storages
<1>2. Is([k \in 0..2 |-> IF k = 0 THEN 0
                         ELSE IF k = 1 THEN Capacity(ss[1]) ELSE Capacity(ss[1]) + Capacity(ss[2])])
  BY <1>1
<1>3. Is(room)
  BY <1>2
<1>4. Room(ss) = room[Len(ss)]
  BY DEF Room
<1> HIDE DEF room
<1>5. /\ room[0] = 0 /\ room[1] = room[0] + Capacity(ss[1])
      /\ room[2] = room[1] + Capacity(ss[2])
  BY <1>3
<1> QED
  BY <1>1, <1>4, <1>5

LEMMA AllocateRoom ==
  ASSUME NEW l \in Nat \ {0}, NEW known \in BOOLEAN, NEW desired \in Int
  PROVE  /\ Allocate(l, known, desired) \in Storages
         /\ Allocate(l, known, desired).used = 0
         /\ Allocate(l, known, desired).known = known
         /\ Capacity(Allocate(l, known, desired)) = IF known THEN MaxOf(desired, 1) ELSE 0
<1>1. NewCapacity(l, desired) = MaxOf(desired, 1)
  BY DEF NewCapacity
<1>2. MaxOf(desired, 1) \in Nat
  BY DEF MaxOf
<1> DEFINE n == MaxOf(desired, 1)
           a == Allocate(l, known, desired)
<1>3. known => a.data = [k \in 1..n |-> Junk]
  BY <1>1 DEF Allocate
<1>4. n \in Nat
  BY <1>2
<1> HIDE DEF n
<1>5. Len([k \in 1..n |-> Junk]) = n
  BY <1>4
<1>6. ~known => a.data = <<>>
  BY DEF Allocate
<1>7. a.known = known
  BY Zenon DEF Allocate
<1>8. Capacity(a) = IF known THEN n ELSE 0
  BY <1>3, <1>5, <1>6 DEF Capacity
<1>9. a \in Storages /\ a.used = 0
  BY AllocateType
<1> QED
  BY <1>7, <1>8, <1>9 DEF n

LEMMA StoreRoom ==
  ASSUME NEW s \in Storages, NEW v \in Values
  PROVE  /\ Store(s, v).used = s.used + 1 /\ Capacity(Store(s, v)) = Capacity(s)
         /\ Store(s, v).known = s.known
BY StoreType DEF Store, Storages, Capacity

LEMMA SecondStorage ==
  ASSUME NEW ss \in Seq(Storages), Len(ss) = 1, NEW e \in Storages
  PROVE  Append(ss, e)[1] = ss[1] /\ Append(ss, e)[2] = e /\ Len(Append(ss, e)) = 2
OBVIOUS

LEMMA NewFits ==
  ASSUME NEW l \in Nat \ {0}, NEW c \in Columns
  PROVE  Fits(l, NewColumns(l)[c], 0)
<1>1. PICK known \in BOOLEAN : NewColumns(l)[c] = <<Allocate(l, known, 0)>>
  BY DEF NewColumns
<1>2. MaxOf(0, 1) = 1
  BY DEF MaxOf
<1> QED
  BY <1>1, <1>2, AllocateRoom DEF Fits

\* append_data() opens a second storage once, of what is left of the limit.
LEMMA SetColValueFits ==
  ASSUME NEW l \in Nat \ {0}, NEW ss \in Seq(Storages), NEW n \in Nat, n < l,
         Fits(l, ss, n), NEW v \in Values
  PROVE  Fits(l, SetColValue(l, ss, v), n + 1)
<1> DEFINE s == ss[Len(ss)]
           new == SetColValue(l, ss, v)
<1>1. Len(ss) \in {1, 2} /\ s \in Storages /\ ss[1] \in Storages
  <2>1. Len(ss) \in {1, 2}
    BY DEF Fits
  <2> QED
    BY <2>1, ElementOfSeq
<1>2. /\ Store(s, v).used = s.used + 1 /\ Capacity(Store(s, v)) = Capacity(s)
      /\ Store(s, v).known = s.known
  BY <1>1, StoreRoom
<1>3. s.used \in Nat /\ Capacity(s) \in Nat /\ ss[1].used \in Nat /\ s.known \in BOOLEAN
  BY <1>1 DEF Storages, Capacity
<1>4. CASE Spills(s, v)
  <2>1. Len(ss) = 1
    <3>1. Len(ss) = 2 => s.used < Capacity(s) /\ s.known
      BY <1>3 DEF Fits
    <3> QED
      BY <1>1, <1>3, <1>4, <3>1 DEF Spills
  <2> DEFINE a == Allocate(l, TRUE, Desired(l, s))
  <2>2. Desired(l, s) = l - n /\ MaxOf(l - n, 1) = l - n /\ s.used = n
    BY <2>1, <1>3 DEF Desired, Fits, MaxOf
  <2>3. a \in Storages /\ a.used = 0 /\ a.known = TRUE /\ Capacity(a) = l - n
    <3>1. l - n \in Int /\ a = Allocate(l, TRUE, l - n)
      BY <2>2
    <3>2. Capacity(Allocate(l, TRUE, l - n)) = MaxOf(l - n, 1)
      BY <3>1, AllocateRoom
    <3>3. /\ Allocate(l, TRUE, l - n) \in Storages /\ Allocate(l, TRUE, l - n).used = 0
          /\ Allocate(l, TRUE, l - n).known = TRUE
      BY <3>1, AllocateRoom
    <3> QED
      BY <2>2, <3>1, <3>2, <3>3
  <2>4. new = Append(ss, Store(a, v))
    BY <1>4 DEF SetColValue
  <2> HIDE DEF a, new
  <2>5. /\ Store(a, v).used = 1 /\ Capacity(Store(a, v)) = l - n
        /\ Store(a, v).known = TRUE
    BY <2>3, StoreRoom
  <2>6. Len(new) = 2 /\ new[1] = ss[1] /\ new[2] = Store(a, v)
    <3>1. Store(a, v) \in Storages
      BY <2>3, StoreType
    <3> QED
      BY <2>1, <2>4, <3>1, SecondStorage
  <2>7. Capacity(ss[1]) <= ss[1].used
    BY <1>3, <1>4, <2>1 DEF Fits, Spills
  <2>8. Fits(l, new, n + 1)
    BY <2>1, <2>2, <2>5, <2>6, <2>7 DEF Fits
  <2> QED
    BY <2>8 DEF new
<1>5. CASE ~Spills(s, v)
  <2>1. new = [ss EXCEPT ![Len(ss)] = Store(s, v)]
    BY <1>5 DEF SetColValue
  <2>2. /\ Len(new) = Len(ss) /\ new[Len(ss)] = Store(s, v)
        /\ Len(ss) = 2 => new[1] = ss[1]
    BY <1>1, <2>1
  <2> HIDE DEF new
  <2>3. CASE Len(ss) = 1
    <3>1. new[1].used = n + 1 /\ Capacity(new[1]) = Capacity(s) /\ new[1].known = s.known
      BY <1>2, <2>2, <2>3 DEF Fits
    <3> QED
      BY <2>2, <2>3, <3>1 DEF Fits, new
  <2>4. CASE Len(ss) = 2
    <3>1. /\ new[2].used = s.used + 1 /\ Capacity(new[2]) = Capacity(s)
          /\ new[2].known = s.known /\ new[1] = ss[1]
      BY <1>2, <2>2, <2>4
    <3>2. Fits(l, new, n + 1)
      BY <1>3, <2>2, <2>4, <3>1 DEF Fits
    <3> QED
      BY <3>2 DEF new
  <2> QED
    BY <1>1, <2>3, <2>4
<1> QED
  BY <1>4, <1>5

LEMMA LimitedInit == Init => Limited
BY DEF Init, Limited

LEMMA LimitedStep ==
  ASSUME Sound, Limited, [Next]_vars
  PROVE  Limited'
<1>1. ASSUME NEW l \in Limits, NEW complete \in BOOLEAN, Create(l, complete)
      PROVE  Limited'
  <2> SUFFICES ASSUME l > 0
               PROVE  /\ pc' = "gathering" => rows' < l
                      /\ \A c \in Columns : Fits(l, storage'[c], Len(fed'[c]))
    BY <1>1 DEF Create, Limited
  <2>1. l \in Nat \ {0}
    BY DataFrameAssumption
  <2>2. rows' = 0 /\ storage' = NewColumns(l) /\ \A c \in Columns : fed'[c] = <<>>
    BY <1>1, NothingYet DEF Create
  <2> QED
    BY <2>1, <2>2, NewFits
<1>2. ASSUME NEW row \in NextRow, NEW complete \in BOOLEAN, Peek(row, complete)
      PROVE  Limited'
  <2>1. limit' = 1 /\ pc' = "copying"
    BY <1>2 DEF Peek
  <2>2. ASSUME NEW c \in Columns
        PROVE  Fits(1, storage'[c], Len(fed'[c]))
    <3>1. /\ Fits(1, NewColumns(1)[c], 0) /\ NewColumns(1)[c] \in Seq(Storages)
          /\ fed[c] = <<>> /\ rows = 0
      BY <1>2, NewFits, NewColumnsTiles, NothingYet DEF Peek
    <3>2. CASE complete
      BY <1>2, <3>1, <3>2 DEF Peek
    <3>3. CASE ~complete
      <4>1. row[c] \in Values
        BY <3>1 DEF NextRow, Values
      <4>2. Fits(1, SetColValue(1, NewColumns(1)[c], row[c]), 0 + 1)
        BY <3>1, <4>1, SetColValueFits
      <4>3. storage'[c] = SetColValue(1, NewColumns(1)[c], row[c]) /\ fed'[c] = <<row[c]>>
        BY <1>2, <3>3 DEF Peek
      <4>4. Len(fed'[c]) = 1
        BY <4>3
      <4> QED
        BY <4>2, <4>3, <4>4
    <3> QED
      BY <3>2, <3>3
  <2> QED
    BY <2>1, <2>2 DEF Limited
<1>3. ASSUME NEW row \in NextRow,
             (\E last \in BOOLEAN : Gather(row, last)) \/ Interrupted(row)
      PROVE  Limited'
  <2>1. /\ pc = "gathering" /\ SetColValues(storage, row) /\ limit' = limit /\ rows' = rows + 1
        /\ limit > 0 /\ pc' = "gathering" => rows' < limit
        /\ pc' # "new" /\ limit \in Int /\ rows \in Nat
    BY <1>3, LimitsAreInts DEF Gather, Interrupted, Sound, TypeOK
  <2>2. ASSUME limit > 0, NEW c \in Columns
        PROVE  Fits(limit, storage'[c], Len(fed'[c]))
    <3>1. /\ rows < limit /\ Len(fed[c]) = rows /\ Fits(limit, storage[c], rows)
          /\ storage[c] \in Seq(Storages) /\ fed[c] \in Seq(Values) /\ row[c] \in Values
      BY <2>1, <2>2, ColumnType DEF Limited, Sound, Shape, NextRow, Values
    <3>a. limit \in Nat \ {0} /\ rows \in Nat
      BY <2>1, <2>2
    <3>2. Fits(limit, SetColValue(limit, storage[c], row[c]), rows + 1)
      BY <3>1, <3>a, SetColValueFits
    <3>3. storage'[c] = SetColValue(limit, storage[c], row[c]) /\ fed'[c] = Append(fed[c], row[c])
      BY <2>1 DEF SetColValues
    <3>4. Len(fed'[c]) = rows + 1
      BY <3>1, <3>3
    <3> QED
      BY <3>2, <3>3, <3>4
  <2> QED
    BY <2>1, <2>2 DEF Limited
<1>4. CASE CopyStorage \/ NextColumn \/ Return \/ UNCHANGED vars
  <2>1. UNCHANGED <<limit, rows, storage, fed>> /\ (pc' = pc \/ (pc # "new" /\ pc' = "done"))
    BY <1>4 DEF CopyStorage, NextColumn, Return, vars
  <2> QED
    BY <2>1 DEF Limited
<1> QED
  BY <1>1, <1>2, <1>3, <1>4 DEF Next

\* dbFetch(n) never allocates more than n elements for a column, whatever the
\* NULLs, the columns of deferred type and the order in which values come.
THEOREM MemoryIsBounded == Spec => []LimitBoundsMemory
<1>1. Sound /\ Limited => LimitBoundsMemory
  <2> SUFFICES ASSUME Sound, Limited, limit > 0, NEW c \in Columns
               PROVE  Room(storage[c]) <= limit
    BY DEF LimitBoundsMemory
  <2>1. storage[c] \in Seq(Storages) /\ limit \in Int
    BY ColumnType, LimitsAreInts DEF Sound
  <2>2. CASE pc = "new"
    BY <2>1, <2>2, RoomOfNone DEF Limited
  <2>3. CASE pc # "new"
    <3>1. Fits(limit, storage[c], Len(fed[c]))
      BY <2>3 DEF Limited
    <3>2. CASE Len(storage[c]) = 1
      <4>1. Capacity(storage[c][1]) \in {0, 1}
        BY <3>1, <3>2 DEF Fits
      <4> QED
        BY <2>1, <3>2, <4>1, RoomOfOne
    <3>3. CASE Len(storage[c]) = 2
      <4>1. /\ storage[c][1] \in Storages /\ storage[c][2] \in Storages
        BY <2>1, <3>3, ElementOfSeq
      <4>2. /\ Capacity(storage[c][1]) <= storage[c][1].used
            /\ Capacity(storage[c][2]) = limit - storage[c][1].used
            /\ storage[c][1].used \in Nat /\ Capacity(storage[c][1]) \in Nat
        BY <3>1, <3>3, <4>1 DEF Fits, Storages, Capacity
      <4> QED
        BY <2>1, <3>3, <4>2, RoomOfTwo
    <3> QED
      BY <3>1, <3>2, <3>3 DEF Fits
  <2> QED
    BY <2>2, <2>3
<1> QED
  BY <1>1, AlwaysSound, LimitedInit, LimitedStep, PTL DEF Spec

=============================================================================
