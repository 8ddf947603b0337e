------------------------ MODULE FrontierSearchProofs ------------------------
(***************************************************************************)
(* What holds of frontier_search.cpp for every costmap, every cell of the  *)
(* robot and every minimal size.                                           *)
(***************************************************************************)
EXTENDS FrontierSearch, FiniteSetTheorems, FunctionTheorems, SequenceTheorems, TLAPS

-----------------------------------------------------------------------------
(* Cells, columns and rows                                                 *)

\* A map with an area.
Sized(c) == c.w \in Nat \ {0} /\ c.h \in Nat \ {0}

LEMMA RowsAreBounded ==
  ASSUME NEW w \in Nat \ {0}, NEW h \in Nat, NEW q \in Int, NEW r \in 0 .. w - 1,
         q * w + r \in 0 .. w * h - 1
  PROVE  q \in 0 .. h - 1
<1>1. CASE q < 0
  <2>1. q * w <= -w
    BY <1>1
  <2>. QED
    BY <2>1
<1>2. CASE q >= h
  <2>1. q * w >= h * w
    BY <1>2
  <2>. QED
    BY <2>1
<1>. QED
  BY <1>1, <1>2

LEMMA Division ==
  ASSUME NEW x \in Int, NEW w \in Nat \ {0}
  PROVE  x % w \in 0 .. w - 1 /\ x \div w \in Int /\ x = (x \div w) * w + (x % w)
<1>. DEFINE p == x \div w
            s == x % w
<1>1. x \in Int /\ p \in Int /\ s \in 0 .. w - 1 /\ x = p * w + s
  OBVIOUS
<1>. QED
  BY <1>1

LEMMA PlaceOfCell ==
  ASSUME NEW c, Sized(c), NEW i \in Cells(c)
  PROVE  /\ Column(c, i) \in 0 .. c.w - 1 /\ Row(c, i) \in 0 .. c.h - 1
         /\ i = Row(c, i) * c.w + Column(c, i)
<1>1. i \in Int /\ c.w \in Nat \ {0}
  BY DEF Cells, Sized
<1>2. Column(c, i) \in 0 .. c.w - 1 /\ Row(c, i) \in Int /\ i = Row(c, i) * c.w + Column(c, i)
  BY <1>1, Division DEF Column, Row
<1>3. Row(c, i) \in 0 .. c.h - 1
  <2>1. Row(c, i) * c.w + Column(c, i) \in 0 .. c.w * c.h - 1
    BY <1>2 DEF Cells
  <2>. HIDE DEF Cells
  <2>. QED
    BY <1>1, <1>2, <2>1, RowsAreBounded DEF Sized
<1>. QED
  BY <1>2, <1>3

LEMMA DivisionIsUnique ==
  ASSUME NEW w \in Nat \ {0}, NEW q \in Int, NEW r \in 0 .. w - 1
  PROVE  (q * w + r) % w = r /\ (q * w + r) \div w = q
<1>. DEFINE x == q * w + r
            p == x \div w
            s == x % w
<1>1. x \in Int /\ p \in Int /\ s \in 0 .. w - 1 /\ x = p * w + s
  OBVIOUS
<1>2. CASE p < q
  <2>1. (q - p) * w >= w
    BY <1>1, <1>2
  <2>. QED
    BY <1>1, <2>1
<1>3. CASE q < p
  <2>1. (p - q) * w >= w
    BY <1>1, <1>3
  <2>. QED
    BY <1>1, <2>1
<1>. QED
  BY <1>1, <1>2, <1>3

LEMMA CellAt ==
  ASSUME NEW c, Sized(c), NEW col \in 0 .. c.w - 1, NEW row \in 0 .. c.h - 1
  PROVE  /\ row * c.w + col \in Cells(c)
         /\ Column(c, row * c.w + col) = col /\ Row(c, row * c.w + col) = row
<1>1. c.w \in Nat \ {0} /\ c.h \in Nat
  BY DEF Sized
<1>2. Column(c, row * c.w + col) = col /\ Row(c, row * c.w + col) = row
  <2>1. row \in Int
    OBVIOUS
  <2>. QED
    BY <1>1, <2>1, DivisionIsUnique DEF Column, Row
<1>3. row * c.w <= (c.h - 1) * c.w
  BY <1>1
<1>4. row * c.w >= 0
  BY <1>1
<1>. QED
  BY <1>1, <1>2, <1>3, <1>4 DEF Cells

\* The cell in a column and a row.
CellOf(c, col, row) == row * c.w + col

LEMMA CellOfIs ==
  ASSUME NEW c, Sized(c), NEW col \in 0 .. c.w - 1, NEW row \in 0 .. c.h - 1
  PROVE  /\ CellOf(c, col, row) \in Cells(c)
         /\ Column(c, CellOf(c, col, row)) = col /\ Row(c, CellOf(c, col, row)) = row
BY CellAt DEF CellOf

LEMMA SamePlace ==
  ASSUME NEW c, Sized(c), NEW i \in Cells(c), NEW j \in Cells(c),
         Column(c, i) = Column(c, j), Row(c, i) = Row(c, j)
  PROVE  i = j
<1>. HIDE DEF Cells
<1>1. i = Row(c, i) * c.w + Column(c, i) /\ j = Row(c, j) * c.w + Column(c, j)
  BY PlaceOfCell
<1>. QED
  BY <1>1

\* The first and the last row, as the code tells them.
LEMMA FirstAndLastRow ==
  ASSUME NEW c, Sized(c), NEW i \in Cells(c)
  PROVE  /\ i >= c.w <=> Row(c, i) > 0
         /\ i < c.w * (c.h - 1) <=> Row(c, i) < c.h - 1
<1>. DEFINE col == Column(c, i)
            row == Row(c, i)
            w == c.w
            h == c.h
<1>1. w \in Nat \ {0} /\ h \in Nat \ {0}
  BY DEF Sized
<1>2. col \in 0 .. w - 1 /\ row \in 0 .. h - 1 /\ i = row * w + col
  <2>. HIDE DEF Cells
  <2>. QED
    BY PlaceOfCell
<1>. HIDE DEF col, row, w, h
<1>3. i >= w <=> row > 0
  <2>1. CASE row = 0
    BY <1>1, <1>2, <2>1
  <2>2. CASE row > 0
    <3>1. row * w >= w
      BY <1>1, <1>2, <2>2
    <3>. QED
      BY <1>1, <1>2, <2>2, <3>1
  <2>. QED
    BY <1>2, <2>1, <2>2
<1>4. i < w * (h - 1) <=> row < h - 1
  <2>1. CASE row = h - 1
    <3>1. row * w = w * (h - 1)
      BY <2>1, <1>1
    <3>. QED
      BY <1>1, <1>2, <2>1, <3>1
  <2>2. CASE row < h - 1
    <3>1. row + 1 <= h - 1
      BY <1>1, <1>2, <2>2
    <3>2. (row + 1) * w <= (h - 1) * w
      BY <1>1, <1>2, <3>1
    <3>3. (row + 1) * w = row * w + w
      BY <1>1, <1>2
    <3>. QED
      BY <1>1, <1>2, <2>2, <3>2, <3>3
  <2>. QED
    BY <1>1, <1>2, <2>1, <2>2
<1>. QED
  BY <1>3, <1>4 DEF col, row, w, h

\* A cell so many columns and rows further.
LEMMA CellBeside ==
  ASSUME NEW c, Sized(c), NEW i \in Cells(c), NEW dx \in -1 .. 1, NEW dy \in -1 .. 1,
         Column(c, i) + dx \in 0 .. c.w - 1, Row(c, i) + dy \in 0 .. c.h - 1
  PROVE  /\ i + dy * c.w + dx \in Cells(c)
         /\ Column(c, i + dy * c.w + dx) = Column(c, i) + dx
         /\ Row(c, i + dy * c.w + dx) = Row(c, i) + dy
<1>. DEFINE col == Column(c, i)
            row == Row(c, i)
            w == c.w
<1>1. w \in Nat \ {0}
  BY DEF Sized
<1>2. col \in 0 .. w - 1 /\ row \in Int /\ i = row * w + col
  <2>. HIDE DEF Cells
  <2>. QED
    BY PlaceOfCell DEF Sized
<1>3. i + dy * w + dx = (row + dy) * w + (col + dx)
  <2>. HIDE DEF col, row, w
  <2>1. (row + dy) * w = row * w + dy * w
    BY <1>1, <1>2
  <2>. QED
    BY <1>1, <1>2, <2>1
<1>. QED
  <2>1. CellOf(c, col + dx, row + dy) = i + dy * c.w + dx
    BY <1>3 DEF CellOf
  <2>. HIDE DEF Cells
  <2>. QED
    BY <2>1, CellOfIs

-----------------------------------------------------------------------------
(* Queues                                                                  *)

LEMMA Joined ==
  ASSUME NEW S, NEW s \in Seq(S), NEW t \in Seq(S)
  PROVE  /\ s \o t \in Seq(S)
         /\ Len(s) \in Nat /\ Len(t) \in Nat /\ Len(s \o t) = Len(s) + Len(t)
         /\ ToSet(s \o t) = ToSet(s) \cup ToSet(t)
<1>1. s \o t \in Seq(S) /\ Len(s \o t) = Len(s) + Len(t)
  BY ConcatProperties
<1>2. \A n \in DOMAIN (s \o t) : (s \o t)[n] \in ToSet(s) \cup ToSet(t)
  <2>. SUFFICES ASSUME NEW n \in 1 .. Len(s) + Len(t)
                PROVE  (s \o t)[n] \in ToSet(s) \cup ToSet(t)
    BY <1>1
  <2>1. CASE n <= Len(s)
    BY <2>1 DEF ToSet
  <2>2. CASE n > Len(s)
    <3>1. n - Len(s) \in DOMAIN t /\ (s \o t)[n] = t[n - Len(s)]
      BY <2>2
    <3>. QED
      BY <3>1 DEF ToSet
  <2>. QED
    BY <2>1, <2>2
<1>3. \A n \in DOMAIN s : s[n] \in ToSet(s \o t)
  <2>. SUFFICES ASSUME NEW n \in DOMAIN s
                PROVE  s[n] \in ToSet(s \o t)
    OBVIOUS
  <2>1. n \in DOMAIN (s \o t) /\ (s \o t)[n] = s[n]
    BY <1>1
  <2>. QED
    BY <2>1 DEF ToSet
<1>4. \A n \in DOMAIN t : t[n] \in ToSet(s \o t)
  <2>. SUFFICES ASSUME NEW n \in DOMAIN t
                PROVE  t[n] \in ToSet(s \o t)
    OBVIOUS
  <2>1. n + Len(s) \in DOMAIN (s \o t) /\ (s \o t)[n + Len(s)] = t[n]
    BY <1>1
  <2>. QED
    BY <2>1 DEF ToSet
<1>. QED
  BY <1>1, <1>2, <1>3, <1>4 DEF ToSet

LEMMA OneMore ==
  ASSUME NEW S, NEW n \in Nat, NEW s \in Seq(S), NEW t \in Seq(S), Len(s) <= n, Len(t) <= 1
  PROVE  s \o t \in Seq(S) /\ Len(s \o t) <= n + 1 /\ ToSet(s \o t) = ToSet(s) \cup ToSet(t)
<1>1. /\ s \o t \in Seq(S)
      /\ Len(s) \in Nat /\ Len(t) \in Nat /\ Len(s \o t) = Len(s) + Len(t)
      /\ ToSet(s \o t) = ToSet(s) \cup ToSet(t)
  BY Joined
<1>. QED
  BY <1>1

LEMMA ThreeMore ==
  ASSUME NEW S, NEW n \in Nat, NEW s \in Seq(S), Len(s) <= n,
         NEW t1 \in Seq(S), Len(t1) <= 1, NEW t2 \in Seq(S), Len(t2) <= 1,
         NEW t3 \in Seq(S), Len(t3) <= 1
  PROVE  /\ ((s \o t1) \o t2) \o t3 \in Seq(S) /\ Len(((s \o t1) \o t2) \o t3) <= n + 3
         /\ ToSet(((s \o t1) \o t2) \o t3) = ToSet(s) \cup ToSet(t1) \cup ToSet(t2) \cup ToSet(t3)
<1>. DEFINE a == s \o t1
            b == a \o t2
            d == b \o t3
<1>1. a \in Seq(S) /\ Len(a) <= n + 1 /\ ToSet(a) = ToSet(s) \cup ToSet(t1)
  BY OneMore
<1>. HIDE DEF a
<1>2. b \in Seq(S) /\ Len(b) <= (n + 1) + 1 /\ ToSet(b) = ToSet(a) \cup ToSet(t2)
  BY <1>1, OneMore, n + 1 \in Nat
<1>. HIDE DEF b
<1>3. d \in Seq(S) /\ Len(d) <= (n + 2) + 1 /\ ToSet(d) = ToSet(b) \cup ToSet(t3)
  <2>1. n + 2 \in Nat /\ Len(b) <= n + 2
    BY <1>2
  <2>. QED
    BY <1>2, <2>1, OneMore
<1>. HIDE DEF d
<1>4. d \in Seq(S) /\ Len(d) <= n + 3
  BY <1>3
<1>5. ToSet(d) = ToSet(s) \cup ToSet(t1) \cup ToSet(t2) \cup ToSet(t3)
  BY <1>1, <1>2, <1>3
<1>. QED
  BY <1>4, <1>5 DEF a, b, d

LEMMA NothingQueued == ToSet(<<>>) = {}
BY DEF ToSet

LEMMA OneQueued ==
  ASSUME NEW S, NEW i \in S
  PROVE  <<i>> \in Seq(S) /\ Len(<<i>>) = 1 /\ ToSet(<<i>>) = {i}
<1>1. DOMAIN <<i>> = {1} /\ <<i>>[1] = i
  OBVIOUS
<1>2. ToSet(<<i>>) = {<<i>>[n] : n \in {1}}
  BY <1>1 DEF ToSet
<1>3. ToSet(<<i>>) = {i}
  BY <1>1, <1>2
<1>4. <<i>> \in Seq(S) /\ Len(<<i>>) = 1
  OBVIOUS
<1>. QED
  BY <1>3, <1>4

LEMMA OneOrNone ==
  ASSUME NEW S, NEW i, NEW s, (s = <<i>> /\ i \in S) \/ s = <<>>
  PROVE  /\ s \in Seq(S) /\ Len(s) <= 1
         /\ s = <<i>> => ToSet(s) = {i}
         /\ s = <<>> => ToSet(s) = {}
<1>1. CASE s = <<i>> /\ i \in S
  <2>1. s # <<>>
    <3>1. Len(<<i>>) = 1 /\ Len(<<>>) = 0
      OBVIOUS
    <3>. QED
      BY <1>1, <3>1
  <2>. QED
    BY <1>1, <2>1, OneQueued
<1>2. CASE s = <<>>
  <2>1. s # <<i>>
    <3>1. Len(<<i>>) = 1 /\ Len(<<>>) = 0
      OBVIOUS
    <3>. QED
      BY <1>2, <3>1
  <2>2. s \in Seq(S) /\ Len(s) = 0
    BY <1>2
  <2>. QED
    BY <1>2, <2>1, <2>2, NothingQueued
<1>. QED
  BY <1>1, <1>2

LEMMA Appended ==
  ASSUME NEW S, NEW s \in Seq(S), NEW x \in S
  PROVE  /\ Append(s, x) \in Seq(S) /\ Append(s, x) # <<>> /\ Len(Append(s, x)) = Len(s) + 1
         /\ ToSet(Append(s, x)) = ToSet(s) \cup {x}
<1>1. Append(s, x) \in Seq(S) /\ Len(Append(s, x)) = Len(s) + 1
  BY AppendProperties
<1>2. \A n \in 1 .. Len(s) : Append(s, x)[n] = s[n]
  BY AppendProperties
<1>3. Append(s, x)[Len(s) + 1] = x
  BY AppendProperties
<1>4. Append(s, x) # <<>>
  BY <1>1
<1>5. ToSet(Append(s, x)) \subseteq ToSet(s) \cup {x}
  <2>. SUFFICES ASSUME NEW n \in 1 .. Len(s) + 1
                PROVE  Append(s, x)[n] \in ToSet(s) \cup {x}
    BY <1>1 DEF ToSet
  <2>1. CASE n = Len(s) + 1
    BY <1>3, <2>1
  <2>2. CASE n # Len(s) + 1
    BY <1>2, <2>2 DEF ToSet
  <2>. QED
    BY <2>1, <2>2
<1>6. ToSet(s) \subseteq ToSet(Append(s, x))
  <2>. SUFFICES ASSUME NEW n \in 1 .. Len(s)
                PROVE  s[n] \in ToSet(Append(s, x))
    BY DEF ToSet
  <2>1. n \in DOMAIN Append(s, x)
    BY <1>1
  <2>. QED
    BY <1>2, <2>1 DEF ToSet
<1>7. x \in ToSet(Append(s, x))
  <2>1. Len(s) + 1 \in DOMAIN Append(s, x)
    BY <1>1
  <2>. QED
    BY <1>3, <2>1 DEF ToSet
<1>. QED
  BY <1>1, <1>4, <1>5, <1>6, <1>7

LEMMA Taken ==
  ASSUME NEW S, NEW s \in Seq(S), s # <<>>
  PROVE  /\ Head(s) \in S /\ Tail(s) \in Seq(S) /\ Len(s) = Len(Tail(s)) + 1
         /\ ToSet(s) = {Head(s)} \cup ToSet(Tail(s))
         /\ \A n \in 1 .. Len(Tail(s)) : Tail(s)[n] = s[n + 1]
<1>1. Head(s) \in S /\ Tail(s) \in Seq(S) /\ Len(s) = Len(Tail(s)) + 1
  BY HeadTailProperties
<1>2. Head(s) = s[1] /\ 1 \in DOMAIN s
  BY <1>1
<1>3. \A n \in 1 .. Len(Tail(s)) : Tail(s)[n] = s[n + 1]
  BY <1>1, HeadTailProperties
<1>4. ToSet(s) \subseteq {Head(s)} \cup ToSet(Tail(s))
  <2>. SUFFICES ASSUME NEW n \in 1 .. Len(s)
                PROVE  s[n] \in {Head(s)} \cup ToSet(Tail(s))
    BY DEF ToSet
  <2>1. CASE n = 1
    BY <1>2, <2>1
  <2>2. CASE n # 1
    <3>1. n - 1 \in 1 .. Len(Tail(s)) /\ n = (n - 1) + 1
      BY <1>1, <2>2
    <3>2. Tail(s)[n - 1] = s[n] /\ n - 1 \in DOMAIN Tail(s)
      BY <1>1, <1>3, <3>1
    <3>. QED
      BY <3>2 DEF ToSet
  <2>. QED
    BY <2>1, <2>2
<1>5. ToSet(Tail(s)) \subseteq ToSet(s)
  <2>. SUFFICES ASSUME NEW n \in 1 .. Len(Tail(s))
                PROVE  Tail(s)[n] \in ToSet(s)
    BY <1>1 DEF ToSet
  <2>1. n + 1 \in DOMAIN s
    BY <1>1
  <2>. QED
    BY <1>3, <2>1 DEF ToSet
<1>6. Head(s) \in ToSet(s)
  BY <1>2 DEF ToSet
<1>. QED
  BY <1>1, <1>3, <1>4, <1>5, <1>6

-----------------------------------------------------------------------------
(* The neighbours of a cell                                                *)

\* nhood4 lists cells of the map only.
LEMMA Around4 ==
  ASSUME NEW c, Sized(c), NEW i \in Cells(c)
  PROVE  /\ nhood4(c, i) \in Seq(Cells(c)) /\ Len(nhood4(c, i)) <= 4
         /\ \A j : j \in ToSet(nhood4(c, i)) <=>
              \/ Column(c, i) > 0 /\ j = i - 1
              \/ Column(c, i) < c.w - 1 /\ j = i + 1
              \/ Row(c, i) > 0 /\ j = i - c.w
              \/ Row(c, i) < c.h - 1 /\ j = i + c.w
<1>. DEFINE col == Column(c, i)
            row == Row(c, i)
            s1 == If(col > 0, i - 1)
            s2 == If(col < c.w - 1, i + 1)
            s3 == If(i >= c.w, i - c.w)
            s4 == If(i < c.w * (c.h - 1), i + c.w)
<1>1. c.w \in Nat \ {0} /\ c.h \in Nat \ {0} /\ i \in Int
  BY DEF Sized, Cells
<1>2. col \in 0 .. c.w - 1 /\ row \in 0 .. c.h - 1
  <2>. HIDE DEF Cells
  <2>. QED
    BY PlaceOfCell
<1>3. (i >= c.w <=> row > 0) /\ (i < c.w * (c.h - 1) <=> row < c.h - 1)
  <2>. HIDE DEF Cells
  <2>. QED
    BY FirstAndLastRow
<1>. HIDE DEF Cells
<1>4. col > 0 => i - 1 \in Cells(c)
  <2>. SUFFICES ASSUME col > 0  PROVE i - 1 \in Cells(c)
    OBVIOUS
  <2>1. i + 0 * c.w + -1 \in Cells(c)
    <3>1. col + -1 \in 0 .. c.w - 1 /\ row + 0 \in 0 .. c.h - 1
      BY <1>1, <1>2
    <3>. QED
      BY <3>1, CellBeside
  <2>2. i + 0 * c.w + -1 = i - 1
    BY <1>1
  <2>. QED
    BY <2>1, <2>2
<1>5. col < c.w - 1 => i + 1 \in Cells(c)
  <2>. SUFFICES ASSUME col < c.w - 1  PROVE i + 1 \in Cells(c)
    OBVIOUS
  <2>1. i + 0 * c.w + 1 \in Cells(c)
    <3>1. col + 1 \in 0 .. c.w - 1 /\ row + 0 \in 0 .. c.h - 1
      BY <1>1, <1>2
    <3>. QED
      BY <3>1, CellBeside
  <2>2. i + 0 * c.w + 1 = i + 1
    BY <1>1
  <2>. QED
    BY <2>1, <2>2
<1>6. i >= c.w => i - c.w \in Cells(c)
  <2>. SUFFICES ASSUME i >= c.w  PROVE i - c.w \in Cells(c)
    OBVIOUS
  <2>1. i + (-1) * c.w + 0 \in Cells(c)
    <3>1. col + 0 \in 0 .. c.w - 1 /\ row + -1 \in 0 .. c.h - 1
      <4>. HIDE DEF col, row
      <4>1. row > 0
        BY <1>3
      <4>. QED
        BY <1>1, <1>2, <4>1
    <3>. QED
      BY <3>1, CellBeside
  <2>2. i + (-1) * c.w + 0 = i - c.w
    <3>1. (-1) * c.w = -c.w
      BY <1>1
    <3>. QED
      BY <1>1, <3>1
  <2>. QED
    BY <2>1, <2>2
<1>7. i < c.w * (c.h - 1) => i + c.w \in Cells(c)
  <2>. SUFFICES ASSUME i < c.w * (c.h - 1)  PROVE i + c.w \in Cells(c)
    OBVIOUS
  <2>1. i + 1 * c.w + 0 \in Cells(c)
    <3>1. col + 0 \in 0 .. c.w - 1 /\ row + 1 \in 0 .. c.h - 1
      BY <1>1, <1>2, <1>3
    <3>. QED
      BY <3>1, CellBeside
  <2>2. i + 1 * c.w + 0 = i + c.w
    BY <1>1
  <2>. QED
    BY <2>1, <2>2
<1>8. nhood4(c, i) = ((s1 \o s2) \o s3) \o s4
  BY DEF nhood4, Column
<1>9. /\ s1 \in Seq(Cells(c)) /\ Len(s1) <= 1
      /\ (col > 0 /\ ToSet(s1) = {i - 1}) \/ (~(col > 0) /\ ToSet(s1) = {})
  <2>1. (col > 0 => s1 = <<i - 1>>) /\ (~(col > 0) => s1 = <<>>)
    BY DEF If
  <2>. HIDE DEF s1
  <2>. QED
    BY <1>3, <1>4, <2>1, OneOrNone
<1>10. /\ s2 \in Seq(Cells(c)) /\ Len(s2) <= 1
       /\ (col < c.w - 1 /\ ToSet(s2) = {i + 1}) \/ (~(col < c.w - 1) /\ ToSet(s2) = {})
  <2>1. (col < c.w - 1 => s2 = <<i + 1>>) /\ (~(col < c.w - 1) => s2 = <<>>)
    BY DEF If
  <2>. HIDE DEF s2
  <2>. QED
    BY <1>3, <1>5, <2>1, OneOrNone
<1>11. /\ s3 \in Seq(Cells(c)) /\ Len(s3) <= 1
       /\ (row > 0 /\ ToSet(s3) = {i - c.w}) \/ (~(row > 0) /\ ToSet(s3) = {})
  <2>1. (i >= c.w => s3 = <<i - c.w>>) /\ (~(i >= c.w) => s3 = <<>>)
    BY DEF If
  <2>. HIDE DEF s3, col, row
  <2>. QED
    BY <1>3, <1>6, <2>1, OneOrNone
<1>12. /\ s4 \in Seq(Cells(c)) /\ Len(s4) <= 1
       /\ (row < c.h - 1 /\ ToSet(s4) = {i + c.w}) \/ (~(row < c.h - 1) /\ ToSet(s4) = {})
  <2>1. (i < c.w * (c.h - 1) => s4 = <<i + c.w>>) /\ (~(i < c.w * (c.h - 1)) => s4 = <<>>)
    BY DEF If
  <2>. HIDE DEF s4
  <2>. QED
    BY <1>3, <1>7, <2>1, OneOrNone
<1>. HIDE DEF s1, s2, s3, s4
<1>. HIDE DEF col, row
<1>13. Len(s1) <= 1 /\ Len(s2) <= 1 /\ Len(s3) <= 1 /\ Len(s4) <= 1
  BY <1>9, <1>10, <1>11, <1>12
<1>14. /\ s1 \in Seq(Cells(c)) /\ s2 \in Seq(Cells(c))
       /\ s3 \in Seq(Cells(c)) /\ s4 \in Seq(Cells(c))
  BY <1>9, <1>10, <1>11, <1>12
<1>15. /\ nhood4(c, i) \in Seq(Cells(c)) /\ Len(nhood4(c, i)) <= 4
       /\ ToSet(nhood4(c, i)) = ToSet(s1) \cup ToSet(s2) \cup ToSet(s3) \cup ToSet(s4)
  <2>1. 1 \in Nat /\ 1 + 3 = 4
    OBVIOUS
  <2>. QED
    BY <1>8, <1>13, <1>14, <2>1, ThreeMore
<1>16. \A j : j \in ToSet(nhood4(c, i)) <=>
         \/ j \in ToSet(s1)
         \/ j \in ToSet(s2)
         \/ j \in ToSet(s3)
         \/ j \in ToSet(s4)
  BY <1>15
<1>17. \A j : j \in ToSet(s1) <=> (col > 0 /\ j = i - 1)
  BY <1>9
<1>18. \A j : j \in ToSet(s2) <=> (col < c.w - 1 /\ j = i + 1)
  BY <1>10
<1>19. \A j : j \in ToSet(s3) <=> (row > 0 /\ j = i - c.w)
  BY <1>11
<1>20. \A j : j \in ToSet(s4) <=> (row < c.h - 1 /\ j = i + c.w)
  BY <1>12
<1>21. \A j : j \in ToSet(nhood4(c, i)) <=>
         \/ col > 0 /\ j = i - 1
         \/ col < c.w - 1 /\ j = i + 1
         \/ row > 0 /\ j = i - c.w
         \/ row < c.h - 1 /\ j = i + c.w
  BY <1>16, <1>17, <1>18, <1>19, <1>20
<1>. QED
  BY <1>15, <1>21 DEF col, row

LEMMA Around8 ==
  ASSUME NEW c, Sized(c), NEW i \in Cells(c)
  PROVE  /\ nhood8(c, i) \in Seq(Cells(c)) /\ Len(nhood8(c, i)) <= 8
         /\ \A j : j \in ToSet(nhood8(c, i)) <=>
              \/ j \in ToSet(nhood4(c, i))
              \/ (Column(c, i) > 0 /\ Row(c, i) > 0) /\ j = i - 1 - c.w
              \/ (Column(c, i) > 0 /\ Row(c, i) < c.h - 1) /\ j = i - 1 + c.w
              \/ (Column(c, i) < c.w - 1 /\ Row(c, i) > 0) /\ j = i + 1 - c.w
              \/ (Column(c, i) < c.w - 1 /\ Row(c, i) < c.h - 1) /\ j = i + 1 + c.w
<1>. DEFINE col == Column(c, i)
            row == Row(c, i)
            left == col > 0
            right == col < c.w - 1
            above == i >= c.w
            below == i < c.w * (c.h - 1)
            s == nhood4(c, i)
            t1 == If(left /\ above, i - 1 - c.w)
            t2 == If(left /\ below, i - 1 + c.w)
            t3 == If(right /\ above, i + 1 - c.w)
            t4 == If(right /\ below, i + 1 + c.w)
<1>1. c.w \in Nat \ {0} /\ c.h \in Nat \ {0} /\ i \in Int
  BY DEF Sized, Cells
<1>. HIDE DEF Cells
<1>2. col \in 0 .. c.w - 1 /\ row \in 0 .. c.h - 1
  BY PlaceOfCell
<1>3. (above <=> row > 0) /\ (below <=> row < c.h - 1)
  BY FirstAndLastRow
<1>4. left /\ above => i - 1 - c.w \in Cells(c)
  <2>. SUFFICES ASSUME left /\ above  PROVE i - 1 - c.w \in Cells(c)
    OBVIOUS
  <2>1. i + (-1) * c.w + (-1) \in Cells(c)
    <3>1. col + (-1) \in 0 .. c.w - 1 /\ row + (-1) \in 0 .. c.h - 1
      <4>1. row > 0
        BY <1>3
      <4>. HIDE DEF col, row
      <4>. QED
        BY <1>1, <1>2, <4>1
    <3>. QED
      BY <3>1, CellBeside
  <2>2. i + (-1) * c.w + (-1) = i - 1 - c.w
    <3>1. (-1) * c.w = -c.w
      BY <1>1
    <3>. QED
      BY <1>1, <3>1
  <2>. QED
    BY <2>1, <2>2
<1>5. left /\ below => i - 1 + c.w \in Cells(c)
  <2>. SUFFICES ASSUME left /\ below  PROVE i - 1 + c.w \in Cells(c)
    OBVIOUS
  <2>1. i + (1) * c.w + (-1) \in Cells(c)
    <3>1. col + (-1) \in 0 .. c.w - 1 /\ row + (1) \in 0 .. c.h - 1
      <4>1. row < c.h - 1
        BY <1>3
      <4>. HIDE DEF col, row
      <4>. QED
        BY <1>1, <1>2, <4>1
    <3>. QED
      BY <3>1, CellBeside
  <2>2. i + (1) * c.w + (-1) = i - 1 + c.w
    <3>1. (1) * c.w = c.w
      BY <1>1
    <3>. QED
      BY <1>1, <3>1
  <2>. QED
    BY <2>1, <2>2
<1>6. right /\ above => i + 1 - c.w \in Cells(c)
  <2>. SUFFICES ASSUME right /\ above  PROVE i + 1 - c.w \in Cells(c)
    OBVIOUS
  <2>1. i + (-1) * c.w + (1) \in Cells(c)
    <3>1. col + (1) \in 0 .. c.w - 1 /\ row + (-1) \in 0 .. c.h - 1
      <4>1. row > 0
        BY <1>3
      <4>. HIDE DEF col, row
      <4>. QED
        BY <1>1, <1>2, <4>1
    <3>. QED
      BY <3>1, CellBeside
  <2>2. i + (-1) * c.w + (1) = i + 1 - c.w
    <3>1. (-1) * c.w = -c.w
      BY <1>1
    <3>. QED
      BY <1>1, <3>1
  <2>. QED
    BY <2>1, <2>2
<1>7. right /\ below => i + 1 + c.w \in Cells(c)
  <2>. SUFFICES ASSUME right /\ below  PROVE i + 1 + c.w \in Cells(c)
    OBVIOUS
  <2>1. i + (1) * c.w + (1) \in Cells(c)
    <3>1. col + (1) \in 0 .. c.w - 1 /\ row + (1) \in 0 .. c.h - 1
      <4>1. row < c.h - 1
        BY <1>3
      <4>. HIDE DEF col, row
      <4>. QED
        BY <1>1, <1>2, <4>1
    <3>. QED
      BY <3>1, CellBeside
  <2>2. i + (1) * c.w + (1) = i + 1 + c.w
    <3>1. (1) * c.w = c.w
      BY <1>1
    <3>. QED
      BY <1>1, <3>1
  <2>. QED
    BY <2>1, <2>2
<1>8. nhood8(c, i) = (((s \o t1) \o t2) \o t3) \o t4
  BY DEF nhood8, Column
<1>. HIDE DEF left, right, above, below
<1>9. /\ t1 \in Seq(Cells(c)) /\ Len(t1) <= 1
      /\ ((left /\ above) /\ ToSet(t1) = {i - 1 - c.w}) \/ (~(left /\ above) /\ ToSet(t1) = {})
  <2>1. ((left /\ above) => t1 = <<i - 1 - c.w>>) /\ (~(left /\ above) => t1 = <<>>)
    BY DEF If
  <2>. HIDE DEF t1
  <2>. QED
    BY <1>4, <2>1, OneOrNone
<1>10. /\ t2 \in Seq(Cells(c)) /\ Len(t2) <= 1
       /\ ((left /\ below) /\ ToSet(t2) = {i - 1 + c.w}) \/ (~(left /\ below) /\ ToSet(t2) = {})
  <2>1. ((left /\ below) => t2 = <<i - 1 + c.w>>) /\ (~(left /\ below) => t2 = <<>>)
    BY DEF If
  <2>. HIDE DEF t2
  <2>. QED
    BY <1>5, <2>1, OneOrNone
<1>11. /\ t3 \in Seq(Cells(c)) /\ Len(t3) <= 1
       /\ ((right /\ above) /\ ToSet(t3) = {i + 1 - c.w}) \/ (~(right /\ above) /\ ToSet(t3) = {})
  <2>1. ((right /\ above) => t3 = <<i + 1 - c.w>>) /\ (~(right /\ above) => t3 = <<>>)
    BY DEF If
  <2>. HIDE DEF t3
  <2>. QED
    BY <1>6, <2>1, OneOrNone
<1>12. /\ t4 \in Seq(Cells(c)) /\ Len(t4) <= 1
       /\ ((right /\ below) /\ ToSet(t4) = {i + 1 + c.w}) \/ (~(right /\ below) /\ ToSet(t4) = {})
  <2>1. ((right /\ below) => t4 = <<i + 1 + c.w>>) /\ (~(right /\ below) => t4 = <<>>)
    BY DEF If
  <2>. HIDE DEF t4
  <2>. QED
    BY <1>7, <2>1, OneOrNone
<1>13. s \in Seq(Cells(c)) /\ Len(s) <= 4
  BY Around4
<1>. HIDE DEF s, t1, t2, t3, t4
<1>14. Len(t1) <= 1 /\ Len(t2) <= 1 /\ Len(t3) <= 1 /\ Len(t4) <= 1
  BY <1>9, <1>10, <1>11, <1>12
<1>15. /\ t1 \in Seq(Cells(c)) /\ t2 \in Seq(Cells(c))
       /\ t3 \in Seq(Cells(c)) /\ t4 \in Seq(Cells(c))
  BY <1>9, <1>10, <1>11, <1>12
<1>. DEFINE u == ((s \o t1) \o t2) \o t3
<1>16. /\ u \in Seq(Cells(c)) /\ Len(u) <= 7
       /\ ToSet(u) = ToSet(s) \cup ToSet(t1) \cup ToSet(t2) \cup ToSet(t3)
  <2>1. 4 \in Nat /\ 4 + 3 = 7
    OBVIOUS
  <2>. QED
    BY <1>13, <1>14, <1>15, <2>1, ThreeMore
<1>17. nhood8(c, i) = u \o t4
  BY <1>8
<1>. HIDE DEF u
<1>18. /\ u \o t4 \in Seq(Cells(c)) /\ Len(u \o t4) <= 8
       /\ ToSet(u \o t4) = ToSet(u) \cup ToSet(t4)
  <2>1. 7 \in Nat /\ 7 + 1 = 8
    OBVIOUS
  <2>. QED
    BY <1>14, <1>15, <1>16, <2>1, OneMore
<1>19. \A j : j \in ToSet(t1) <=> ((left /\ above) /\ j = i - 1 - c.w)
  BY <1>9
<1>20. \A j : j \in ToSet(t2) <=> ((left /\ below) /\ j = i - 1 + c.w)
  BY <1>10
<1>21. \A j : j \in ToSet(t3) <=> ((right /\ above) /\ j = i + 1 - c.w)
  BY <1>11
<1>22. \A j : j \in ToSet(t4) <=> ((right /\ below) /\ j = i + 1 + c.w)
  BY <1>12
<1>23. \A j : j \in ToSet(nhood8(c, i)) <=>
         \/ j \in ToSet(s)
         \/ j \in ToSet(t1)
         \/ j \in ToSet(t2)
         \/ j \in ToSet(t3)
         \/ j \in ToSet(t4)
  BY <1>16, <1>17, <1>18
<1>24. \A j : j \in ToSet(nhood8(c, i)) <=>
         \/ j \in ToSet(s)
         \/ (left /\ above) /\ j = i - 1 - c.w
         \/ (left /\ below) /\ j = i - 1 + c.w
         \/ (right /\ above) /\ j = i + 1 - c.w
         \/ (right /\ below) /\ j = i + 1 + c.w
  BY <1>19, <1>20, <1>21, <1>22, <1>23
<1>25. /\ left <=> Column(c, i) > 0
       /\ right <=> Column(c, i) < c.w - 1
       /\ above <=> Row(c, i) > 0
       /\ below <=> Row(c, i) < c.h - 1
  BY <1>3 DEF left, right
<1>26. nhood8(c, i) \in Seq(Cells(c)) /\ Len(nhood8(c, i)) <= 8
  BY <1>17, <1>18
<1>. QED
  BY <1>24, <1>25, <1>26 DEF s

LEMMA Beside ==
  ASSUME NEW c, Sized(c), NEW i \in Cells(c), NEW j \in Cells(c),
         NEW dx \in -1 .. 1, NEW dy \in -1 .. 1,
         Column(c, j) = Column(c, i) + dx, Row(c, j) = Row(c, i) + dy
  PROVE  j = i + dy * c.w + dx
<1>. HIDE DEF Cells
<1>1. Column(c, i) + dx \in 0 .. c.w - 1 /\ Row(c, i) + dy \in 0 .. c.h - 1
  BY PlaceOfCell
<1>. DEFINE k == i + dy * c.w + dx
<1>2. k \in Cells(c) /\ Column(c, k) = Column(c, j) /\ Row(c, k) = Row(c, j)
  BY <1>1, CellBeside
<1>. HIDE DEF k
<1>3. k = j
  BY <1>2, SamePlace
<1>. QED
  BY <1>3 DEF k

\* Cell j is so many columns and rows from cell i.
Lies(c, i, j, dx, dy) ==
  /\ i \in Cells(c) /\ j \in Cells(c)
  /\ Column(c, j) = Column(c, i) + dx /\ Row(c, j) = Row(c, i) + dy

LEMMA LiesAt ==
  ASSUME NEW c, Sized(c), NEW i \in Cells(c), NEW j, NEW dx \in -1 .. 1, NEW dy \in -1 .. 1
  PROVE  Lies(c, i, j, dx, dy) <=>
           /\ Column(c, i) + dx \in 0 .. c.w - 1 /\ Row(c, i) + dy \in 0 .. c.h - 1
           /\ j = i + dy * c.w + dx
<1>. HIDE DEF Cells
<1>1. ASSUME Lies(c, i, j, dx, dy)
      PROVE  /\ Column(c, i) + dx \in 0 .. c.w - 1 /\ Row(c, i) + dy \in 0 .. c.h - 1
             /\ j = i + dy * c.w + dx
  BY <1>1, PlaceOfCell, Beside DEF Lies
<1>2. ASSUME Column(c, i) + dx \in 0 .. c.w - 1, Row(c, i) + dy \in 0 .. c.h - 1,
             j = i + dy * c.w + dx
      PROVE  Lies(c, i, j, dx, dy)
  BY <1>2, CellBeside DEF Lies
<1>. QED
  BY <1>1, <1>2

LEMMA Nhood4Lists ==
  ASSUME NEW c, Sized(c), NEW i \in Cells(c), NEW j
  PROVE  j \in ToSet(nhood4(c, i)) <=>
           \/ Lies(c, i, j, -1, 0)
           \/ Lies(c, i, j, 1, 0)
           \/ Lies(c, i, j, 0, -1)
           \/ Lies(c, i, j, 0, 1)
<1>1. c.w \in Nat \ {0} /\ c.h \in Nat \ {0} /\ i \in Int
  BY DEF Sized, Cells
<1>. HIDE DEF Cells
<1>2. Column(c, i) \in 0 .. c.w - 1 /\ Row(c, i) \in 0 .. c.h - 1
  BY PlaceOfCell
<1>3. Lies(c, i, j, -1, 0) <=> ((Column(c, i) > 0) /\ j = i - 1)
  <2>1. i + 0 * c.w + (-1) = i - 1
    <3>1. 0 * c.w = 0
      BY <1>1
    <3>. QED
      BY <1>1, <3>1
  <2>2. Column(c, i) + (-1) \in 0 .. c.w - 1 /\ Row(c, i) + 0 \in 0 .. c.h - 1
          <=> (Column(c, i) > 0)
    BY <1>1, <1>2
  <2>3. -1 \in -1 .. 1 /\ 0 \in -1 .. 1
    OBVIOUS
  <2>4. Lies(c, i, j, -1, 0) <=>
          /\ Column(c, i) + (-1) \in 0 .. c.w - 1 /\ Row(c, i) + 0 \in 0 .. c.h - 1
          /\ j = i + 0 * c.w + (-1)
    BY <2>3, LiesAt
  <2>. QED
    BY <2>1, <2>2, <2>4
<1>4. Lies(c, i, j, 1, 0) <=> ((Column(c, i) < c.w - 1) /\ j = i + 1)
  <2>1. i + 0 * c.w + 1 = i + 1
    <3>1. 0 * c.w = 0
      BY <1>1
    <3>. QED
      BY <1>1, <3>1
  <2>2. Column(c, i) + 1 \in 0 .. c.w - 1 /\ Row(c, i) + 0 \in 0 .. c.h - 1
          <=> (Column(c, i) < c.w - 1)
    BY <1>1, <1>2
  <2>3. 1 \in -1 .. 1 /\ 0 \in -1 .. 1
    OBVIOUS
  <2>4. Lies(c, i, j, 1, 0) <=>
          /\ Column(c, i) + 1 \in 0 .. c.w - 1 /\ Row(c, i) + 0 \in 0 .. c.h - 1
          /\ j = i + 0 * c.w + 1
    BY <2>3, LiesAt
  <2>. QED
    BY <2>1, <2>2, <2>4
<1>5. Lies(c, i, j, 0, -1) <=> ((Row(c, i) > 0) /\ j = i - c.w)
  <2>1. i + (-1) * c.w + 0 = i - c.w
    <3>1. (-1) * c.w = -c.w
      BY <1>1
    <3>. QED
      BY <1>1, <3>1
  <2>2. Column(c, i) + 0 \in 0 .. c.w - 1 /\ Row(c, i) + (-1) \in 0 .. c.h - 1
          <=> (Row(c, i) > 0)
    BY <1>1, <1>2
  <2>3. 0 \in -1 .. 1 /\ -1 \in -1 .. 1
    OBVIOUS
  <2>4. Lies(c, i, j, 0, -1) <=>
          /\ Column(c, i) + 0 \in 0 .. c.w - 1 /\ Row(c, i) + (-1) \in 0 .. c.h - 1
          /\ j = i + (-1) * c.w + 0
    BY <2>3, LiesAt
  <2>. QED
    BY <2>1, <2>2, <2>4
<1>6. Lies(c, i, j, 0, 1) <=> ((Row(c, i) < c.h - 1) /\ j = i + c.w)
  <2>1. i + 1 * c.w + 0 = i + c.w
    <3>1. 1 * c.w = c.w
      BY <1>1
    <3>. QED
      BY <1>1, <3>1
  <2>2. Column(c, i) + 0 \in 0 .. c.w - 1 /\ Row(c, i) + 1 \in 0 .. c.h - 1
          <=> (Row(c, i) < c.h - 1)
    BY <1>1, <1>2
  <2>3. 0 \in -1 .. 1 /\ 1 \in -1 .. 1
    OBVIOUS
  <2>4. Lies(c, i, j, 0, 1) <=>
          /\ Column(c, i) + 0 \in 0 .. c.w - 1 /\ Row(c, i) + 1 \in 0 .. c.h - 1
          /\ j = i + 1 * c.w + 0
    BY <2>3, LiesAt
  <2>. QED
    BY <2>1, <2>2, <2>4
<1>. QED
  BY <1>3, <1>4, <1>5, <1>6, Around4

LEMMA Nhood8Lists ==
  ASSUME NEW c, Sized(c), NEW i \in Cells(c), NEW j
  PROVE  j \in ToSet(nhood8(c, i)) <=>
           \/ Lies(c, i, j, -1, 0)
           \/ Lies(c, i, j, 1, 0)
           \/ Lies(c, i, j, 0, -1)
           \/ Lies(c, i, j, 0, 1)
           \/ Lies(c, i, j, -1, -1)
           \/ Lies(c, i, j, -1, 1)
           \/ Lies(c, i, j, 1, -1)
           \/ Lies(c, i, j, 1, 1)
<1>1. c.w \in Nat \ {0} /\ c.h \in Nat \ {0} /\ i \in Int
  BY DEF Sized, Cells
<1>. HIDE DEF Cells
<1>2. Column(c, i) \in 0 .. c.w - 1 /\ Row(c, i) \in 0 .. c.h - 1
  BY PlaceOfCell
<1>3. Lies(c, i, j, -1, -1) <=> ((Column(c, i) > 0 /\ Row(c, i) > 0) /\ j = i - 1 - c.w)
  <2>1. i + (-1) * c.w + (-1) = i - 1 - c.w
    <3>1. (-1) * c.w = -c.w
      BY <1>1
    <3>. QED
      BY <1>1, <3>1
  <2>2. Column(c, i) + (-1) \in 0 .. c.w - 1 /\ Row(c, i) + (-1) \in 0 .. c.h - 1
          <=> (Column(c, i) > 0 /\ Row(c, i) > 0)
    BY <1>1, <1>2
  <2>3. -1 \in -1 .. 1 /\ -1 \in -1 .. 1
    OBVIOUS
  <2>4. Lies(c, i, j, -1, -1) <=>
          /\ Column(c, i) + (-1) \in 0 .. c.w - 1 /\ Row(c, i) + (-1) \in 0 .. c.h - 1
          /\ j = i + (-1) * c.w + (-1)
    BY <2>3, LiesAt
  <2>. QED
    BY <2>1, <2>2, <2>4
<1>4. Lies(c, i, j, -1, 1) <=> ((Column(c, i) > 0 /\ Row(c, i) < c.h - 1) /\ j = i - 1 + c.w)
  <2>1. i + 1 * c.w + (-1) = i - 1 + c.w
    <3>1. 1 * c.w = c.w
      BY <1>1
    <3>. QED
      BY <1>1, <3>1
  <2>2. Column(c, i) + (-1) \in 0 .. c.w - 1 /\ Row(c, i) + 1 \in 0 .. c.h - 1
          <=> (Column(c, i) > 0 /\ Row(c, i) < c.h - 1)
    BY <1>1, <1>2
  <2>3. -1 \in -1 .. 1 /\ 1 \in -1 .. 1
    OBVIOUS
  <2>4. Lies(c, i, j, -1, 1) <=>
          /\ Column(c, i) + (-1) \in 0 .. c.w - 1 /\ Row(c, i) + 1 \in 0 .. c.h - 1
          /\ j = i + 1 * c.w + (-1)
    BY <2>3, LiesAt
  <2>. QED
    BY <2>1, <2>2, <2>4
<1>5. Lies(c, i, j, 1, -1) <=> ((Column(c, i) < c.w - 1 /\ Row(c, i) > 0) /\ j = i + 1 - c.w)
  <2>1. i + (-1) * c.w + 1 = i + 1 - c.w
    <3>1. (-1) * c.w = -c.w
      BY <1>1
    <3>. QED
      BY <1>1, <3>1
  <2>2. Column(c, i) + 1 \in 0 .. c.w - 1 /\ Row(c, i) + (-1) \in 0 .. c.h - 1
          <=> (Column(c, i) < c.w - 1 /\ Row(c, i) > 0)
    BY <1>1, <1>2
  <2>3. 1 \in -1 .. 1 /\ -1 \in -1 .. 1
    OBVIOUS
  <2>4. Lies(c, i, j, 1, -1) <=>
          /\ Column(c, i) + 1 \in 0 .. c.w - 1 /\ Row(c, i) + (-1) \in 0 .. c.h - 1
          /\ j = i + (-1) * c.w + 1
    BY <2>3, LiesAt
  <2>. QED
    BY <2>1, <2>2, <2>4
<1>6. Lies(c, i, j, 1, 1) <=> ((Column(c, i) < c.w - 1 /\ Row(c, i) < c.h - 1) /\ j = i + 1 + c.w)
  <2>1. i + 1 * c.w + 1 = i + 1 + c.w
    <3>1. 1 * c.w = c.w
      BY <1>1
    <3>. QED
      BY <1>1, <3>1
  <2>2. Column(c, i) + 1 \in 0 .. c.w - 1 /\ Row(c, i) + 1 \in 0 .. c.h - 1
          <=> (Column(c, i) < c.w - 1 /\ Row(c, i) < c.h - 1)
    BY <1>1, <1>2
  <2>3. 1 \in -1 .. 1 /\ 1 \in -1 .. 1
    OBVIOUS
  <2>4. Lies(c, i, j, 1, 1) <=>
          /\ Column(c, i) + 1 \in 0 .. c.w - 1 /\ Row(c, i) + 1 \in 0 .. c.h - 1
          /\ j = i + 1 * c.w + 1
    BY <2>3, LiesAt
  <2>. QED
    BY <2>1, <2>2, <2>4
<1>. QED
  BY <1>3, <1>4, <1>5, <1>6, Around8, Nhood4Lists

\* The graphs of the properties are those of the neighbourhoods.
LEMMA EdgesOfGraphs ==
  ASSUME NEW c, NEW i, NEW j
  PROVE  /\ <<i, j>> \in Adjacent4(c) <=>
              /\ i \in Cells(c) /\ j \in Cells(c)
              /\ Gap(Column(c, i), Column(c, j)) + Gap(Row(c, i), Row(c, j)) = 1
         /\ <<i, j>> \in Adjacent8(c) <=> i \in Cells(c) /\ j \in Cells(c) /\ Moves(c, i, j) = 1
<1>. HIDE DEF Cells
<1>1. <<i, j>>[1] = i /\ <<i, j>>[2] = j
  OBVIOUS
<1>2. <<i, j>> \in Cells(c) \X Cells(c) <=> i \in Cells(c) /\ j \in Cells(c)
  OBVIOUS
<1>. QED
  BY <1>1, <1>2 DEF Adjacent4, Adjacent8

LEMMA Neighbours4 ==
  ASSUME NEW c, Sized(c), NEW i \in Cells(c), NEW j
  PROVE  j \in ToSet(nhood4(c, i)) <=> <<i, j>> \in Adjacent4(c)
<1>. HIDE DEF Cells
<1>1. CASE j \in Cells(c)
  <2>1. /\ Column(c, i) \in Int /\ Row(c, i) \in Int
        /\ Column(c, j) \in Int /\ Row(c, j) \in Int
    BY <1>1, PlaceOfCell
  <2>2. Gap(Column(c, i), Column(c, j)) + Gap(Row(c, i), Row(c, j)) = 1
        <=> (
             \/ Lies(c, i, j, -1, 0)
             \/ Lies(c, i, j, 1, 0)
             \/ Lies(c, i, j, 0, -1)
             \/ Lies(c, i, j, 0, 1)
            )
    BY <1>1, <2>1 DEF Gap, Lies
  <2>. QED
    BY <1>1, <2>2, Nhood4Lists, EdgesOfGraphs
<1>2. CASE j \notin Cells(c)
  <2>1. ~(
          \/ Lies(c, i, j, -1, 0)
          \/ Lies(c, i, j, 1, 0)
          \/ Lies(c, i, j, 0, -1)
          \/ Lies(c, i, j, 0, 1)
         )
    BY <1>2 DEF Lies
  <2>. QED
    BY <1>2, <2>1, Nhood4Lists, EdgesOfGraphs
<1>. QED
  BY <1>1, <1>2

LEMMA Neighbours8 ==
  ASSUME NEW c, Sized(c), NEW i \in Cells(c), NEW j
  PROVE  j \in ToSet(nhood8(c, i)) <=> <<i, j>> \in Adjacent8(c)
<1>. HIDE DEF Cells
<1>1. CASE j \in Cells(c)
  <2>1. /\ Column(c, i) \in Int /\ Row(c, i) \in Int
        /\ Column(c, j) \in Int /\ Row(c, j) \in Int
    BY <1>1, PlaceOfCell
  <2>2. Moves(c, i, j) = 1
        <=> (
             \/ Lies(c, i, j, -1, 0)
             \/ Lies(c, i, j, 1, 0)
             \/ Lies(c, i, j, 0, -1)
             \/ Lies(c, i, j, 0, 1)
             \/ Lies(c, i, j, -1, -1)
             \/ Lies(c, i, j, -1, 1)
             \/ Lies(c, i, j, 1, -1)
             \/ Lies(c, i, j, 1, 1)
            )
    BY <1>1, <2>1 DEF Gap, Moves, Lies
  <2>. QED
    BY <1>1, <2>2, Nhood8Lists, EdgesOfGraphs
<1>2. CASE j \notin Cells(c)
  <2>1. ~(
          \/ Lies(c, i, j, -1, 0)
          \/ Lies(c, i, j, 1, 0)
          \/ Lies(c, i, j, 0, -1)
          \/ Lies(c, i, j, 0, 1)
          \/ Lies(c, i, j, -1, -1)
          \/ Lies(c, i, j, -1, 1)
          \/ Lies(c, i, j, 1, -1)
          \/ Lies(c, i, j, 1, 1)
         )
    BY <1>2 DEF Lies
  <2>. QED
    BY <1>2, <2>1, Nhood8Lists, EdgesOfGraphs
<1>. QED
  BY <1>1, <1>2

LEMMA Symmetric ==
  ASSUME NEW c, Sized(c), NEW i, NEW j
  PROVE  /\ <<i, j>> \in Adjacent4(c) <=> <<j, i>> \in Adjacent4(c)
         /\ <<i, j>> \in Adjacent8(c) <=> <<j, i>> \in Adjacent8(c)
<1>. HIDE DEF Cells
<1>1. ASSUME i \in Cells(c), j \in Cells(c)
      PROVE  /\ Gap(Column(c, i), Column(c, j)) = Gap(Column(c, j), Column(c, i))
             /\ Gap(Row(c, i), Row(c, j)) = Gap(Row(c, j), Row(c, i))
  <2>1. /\ Column(c, i) \in Int /\ Row(c, i) \in Int
        /\ Column(c, j) \in Int /\ Row(c, j) \in Int
    BY <1>1, PlaceOfCell
  <2>. QED
    BY <2>1 DEF Gap
<1>2. ASSUME i \in Cells(c), j \in Cells(c)
      PROVE  Moves(c, i, j) = Moves(c, j, i)
  BY <1>1, <1>2 DEF Moves
<1>. QED
  BY <1>1, <1>2, EdgesOfGraphs

-----------------------------------------------------------------------------
(* The moves of a king                                                     *)

LEMMA MovesAre ==
  ASSUME NEW c, Sized(c), NEW i \in Cells(c), NEW p \in Cells(c)
  PROVE  Moves(c, i, p) \in Nat /\ (Moves(c, i, p) = 0 <=> i = p)
<1>. HIDE DEF Cells
<1>1. /\ Column(c, i) \in Int /\ Row(c, i) \in Int
      /\ Column(c, p) \in Int /\ Row(c, p) \in Int
  BY PlaceOfCell
<1>2. Moves(c, i, p) \in Nat
  BY <1>1 DEF Moves, Gap
<1>3. Moves(c, i, p) = 0 <=> Column(c, i) = Column(c, p) /\ Row(c, i) = Row(c, p)
  BY <1>1 DEF Moves, Gap
<1>. QED
  BY <1>2, <1>3, SamePlace

LEMMA MoveBetween ==
  ASSUME NEW c, Sized(c), NEW i, NEW j, <<i, j>> \in Adjacent8(c), NEW p \in Cells(c)
  PROVE  Moves(c, j, p) <= Moves(c, i, p) + 1
<1>. HIDE DEF Cells
<1>1. i \in Cells(c) /\ j \in Cells(c) /\ Moves(c, i, j) = 1
  BY EdgesOfGraphs
<1>2. /\ Column(c, i) \in Int /\ Row(c, i) \in Int
      /\ Column(c, j) \in Int /\ Row(c, j) \in Int
      /\ Column(c, p) \in Int /\ Row(c, p) \in Int
  BY <1>1, PlaceOfCell
<1>3. /\ Gap(Column(c, i), Column(c, j)) <= 1 /\ Gap(Row(c, i), Row(c, j)) <= 1
  BY <1>1, <1>2 DEF Moves, Gap
<1>4. Gap(Column(c, j), Column(c, p)) <= Gap(Column(c, i), Column(c, p)) + 1
  BY <1>2, <1>3 DEF Gap
<1>5. Gap(Row(c, j), Row(c, p)) <= Gap(Row(c, i), Row(c, p)) + 1
  BY <1>2, <1>3 DEF Gap
<1>6. /\ Gap(Column(c, j), Column(c, p)) \in Int /\ Gap(Column(c, i), Column(c, p)) \in Int
      /\ Gap(Row(c, j), Row(c, p)) \in Int /\ Gap(Row(c, i), Row(c, p)) \in Int
  BY <1>2 DEF Gap
<1>. QED
  BY <1>4, <1>5, <1>6 DEF Moves

\* One step nearer along an axis.
Toward(m, n) == IF m < n THEN m + 1 ELSE IF n < m THEN m - 1 ELSE m

LEMMA MoveNearer ==
  ASSUME NEW c, Sized(c), NEW i \in Cells(c), NEW p \in Cells(c), i # p
  PROVE  \E j \in Cells(c) : <<j, i>> \in Adjacent8(c) /\ Moves(c, j, p) = Moves(c, i, p) - 1
<1>. HIDE DEF Cells
<1>1. /\ Column(c, i) \in 0 .. c.w - 1 /\ Row(c, i) \in 0 .. c.h - 1
      /\ Column(c, p) \in 0 .. c.w - 1 /\ Row(c, p) \in 0 .. c.h - 1
      /\ c.w \in Int /\ c.h \in Int
  BY PlaceOfCell DEF Sized
<1>. DEFINE col == Toward(Column(c, i), Column(c, p))
            row == Toward(Row(c, i), Row(c, p))
            j == CellOf(c, col, row)
<1>2. col \in 0 .. c.w - 1 /\ row \in 0 .. c.h - 1
  BY <1>1 DEF Toward
<1>3. j \in Cells(c) /\ Column(c, j) = col /\ Row(c, j) = row
  BY <1>2, CellOfIs
<1>. HIDE DEF j
<1>4. ~(Column(c, i) = Column(c, p) /\ Row(c, i) = Row(c, p))
  BY SamePlace
<1>5. Gap(Column(c, j), Column(c, p)) = IF Column(c, i) = Column(c, p) THEN 0
                                        ELSE Gap(Column(c, i), Column(c, p)) - 1
  BY <1>1, <1>3 DEF Toward, Gap
<1>6. Gap(Row(c, j), Row(c, p)) = IF Row(c, i) = Row(c, p) THEN 0
                                  ELSE Gap(Row(c, i), Row(c, p)) - 1
  BY <1>1, <1>3 DEF Toward, Gap
<1>7. Moves(c, j, p) = Moves(c, i, p) - 1
  BY <1>1, <1>4, <1>5, <1>6 DEF Moves, Gap
<1>8. Moves(c, j, i) = 1
  BY <1>1, <1>3, <1>4 DEF Moves, Gap, Toward
<1>. QED
  BY <1>3, <1>7, <1>8, EdgesOfGraphs

\* The number at most so far from n that is nearest to m.
Within(m, n, far) == IF m < n - far THEN n - far ELSE IF m > n + far THEN n + far ELSE m

LEMMA CellAtDistance ==
  ASSUME NEW c, Sized(c), NEW i \in Cells(c), NEW p \in Cells(c),
         NEW far \in Nat, far <= Moves(c, i, p)
  PROVE  \E j \in Cells(c) : Moves(c, j, p) = far
<1>. HIDE DEF Cells
<1>1. /\ Column(c, i) \in 0 .. c.w - 1 /\ Row(c, i) \in 0 .. c.h - 1
      /\ Column(c, p) \in 0 .. c.w - 1 /\ Row(c, p) \in 0 .. c.h - 1
      /\ c.w \in Int /\ c.h \in Int
  BY PlaceOfCell DEF Sized
<1>. DEFINE col == Within(Column(c, i), Column(c, p), far)
            row == Within(Row(c, i), Row(c, p), far)
            j == CellOf(c, col, row)
<1>2. col \in 0 .. c.w - 1 /\ row \in 0 .. c.h - 1
  BY <1>1 DEF Within
<1>3. j \in Cells(c) /\ Column(c, j) = col /\ Row(c, j) = row
  BY <1>2, CellOfIs
<1>. HIDE DEF j
<1>4. Gap(Column(c, j), Column(c, p)) = IF Gap(Column(c, i), Column(c, p)) > far THEN far
                                        ELSE Gap(Column(c, i), Column(c, p))
  BY <1>1, <1>3 DEF Within, Gap
<1>5. Gap(Row(c, j), Row(c, p)) = IF Gap(Row(c, i), Row(c, p)) > far THEN far
                                  ELSE Gap(Row(c, i), Row(c, p))
  BY <1>1, <1>3 DEF Within, Gap
<1>6. Gap(Column(c, i), Column(c, p)) \in Int /\ Gap(Row(c, i), Row(c, p)) \in Int
  BY <1>1 DEF Gap
<1>7. Moves(c, j, p) = far
  BY <1>4, <1>5, <1>6 DEF Moves
<1>. QED
  BY <1>3, <1>7

-----------------------------------------------------------------------------
(* nearestCell meets the cells in the order of their distance              *)

Ordered(c, p, q) ==
  \A m, n \in 1 .. Len(q) : m <= n => Moves(c, q[m], p) <= Moves(c, q[n], p)

\* The queue q holds cells at the distance of the cell last taken or one further,
\* and everything nearer than the queue has been looked at, and is not free.
NearestFirst(c, p, q, vis, of, ns) ==
  /\ Ordered(c, p, q)
  /\ \A k \in ToSet(q) : /\ k \in vis /\ Moves(c, of, p) <= Moves(c, k, p)
                         /\ Moves(c, k, p) <= Moves(c, of, p) + 1
  /\ \A k \in Cells(c) : Moves(c, k, p) <= Moves(c, of, p) => k \in vis
  /\ \A k \in vis \ ToSet(q) : c.cost[k] # FREE_SPACE /\ Moves(c, k, p) <= Moves(c, of, p)
  /\ \A v \in vis \ ToSet(q), n \in Cells(c) :
       <<v, n>> \in Adjacent8(c) => n \in vis \/ n \in ToSet(ns)
  /\ \A n \in ToSet(ns) : <<of, n>> \in Adjacent8(c)

LEMMA QueuedCells ==
  ASSUME NEW S, NEW q \in Seq(S)
  PROVE  ToSet(q) \subseteq S
BY DEF ToSet

LEMMA HeadIsNearest ==
  ASSUME NEW c, NEW p, NEW q \in Seq(Cells(c)), q # <<>>, Ordered(c, p, q)
  PROVE  /\ \A k \in ToSet(q) : Moves(c, Head(q), p) <= Moves(c, k, p)
         /\ Ordered(c, p, Tail(q))
<1>. HIDE DEF Cells
<1>1. Len(q) \in Nat /\ 1 \in 1 .. Len(q) /\ Head(q) = q[1]
  BY Taken
<1>2. \A k \in ToSet(q) : Moves(c, Head(q), p) <= Moves(c, k, p)
  <2>. SUFFICES ASSUME NEW n \in 1 .. Len(q)
                PROVE  Moves(c, q[1], p) <= Moves(c, q[n], p)
    BY <1>1 DEF ToSet
  <2>1. 1 <= n
    OBVIOUS
  <2>. QED
    BY <1>1, <2>1 DEF Ordered
<1>3. Ordered(c, p, Tail(q))
  <2>1. Len(Tail(q)) \in Nat /\ Len(q) = Len(Tail(q)) + 1
    BY Taken
  <2>. SUFFICES ASSUME NEW m \in 1 .. Len(Tail(q)), NEW n \in 1 .. Len(Tail(q)), m <= n
                PROVE  Moves(c, Tail(q)[m], p) <= Moves(c, Tail(q)[n], p)
    BY DEF Ordered
  <2>2. m + 1 \in 1 .. Len(q) /\ n + 1 \in 1 .. Len(q) /\ m + 1 <= n + 1
    BY <2>1
  <2>3. Tail(q)[m] = q[m + 1] /\ Tail(q)[n] = q[n + 1]
    BY Taken
  <2>. QED
    BY <2>2, <2>3 DEF Ordered
<1>. QED
  BY <1>2, <1>3

LEMMA OrderedAppend ==
  ASSUME NEW c, NEW p, NEW q \in Seq(Cells(c)), NEW x \in Cells(c), Ordered(c, p, q),
         \A k \in ToSet(q) : Moves(c, k, p) <= Moves(c, x, p), Moves(c, x, p) \in Nat
  PROVE  Ordered(c, p, Append(q, x))
<1>. HIDE DEF Cells
<1>1. /\ Len(q) \in Nat /\ Len(Append(q, x)) = Len(q) + 1
      /\ \A n \in 1 .. Len(q) : Append(q, x)[n] = q[n]
      /\ Append(q, x)[Len(q) + 1] = x
  BY AppendProperties
<1>. SUFFICES ASSUME NEW m \in 1 .. Len(q) + 1, NEW n \in 1 .. Len(q) + 1, m <= n
              PROVE  Moves(c, Append(q, x)[m], p) <= Moves(c, Append(q, x)[n], p)
  BY <1>1 DEF Ordered
<1>2. CASE n \in 1 .. Len(q)
  <2>1. m \in 1 .. Len(q)
    BY <1>1, <1>2
  <2>. QED
    BY <1>1, <1>2, <2>1 DEF Ordered
<1>3. CASE n = Len(q) + 1
  <2>1. CASE m = n
    BY <1>1, <1>3, <2>1
  <2>2. CASE m # n
    <3>1. m \in 1 .. Len(q)
      BY <1>1, <1>3, <2>2
    <3>2. q[m] \in ToSet(q)
      BY <3>1 DEF ToSet
    <3>. QED
      BY <1>1, <1>3, <3>1, <3>2
  <2>. QED
    BY <2>1, <2>2
<1>. QED
  BY <1>1, <1>2, <1>3

LEMMA NearestFirstStarts ==
  ASSUME NEW c, Sized(c), NEW p \in Cells(c)
  PROVE  NearestFirst(c, p, <<p>>, {p}, p, <<>>)
<1>. HIDE DEF Cells
<1>1. ToSet(<<p>>) = {p} /\ Len(<<p>>) = 1 /\ ToSet(<<>>) = {}
  BY OneQueued, NothingQueued
<1>2. Moves(c, p, p) = 0
  BY MovesAre
<1>3. Ordered(c, p, <<p>>)
  BY <1>1, <1>2 DEF Ordered
<1>4. \A k \in Cells(c) : Moves(c, k, p) <= Moves(c, p, p) => k \in {p}
  <2>. SUFFICES ASSUME NEW k \in Cells(c), Moves(c, k, p) <= 0
                PROVE  k = p
    BY <1>2
  <2>1. Moves(c, k, p) \in Nat
    BY MovesAre
  <2>2. Moves(c, k, p) = 0
    BY <2>1
  <2>. QED
    BY <2>2, MovesAre
<1>. QED
  BY <1>1, <1>2, <1>3, <1>4 DEF NearestFirst

\* LooksAround
LEMMA NearestFirstTakes ==
  ASSUME NEW c, Sized(c), NEW p \in Cells(c), NEW q \in Seq(Cells(c)), q # <<>>,
         NEW vis \in SUBSET Cells(c), NEW of \in Cells(c),
         NearestFirst(c, p, q, vis, of, <<>>), c.cost[Head(q)] # FREE_SPACE
  PROVE  NearestFirst(c, p, Tail(q), vis, Head(q), nhood8(c, Head(q)))
<1>. HIDE DEF Cells
<1>. DEFINE h == Head(q)
            D(k) == Moves(c, k, p)
<1>1. /\ h \in Cells(c) /\ Tail(q) \in Seq(Cells(c)) /\ ToSet(q) = {h} \cup ToSet(Tail(q))
  BY Taken
<1>2. Ordered(c, p, Tail(q)) /\ \A k \in ToSet(q) : D(h) <= D(k)
  BY HeadIsNearest DEF NearestFirst
<1>3. D(of) \in Nat /\ \A k \in Cells(c) : D(k) \in Nat
  BY MovesAre
<1>4. \A k \in ToSet(q) : k \in vis /\ D(of) <= D(k) /\ D(k) <= D(of) + 1
  BY DEF NearestFirst
<1>5. \A k \in ToSet(Tail(q)) : k \in vis /\ D(h) <= D(k) /\ D(k) <= D(h) + 1
  <2>. TAKE k \in ToSet(Tail(q))
  <2>1. k \in ToSet(q) /\ h \in ToSet(q) /\ k \in Cells(c)
    BY <1>1, QueuedCells
  <2>2. D(h) \in Nat /\ D(k) \in Nat /\ D(of) <= D(h) /\ D(k) <= D(of) + 1 /\ D(h) <= D(k)
    BY <1>1, <1>2, <1>3, <1>4, <2>1
  <2>3. D(k) <= D(h) + 1
    <3>. HIDE DEF D
    <3>. QED
      BY <1>3, <2>2
  <2>. QED
    BY <1>4, <2>1, <2>2, <2>3
<1>6. D(h) \in Nat /\ D(of) <= D(h) /\ D(h) <= D(of) + 1
  BY <1>1, <1>3, <1>4
<1>7. \A k \in Cells(c) : D(k) <= D(h) => k \in vis
  <2>. SUFFICES ASSUME NEW k \in Cells(c), D(k) <= D(h)
                PROVE  k \in vis
    OBVIOUS
  <2>1. CASE D(k) <= D(of)
    BY <2>1 DEF NearestFirst
  <2>2. CASE ~(D(k) <= D(of))
    <3>1. D(k) = D(of) + 1 /\ D(h) = D(of) + 1
      <4>1. D(k) \in Nat
        BY <1>3
      <4>. HIDE DEF D
      <4>. QED
        BY <1>3, <1>6, <2>2, <4>1
    <3>2. k # p
      <4>1. D(k) # 0
        BY <1>3, <3>1
      <4>. QED
        BY <4>1, MovesAre
    <3>3. PICK u \in Cells(c) : <<u, k>> \in Adjacent8(c) /\ D(u) = D(k) - 1
      BY <3>2, MoveNearer
    <3>4. D(u) = D(of)
      <4>. HIDE DEF D
      <4>. QED
        BY <1>3, <3>1, <3>3
    <3>5. u \in vis
      BY <1>3, <3>4 DEF NearestFirst
    <3>6. u \notin ToSet(q)
      <4>. SUFFICES ASSUME u \in ToSet(q)  PROVE FALSE
        OBVIOUS
      <4>1. D(h) <= D(u)
        BY <1>2
      <4>. HIDE DEF D
      <4>. QED
        BY <1>3, <3>1, <3>4, <4>1
    <3>. QED
      BY <3>3, <3>5, <3>6, NothingQueued DEF NearestFirst
  <2>. QED
    BY <2>1, <2>2
<1>8. \A k \in vis \ ToSet(Tail(q)) : c.cost[k] # FREE_SPACE /\ D(k) <= D(h)
  <2>. TAKE k \in vis \ ToSet(Tail(q))
  <2>1. CASE k = h
    <3>1. D(h) <= D(h)
      <4>. HIDE DEF D
      <4>. QED
        BY <1>6
    <3>. QED
      BY <2>1, <3>1
  <2>2. CASE k # h
    <3>1. k \notin ToSet(q)
      BY <1>1, <2>2
    <3>2. c.cost[k] # FREE_SPACE /\ D(k) <= D(of)
      BY <3>1 DEF NearestFirst
    <3>3. D(k) \in Nat
      BY <1>3
    <3>4. D(k) <= D(h)
      <4>. HIDE DEF D
      <4>. QED
        BY <1>3, <1>6, <3>2, <3>3
    <3>. QED
      BY <3>2, <3>4
  <2>. QED
    BY <2>1, <2>2
<1>9. \A v \in vis \ ToSet(Tail(q)), n \in Cells(c) :
        <<v, n>> \in Adjacent8(c) => n \in vis \/ n \in ToSet(nhood8(c, h))
  <2>. TAKE v \in vis \ ToSet(Tail(q)), n \in Cells(c)
  <2>. SUFFICES ASSUME <<v, n>> \in Adjacent8(c)
                PROVE  n \in vis \/ n \in ToSet(nhood8(c, h))
    OBVIOUS
  <2>1. CASE v = h
    BY <1>1, <2>1, Neighbours8
  <2>2. CASE v # h
    <3>1. v \notin ToSet(q)
      BY <1>1, <2>2
    <3>. QED
      BY <3>1, NothingQueued DEF NearestFirst
  <2>. QED
    BY <2>1, <2>2
<1>10. \A n \in ToSet(nhood8(c, h)) : <<h, n>> \in Adjacent8(c)
  BY <1>1, Neighbours8
<1>. QED
  BY <1>2, <1>5, <1>7, <1>8, <1>9, <1>10 DEF NearestFirst

\* Reaches, for a cell that was visited and for one that was not
LEMMA NearestFirstPasses ==
  ASSUME NEW c, Sized(c), NEW p \in Cells(c), NEW q \in Seq(Cells(c)),
         NEW vis \in SUBSET Cells(c), NEW of \in Cells(c),
         NEW ns \in Seq(Cells(c)), ns # <<>>, NearestFirst(c, p, q, vis, of, ns),
         Head(ns) \in vis
  PROVE  NearestFirst(c, p, q, vis, of, Tail(ns))
<1>. HIDE DEF Cells
<1>1. ToSet(ns) = {Head(ns)} \cup ToSet(Tail(ns))
  BY Taken
<1>2. \A v \in vis \ ToSet(q), n \in Cells(c) :
        <<v, n>> \in Adjacent8(c) => n \in vis \/ n \in ToSet(Tail(ns))
  BY <1>1 DEF NearestFirst
<1>3. \A n \in ToSet(Tail(ns)) : <<of, n>> \in Adjacent8(c)
  BY <1>1 DEF NearestFirst
<1>. QED
  BY <1>2, <1>3 DEF NearestFirst

LEMMA NearestFirstVisits ==
  ASSUME NEW c, Sized(c), NEW p \in Cells(c), NEW q \in Seq(Cells(c)),
         NEW vis \in SUBSET Cells(c), NEW of \in Cells(c),
         NEW ns \in Seq(Cells(c)), ns # <<>>, NearestFirst(c, p, q, vis, of, ns),
         Head(ns) \notin vis
  PROVE  NearestFirst(c, p, Append(q, Head(ns)), vis \cup {Head(ns)}, of, Tail(ns))
<1>. HIDE DEF Cells
<1>. DEFINE x == Head(ns)
            D(k) == Moves(c, k, p)
            q2 == Append(q, x)
            vis2 == vis \cup {x}
<1>1. x \in Cells(c) /\ ToSet(ns) = {x} \cup ToSet(Tail(ns))
  BY Taken
<1>2. ToSet(q2) = ToSet(q) \cup {x}
  BY <1>1, Appended
<1>3. D(of) \in Nat /\ \A k \in Cells(c) : D(k) \in Nat
  BY MovesAre
<1>4. <<of, x>> \in Adjacent8(c)
  BY <1>1 DEF NearestFirst
<1>5. D(x) = D(of) + 1
  <2>1. D(x) <= D(of) + 1
    BY <1>4, MoveBetween
  <2>2. ~(D(x) <= D(of))
    BY <1>1 DEF NearestFirst
  <2>3. D(x) \in Nat
    BY <1>1, <1>3
  <2>. HIDE DEF D
  <2>. QED
    BY <1>3, <2>1, <2>2, <2>3
<1>6. Ordered(c, p, q2)
  <2>1. \A k \in ToSet(q) : D(k) <= D(x)
    BY <1>5 DEF NearestFirst
  <2>2. D(x) \in Nat /\ Ordered(c, p, q)
    BY <1>1, <1>3 DEF NearestFirst
  <2>. QED
    BY <1>1, <2>1, <2>2, OrderedAppend
<1>7. \A k \in ToSet(q2) : k \in vis2 /\ D(of) <= D(k) /\ D(k) <= D(of) + 1
  <2>. TAKE k \in ToSet(q2)
  <2>1. CASE k \in ToSet(q)
    BY <2>1 DEF NearestFirst
  <2>2. CASE k = x
    <3>1. D(of) <= D(x) /\ D(x) <= D(of) + 1
      <4>. HIDE DEF D
      <4>. QED
        BY <1>3, <1>5
    <3>. QED
      BY <2>2, <3>1
  <2>. QED
    BY <1>2, <2>1, <2>2
<1>8. \A k \in Cells(c) : D(k) <= D(of) => k \in vis2
  BY DEF NearestFirst
<1>9. vis2 \ ToSet(q2) \subseteq vis \ ToSet(q)
  BY <1>2
<1>10. \A k \in vis2 \ ToSet(q2) : c.cost[k] # FREE_SPACE /\ D(k) <= D(of)
  BY <1>9 DEF NearestFirst
<1>11. \A v \in vis2 \ ToSet(q2), n \in Cells(c) :
         <<v, n>> \in Adjacent8(c) => n \in vis2 \/ n \in ToSet(Tail(ns))
  <2>. TAKE v \in vis2 \ ToSet(q2), n \in Cells(c)
  <2>1. v \in vis \ ToSet(q)
    BY <1>9
  <2>2. <<v, n>> \in Adjacent8(c) => n \in vis \/ n \in ToSet(ns)
    BY <2>1 DEF NearestFirst
  <2>. QED
    BY <1>1, <2>2
<1>12. \A n \in ToSet(Tail(ns)) : <<of, n>> \in Adjacent8(c)
  BY <1>1 DEF NearestFirst
<1>. QED
  BY <1>6, <1>7, <1>8, <1>10, <1>11, <1>12 DEF NearestFirst

\* FindsClear
LEMMA ClearIsNearest ==
  ASSUME NEW c, Sized(c), NEW p \in Cells(c), NEW q \in Seq(Cells(c)), q # <<>>,
         NEW vis \in SUBSET Cells(c), NEW of \in Cells(c),
         NEW ns, NearestFirst(c, p, q, vis, of, ns)
  PROVE  \A k \in Free(c) : Moves(c, Head(q), p) <= Moves(c, k, p)
<1>. HIDE DEF Cells
<1>. DEFINE D(k) == Moves(c, k, p)
            h == Head(q)
<1>. TAKE k \in Free(c)
<1>1. k \in Cells(c) /\ c.cost[k] = FREE_SPACE
  BY DEF Free
<1>2. h \in Cells(c) /\ h \in ToSet(q) /\ \A l \in ToSet(q) : D(h) <= D(l)
  BY HeadIsNearest, Taken DEF NearestFirst
<1>3. D(h) <= D(of) + 1
  BY <1>2 DEF NearestFirst
<1>4. D(h) \in Nat /\ D(of) \in Nat /\ D(k) \in Nat
  BY <1>1, <1>2, MovesAre
<1>5. CASE D(k) <= D(of)
  <2>1. k \in vis
    BY <1>1, <1>5 DEF NearestFirst
  <2>2. k \in ToSet(q)
    BY <1>1, <2>1 DEF NearestFirst
  <2>. QED
    BY <1>2, <2>2
<1>6. CASE ~(D(k) <= D(of))
  <2>1. D(h) <= D(k)
    <3>. HIDE DEF D
    <3>. QED
      BY <1>3, <1>4, <1>6
  <2>. QED
    BY <2>1
<1>. QED
  BY <1>5, <1>6

\* NoneIsClear
LEMMA NoneIsFree ==
  ASSUME NEW c, Sized(c), NEW p \in Cells(c), NEW vis \in SUBSET Cells(c), NEW of \in Cells(c),
         NearestFirst(c, p, <<>>, vis, of, <<>>)
  PROVE  Free(c) = {}
<1>. HIDE DEF Cells
<1>. DEFINE D(k) == Moves(c, k, p)
<1>. SUFFICES ASSUME NEW k \in Cells(c)
              PROVE  c.cost[k] # FREE_SPACE
  BY DEF Free
<1>1. \A l \in vis : c.cost[l] # FREE_SPACE /\ D(l) <= D(of)
  BY NothingQueued DEF NearestFirst
<1>2. D(of) \in Nat /\ \A l \in Cells(c) : D(l) \in Nat
  BY MovesAre
<1>3. CASE D(k) <= D(of)
  BY <1>1, <1>3 DEF NearestFirst
<1>4. CASE ~(D(k) <= D(of))
  <2>1. D(of) + 1 \in Nat /\ D(of) + 1 <= D(k)
    <3>1. D(k) \in Nat
      BY <1>2
    <3>. HIDE DEF D
    <3>. QED
      BY <1>2, <1>4, <3>1
  <2>2. PICK j \in Cells(c) : D(j) = D(of) + 1
    <3>. DEFINE far == D(of) + 1
    <3>1. far \in Nat /\ far <= Moves(c, k, p)
      BY <2>1
    <3>. HIDE DEF far
    <3>2. \E j \in Cells(c) : Moves(c, j, p) = far
      BY <3>1, CellAtDistance
    <3>. QED
      BY <3>2 DEF far
  <2>3. j # p
    <3>1. D(j) # 0
      <4>. HIDE DEF D
      <4>. QED
        BY <1>2, <2>2
    <3>. QED
      BY <3>1, MovesAre
  <2>4. PICK u \in Cells(c) : <<u, j>> \in Adjacent8(c) /\ D(u) = D(j) - 1
    BY <2>3, MoveNearer
  <2>5. D(u) <= D(of) /\ ~(D(j) <= D(of))
    <3>. HIDE DEF D
    <3>. QED
      BY <1>2, <2>2, <2>4
  <2>6. u \in vis
    BY <2>5 DEF NearestFirst
  <2>7. j \in vis
    BY <2>4, <2>6, NothingQueued DEF NearestFirst
  <2>. QED
    BY <1>1, <2>5, <2>7
<1>. QED
  BY <1>3, <1>4

-----------------------------------------------------------------------------
(* Rooms and edges as components                                           *)

\* Nothing of S can be cut off.
Connected(S, adjacent) ==
  S # {} /\ \A T \in SUBSET S : T # {} /\ T # S => \E i \in T, j \in S \ T : <<i, j>> \in adjacent

LEMMA ConnectedOne ==
  ASSUME NEW x, NEW adjacent
  PROVE  Connected({x}, adjacent)
BY DEF Connected

LEMMA ConnectedGrows ==
  ASSUME NEW S, NEW adjacent, Connected(S, adjacent), NEW x, NEW h \in S,
         <<h, x>> \in adjacent, <<x, h>> \in adjacent
  PROVE  Connected(S \cup {x}, adjacent)
<1>. DEFINE W == S \cup {x}
<1>. SUFFICES ASSUME NEW T \in SUBSET W, T # {}, T # W
              PROVE  \E i \in T, j \in W \ T : <<i, j>> \in adjacent
  BY DEF Connected
<1>1. CASE T \cap S = {}
  <2>1. x \in T /\ h \notin T
    BY <1>1
  <2>. QED
    BY <2>1
<1>2. CASE T \cap S = S
  <2>1. x \notin T /\ h \in T
    BY <1>2
  <2>. QED
    BY <2>1
<1>3. CASE T \cap S # {} /\ T \cap S # S
  <2>1. PICK i \in T \cap S, j \in S \ (T \cap S) : <<i, j>> \in adjacent
    BY <1>3 DEF Connected
  <2>2. i \in T /\ j \in W \ T
    BY <2>1
  <2>. QED
    BY <2>1, <2>2
<1>. QED
  BY <1>1, <1>2, <1>3

LEMMA ComponentIs ==
  ASSUME NEW S, NEW nodes, NEW adjacent, S \subseteq nodes, Connected(S, adjacent),
         \A i \in S, j \in nodes \ S : <<i, j>> \notin adjacent
  PROVE  IsComponent(S, nodes, adjacent)
BY DEF IsComponent, Connected

LEMMA ComponentLiesIn ==
  ASSUME NEW S, NEW T, NEW nodes, NEW adjacent,
         IsComponent(S, nodes, adjacent), IsComponent(T, nodes, adjacent), S \cap T # {}
  PROVE  S \subseteq T
<1>. DEFINE U == S \cap T
<1>. SUFFICES ASSUME U # S
              PROVE  FALSE
  OBVIOUS
<1>1. U \in SUBSET S /\ U # {}
  OBVIOUS
<1>2. PICK i \in U, j \in S \ U : <<i, j>> \in adjacent
  BY <1>1 DEF IsComponent
<1>3. i \in T /\ j \in nodes \ T
  BY <1>2 DEF IsComponent
<1>. QED
  BY <1>2, <1>3 DEF IsComponent

\* Components that meet are one.
LEMMA ComponentsMeet ==
  ASSUME NEW S, NEW T, NEW nodes, NEW adjacent,
         IsComponent(S, nodes, adjacent), IsComponent(T, nodes, adjacent), S \cap T # {}
  PROVE  S = T
<1>1. S \subseteq T
  BY ComponentLiesIn
<1>2. T \cap S # {}
  OBVIOUS
<1>3. T \subseteq S
  BY <1>2, ComponentLiesIn
<1>. QED
  BY <1>1, <1>3

LEMMA FrontierCells ==
  ASSUME NEW c, Sized(c), NEW i \in Cells(c)
  PROVE  IsFrontierCell(c, i) <=> i \in Edge(c)
<1>. HIDE DEF Cells
<1>1. \A n : n \in ToSet(nhood4(c, i)) <=> <<i, n>> \in Adjacent4(c)
  BY Neighbours4
<1>2. \A n : <<i, n>> \in Adjacent4(c) => n \in Cells(c)
  BY EdgesOfGraphs
<1>3. (\E n \in ToSet(nhood4(c, i)) : c.cost[n] = FREE_SPACE)
      <=> \E n \in Free(c) : <<i, n>> \in Adjacent4(c)
  BY <1>1, <1>2 DEF Free
<1>. QED
  BY <1>3 DEF IsFrontierCell, Edge

LEMMA EdgeIsNotFree ==
  ASSUME NEW c, NEW i
  PROVE  /\ i \in Edge(c) => i \in Cells(c) /\ i \notin Free(c)
         /\ i \in Free(c) <=> i \in Cells(c) /\ c.cost[i] = FREE_SPACE
         /\ Free(c) = {} => Edge(c) = {}
<1>. HIDE DEF Cells
<1>1. FREE_SPACE # NO_INFORMATION
  BY DEF FREE_SPACE, NO_INFORMATION
<1>2. i \in Edge(c) => i \in Cells(c) /\ c.cost[i] = NO_INFORMATION
  BY DEF Edge
<1>3. i \in Free(c) <=> (i \in Cells(c) /\ c.cost[i] = FREE_SPACE)
  BY DEF Free
<1>4. Free(c) = {} => Edge(c) = {}
  BY DEF Edge
<1>. QED
  BY <1>1, <1>2, <1>3, <1>4

-----------------------------------------------------------------------------
(* searchFrom floods a room                                                *)

\* What was visited hangs together, holds a free cell nearest to p, and around a
\* visited cell that is done with all is visited or a frontier's.
Floods(c, p, q, vis, of, ns, flag) ==
  /\ vis \subseteq Free(c)
  /\ Connected(vis, Adjacent4(c))
  /\ \E j \in vis : \A k \in Free(c) : Moves(c, j, p) <= Moves(c, k, p)
  /\ ToSet(q) \subseteq vis
  /\ \A v \in vis \ ToSet(q), n \in Cells(c) :
       <<v, n>> \in Adjacent4(c) => \/ n \in ToSet(ns)
                                    \/ (n \in Free(c) => n \in vis) /\ (n \in Edge(c) => n \in flag)
  /\ ns # <<>> => of \in vis
  /\ \A n \in ToSet(ns) : <<of, n>> \in Adjacent4(c)

LEMMA FloodsStarts ==
  ASSUME NEW c, NEW p, NEW start \in Free(c), NEW of, NEW flag,
         \A k \in Free(c) : Moves(c, start, p) <= Moves(c, k, p)
  PROVE  Floods(c, p, <<start>>, {start}, of, <<>>, flag)
<1>. HIDE DEF Cells
<1>1. ToSet(<<start>>) = {start} /\ ToSet(<<>>) = {}
  BY OneQueued, NothingQueued
<1>. QED
  BY <1>1, ConnectedOne DEF Floods

\* Expands
LEMMA FloodsTakes ==
  ASSUME NEW c, Sized(c), NEW p, NEW q \in Seq(Cells(c)), q # <<>>, NEW vis, NEW of, NEW flag,
         Floods(c, p, q, vis, of, <<>>, flag)
  PROVE  Floods(c, p, Tail(q), vis, Head(q), nhood4(c, Head(q)), flag)
<1>. HIDE DEF Cells
<1>. DEFINE h == Head(q)
<1>1. h \in Cells(c) /\ ToSet(q) = {h} \cup ToSet(Tail(q))
  BY Taken
<1>2. h \in vis /\ ToSet(Tail(q)) \subseteq vis
  BY <1>1 DEF Floods
<1>3. \A n : n \in ToSet(nhood4(c, h)) <=> <<h, n>> \in Adjacent4(c)
  BY <1>1, Neighbours4
<1>4. \A v \in vis \ ToSet(Tail(q)), n \in Cells(c) :
        <<v, n>> \in Adjacent4(c) =>
          \/ n \in ToSet(nhood4(c, h))
          \/ (n \in Free(c) => n \in vis) /\ (n \in Edge(c) => n \in flag)
  <2>. TAKE v \in vis \ ToSet(Tail(q)), n \in Cells(c)
  <2>1. CASE v = h
    BY <1>3, <2>1
  <2>2. CASE v # h
    <3>1. v \in vis \ ToSet(q)
      BY <1>1, <2>2
    <3>. QED
      BY <3>1, NothingQueued DEF Floods
  <2>. QED
    BY <2>1, <2>2
<1>. QED
  BY <1>2, <1>3, <1>4 DEF Floods

\* Advances
LEMMA FloodsVisits ==
  ASSUME NEW c, Sized(c), NEW p, NEW q \in Seq(Cells(c)), NEW vis, NEW of, NEW flag,
         NEW ns \in Seq(Cells(c)), ns # <<>>, Floods(c, p, q, vis, of, ns, flag),
         Head(ns) \in Free(c)
  PROVE  Floods(c, p, Append(q, Head(ns)), vis \cup {Head(ns)}, of, Tail(ns), flag)
<1>. HIDE DEF Cells
<1>. DEFINE x == Head(ns)
            q2 == Append(q, x)
            vis2 == vis \cup {x}
<1>1. x \in Cells(c) /\ ToSet(ns) = {x} \cup ToSet(Tail(ns))
  BY Taken
<1>2. ToSet(q2) = ToSet(q) \cup {x}
  BY <1>1, Appended
<1>3. vis2 \subseteq Free(c) /\ ToSet(q2) \subseteq vis2 /\ of \in vis2
  BY <1>2 DEF Floods
<1>4. Connected(vis2, Adjacent4(c))
  <2>1. of \in vis /\ <<of, x>> \in Adjacent4(c) /\ Connected(vis, Adjacent4(c))
    BY <1>1 DEF Floods
  <2>2. <<x, of>> \in Adjacent4(c)
    BY <2>1, Symmetric
  <2>. QED
    BY <2>1, <2>2, ConnectedGrows
<1>5. \E j \in vis2 : \A k \in Free(c) : Moves(c, j, p) <= Moves(c, k, p)
  BY DEF Floods
<1>6. \A v \in vis2 \ ToSet(q2), n \in Cells(c) :
        <<v, n>> \in Adjacent4(c) =>
          \/ n \in ToSet(Tail(ns))
          \/ (n \in Free(c) => n \in vis2) /\ (n \in Edge(c) => n \in flag)
  <2>. TAKE v \in vis2 \ ToSet(q2), n \in Cells(c)
  <2>1. v \in vis \ ToSet(q)
    BY <1>2
  <2>2. <<v, n>> \in Adjacent4(c) =>
          \/ n \in ToSet(ns)
          \/ (n \in Free(c) => n \in vis) /\ (n \in Edge(c) => n \in flag)
    BY <2>1 DEF Floods
  <2>3. CASE n = x
    BY <2>3, EdgeIsNotFree
  <2>4. CASE n # x
    BY <1>1, <2>2, <2>4
  <2>. QED
    BY <2>3, <2>4
<1>7. \A n \in ToSet(Tail(ns)) : <<of, n>> \in Adjacent4(c)
  BY <1>1 DEF Floods
<1>. QED
  BY <1>3, <1>4, <1>5, <1>6, <1>7 DEF Floods

\* MeetsFrontier and PassesBy: what was flagged since is more, never less.
LEMMA FloodsPasses ==
  ASSUME NEW c, NEW p, NEW q \in Seq(Cells(c)), NEW vis, NEW of, NEW flag,
         NEW ns \in Seq(Cells(c)), ns # <<>>, Floods(c, p, q, vis, of, ns, flag),
         NEW flag2, flag \subseteq flag2,
         Head(ns) \in Free(c) => Head(ns) \in vis, Head(ns) \in Edge(c) => Head(ns) \in flag2
  PROVE  Floods(c, p, q, vis, of, Tail(ns), flag2)
<1>. HIDE DEF Cells
<1>1. Head(ns) \in Cells(c) /\ ToSet(ns) = {Head(ns)} \cup ToSet(Tail(ns))
  BY Taken
<1>2. \A v \in vis \ ToSet(q), n \in Cells(c) :
        <<v, n>> \in Adjacent4(c) =>
          \/ n \in ToSet(Tail(ns))
          \/ (n \in Free(c) => n \in vis) /\ (n \in Edge(c) => n \in flag2)
  <2>. TAKE v \in vis \ ToSet(q), n \in Cells(c)
  <2>1. CASE n = Head(ns)
    BY <2>1
  <2>2. CASE n # Head(ns)
    BY <1>1, <2>2 DEF Floods
  <2>. QED
    BY <2>1, <2>2
<1>3. \A n \in ToSet(Tail(ns)) : <<of, n>> \in Adjacent4(c)
  BY <1>1 DEF Floods
<1>. QED
  BY <1>2, <1>3 DEF Floods

\* Grows
LEMMA FloodsFlags ==
  ASSUME NEW c, NEW p, NEW q, NEW vis, NEW of, NEW ns, NEW flag, NEW flag2,
         flag \subseteq flag2, Floods(c, p, q, vis, of, ns, flag)
  PROVE  Floods(c, p, q, vis, of, ns, flag2)
BY DEF Floods

\* Returns
LEMMA FloodsRoom ==
  ASSUME NEW c, NEW p, NEW vis, NEW of, NEW flag, Floods(c, p, <<>>, vis, of, <<>>, flag)
  PROVE  /\ IsNearestRoom(c, p, vis)
         /\ \A v \in vis, n \in Edge(c) : <<v, n>> \in Adjacent4(c) => n \in flag
<1>. HIDE DEF Cells
<1>1. \A v \in vis, n \in Cells(c) :
        <<v, n>> \in Adjacent4(c) => (n \in Free(c) => n \in vis) /\ (n \in Edge(c) => n \in flag)
  BY NothingQueued DEF Floods
<1>2. \A v \in vis, n \in Free(c) \ vis : <<v, n>> \notin Adjacent4(c)
  BY <1>1, EdgesOfGraphs
<1>3. IsComponent(vis, Free(c), Adjacent4(c))
  BY <1>2, ComponentIs DEF Floods
<1>4. \E j \in vis : \A k \in Free(c) : Moves(c, j, p) <= Moves(c, k, p)
  BY DEF Floods
<1>5. \A v \in vis, n \in Edge(c) : <<v, n>> \in Adjacent4(c) => n \in flag
  BY <1>1, EdgeIsNotFree
<1>. QED
  BY <1>3, <1>4, <1>5 DEF IsNearestRoom

-----------------------------------------------------------------------------
(* buildNewFrontier follows an edge                                        *)

\* F are the cells of the frontier, done those of the edges that were finished.
Follow(c, F, q, ns, done, vis) ==
  /\ F \subseteq Edge(c) /\ F \cap done = {}
  /\ Connected(F, Adjacent8(c))
  /\ ToSet(q) \subseteq F
  /\ \A v \in F \ ToSet(q), n \in Edge(c) : <<v, n>> \in Adjacent8(c) => n \in F \/ n \in ToSet(ns)
  /\ \E h \in F : \A n \in ToSet(ns) : <<h, n>> \in Adjacent8(c)
  /\ \E i \in F, j \in vis : <<i, j>> \in Adjacent4(c)

LEMMA FollowStarts ==
  ASSUME NEW c, NEW x \in Edge(c), NEW done, x \notin done, NEW vis, NEW j \in vis,
         <<x, j>> \in Adjacent4(c)
  PROVE  Follow(c, {x}, <<x>>, <<>>, done, vis)
<1>. HIDE DEF Cells
<1>1. ToSet(<<x>>) = {x} /\ ToSet(<<>>) = {}
  BY OneQueued, NothingQueued
<1>. QED
  BY <1>1, ConnectedOne DEF Follow

\* Follows
LEMMA FollowTakes ==
  ASSUME NEW c, Sized(c), NEW F, NEW q \in Seq(Cells(c)), q # <<>>, NEW done, NEW vis,
         Follow(c, F, q, <<>>, done, vis)
  PROVE  Follow(c, F, Tail(q), nhood8(c, Head(q)), done, vis)
<1>. HIDE DEF Cells
<1>1. Head(q) \in Cells(c) /\ ToSet(q) = {Head(q)} \cup ToSet(Tail(q))
  BY Taken
<1>2. Head(q) \in F /\ ToSet(Tail(q)) \subseteq F
  BY <1>1 DEF Follow
<1>3. \A n : n \in ToSet(nhood8(c, Head(q))) <=> <<Head(q), n>> \in Adjacent8(c)
  BY <1>1, Neighbours8
<1>4. \A v \in F \ ToSet(Tail(q)), n \in Edge(c) :
        <<v, n>> \in Adjacent8(c) => n \in F \/ n \in ToSet(nhood8(c, Head(q)))
  <2>. TAKE v \in F \ ToSet(Tail(q)), n \in Edge(c)
  <2>1. CASE v = Head(q)
    BY <1>3, <2>1
  <2>2. CASE v # Head(q)
    BY <1>1, <2>2, NothingQueued DEF Follow
  <2>. QED
    BY <2>1, <2>2
<1>. QED
  BY <1>2, <1>3, <1>4 DEF Follow

\* Grows, by a cell and without one
LEMMA FollowGrows ==
  ASSUME NEW c, Sized(c), NEW F, NEW q \in Seq(Cells(c)), NEW done, NEW vis,
         NEW ns \in Seq(Cells(c)), ns # <<>>, Follow(c, F, q, ns, done, vis),
         Head(ns) \in Edge(c), Head(ns) \notin done
  PROVE  Follow(c, F \cup {Head(ns)}, Append(q, Head(ns)), Tail(ns), done, vis)
<1>. HIDE DEF Cells
<1>. DEFINE x == Head(ns)
            q2 == Append(q, x)
            F2 == F \cup {x}
<1>1. x \in Cells(c) /\ ToSet(ns) = {x} \cup ToSet(Tail(ns))
  BY Taken
<1>2. ToSet(q2) = ToSet(q) \cup {x}
  BY <1>1, Appended
<1>3. F2 \subseteq Edge(c) /\ F2 \cap done = {} /\ ToSet(q2) \subseteq F2
  BY <1>2 DEF Follow
<1>4. PICK h \in F : \A n \in ToSet(ns) : <<h, n>> \in Adjacent8(c)
  BY DEF Follow
<1>5. Connected(F2, Adjacent8(c))
  <2>1. <<h, x>> \in Adjacent8(c) /\ Connected(F, Adjacent8(c))
    BY <1>1, <1>4 DEF Follow
  <2>2. <<x, h>> \in Adjacent8(c)
    BY <2>1, Symmetric
  <2>. QED
    BY <2>1, <2>2, ConnectedGrows
<1>6. \A v \in F2 \ ToSet(q2), n \in Edge(c) :
        <<v, n>> \in Adjacent8(c) => n \in F2 \/ n \in ToSet(Tail(ns))
  <2>. TAKE v \in F2 \ ToSet(q2), n \in Edge(c)
  <2>1. v \in F \ ToSet(q)
    BY <1>2
  <2>2. <<v, n>> \in Adjacent8(c) => n \in F \/ n \in ToSet(ns)
    BY <2>1 DEF Follow
  <2>. QED
    BY <1>1, <2>2
<1>7. \E g \in F2 : \A n \in ToSet(Tail(ns)) : <<g, n>> \in Adjacent8(c)
  BY <1>1, <1>4
<1>8. \E i \in F2, j \in vis : <<i, j>> \in Adjacent4(c)
  BY DEF Follow
<1>. QED
  BY <1>3, <1>5, <1>6, <1>7, <1>8 DEF Follow

\* done holds with a cell all of the edge.
Whole(c, done) ==
  \A e \in done : \E S \in SUBSET done : e \in S /\ IsComponent(S, Edge(c), Adjacent8(c))

LEMMA FollowPasses ==
  ASSUME NEW c, Sized(c), NEW F, NEW q, NEW done, Whole(c, done), NEW vis,
         NEW ns \in Seq(Cells(c)), ns # <<>>, Follow(c, F, q, ns, done, vis),
         Head(ns) \in Edge(c) => Head(ns) \in F \cup done
  PROVE  Follow(c, F, q, Tail(ns), done, vis)
<1>. HIDE DEF Cells
<1>1. ToSet(ns) = {Head(ns)} \cup ToSet(Tail(ns))
  BY Taken
<1>2. \A v \in F, n \in done : <<v, n>> \notin Adjacent8(c)
  <2>. SUFFICES ASSUME NEW v \in F, NEW n \in done, <<v, n>> \in Adjacent8(c)
                PROVE  FALSE
    OBVIOUS
  <2>1. PICK S \in SUBSET done : n \in S /\ IsComponent(S, Edge(c), Adjacent8(c))
    BY DEF Whole
  <2>2. <<n, v>> \in Adjacent8(c)
    BY Symmetric
  <2>3. v \in Edge(c) /\ v \notin done
    BY DEF Follow
  <2>. QED
    BY <2>1, <2>2, <2>3 DEF IsComponent
<1>3. \A v \in F \ ToSet(q), n \in Edge(c) :
        <<v, n>> \in Adjacent8(c) => n \in F \/ n \in ToSet(Tail(ns))
  <2>. TAKE v \in F \ ToSet(q), n \in Edge(c)
  <2>1. <<v, n>> \in Adjacent8(c) => n \in F \/ n \in ToSet(ns)
    BY DEF Follow
  <2>. QED
    BY <1>1, <1>2, <2>1
<1>4. \E h \in F : \A n \in ToSet(Tail(ns)) : <<h, n>> \in Adjacent8(c)
  BY <1>1 DEF Follow
<1>. QED
  BY <1>3, <1>4 DEF Follow

\* Finishes
LEMMA FollowEnds ==
  ASSUME NEW c, NEW F, NEW done, NEW vis, Follow(c, F, <<>>, <<>>, done, vis)
  PROVE  /\ IsComponent(F, Edge(c), Adjacent8(c))
         /\ \E i \in F, j \in vis : <<i, j>> \in Adjacent4(c)
<1>1. \A v \in F, n \in Edge(c) \ F : <<v, n>> \notin Adjacent8(c)
  BY NothingQueued DEF Follow
<1>. QED
  BY <1>1, ComponentIs DEF Follow

\* Advances: what was visited is more, never less.
LEMMA FollowVisits ==
  ASSUME NEW c, NEW F, NEW q, NEW ns, NEW done, NEW vis, NEW vis2, vis \subseteq vis2,
         Follow(c, F, q, ns, done, vis)
  PROVE  Follow(c, F, q, ns, done, vis2)
BY DEF Follow

-----------------------------------------------------------------------------
(* The list of frontiers                                                   *)

Found(list) == {CellsOf(list[i]) : i \in DOMAIN list}

\* The frontiers listed are edges around what was visited, no two the same, and an
\* edge that is done is listed when it is large enough.
Lists(c, list, done, vis) ==
  /\ done \subseteq Edge(c)
  /\ \A i \in DOMAIN list : CellsOf(list[i]) \subseteq done /\ CellsOf(list[i]) \in Bordering(c, vis)
  /\ \A i, j \in DOMAIN list : CellsOf(list[i]) = CellsOf(list[j]) => i = j
  /\ \A e \in done : \E S \in SUBSET done :
       /\ e \in S /\ IsComponent(S, Edge(c), Adjacent8(c))
       /\ Cardinality(S) >= MinSize => S \in Found(list)

LEMMA ListsNothing ==
  ASSUME NEW c, NEW vis
  PROVE  Lists(c, <<>>, {}, vis)
<1>1. DOMAIN <<>> = {}
  OBVIOUS
<1>. QED
  BY <1>1 DEF Lists

LEMMA ListsWhole ==
  ASSUME NEW c, NEW list, NEW done, NEW vis, Lists(c, list, done, vis)
  PROVE  Whole(c, done)
BY DEF Lists, Whole

LEMMA ListsVisits ==
  ASSUME NEW c, NEW list, NEW done, NEW vis, NEW vis2, vis \subseteq vis2,
         Lists(c, list, done, vis)
  PROVE  Lists(c, list, done, vis2)
<1>1. Bordering(c, vis) \subseteq Bordering(c, vis2)
  BY DEF Bordering
<1>. QED
  BY <1>1 DEF Lists

\* Finishes, with a frontier that is too small and with one that is not
LEMMA ListsSmall ==
  ASSUME NEW c, NEW list, NEW done, NEW vis, Lists(c, list, done, vis), NEW F,
         IsComponent(F, Edge(c), Adjacent8(c)), ~(Cardinality(F) >= MinSize)
  PROVE  Lists(c, list, done \cup F, vis)
<1>1. done \cup F \subseteq Edge(c)
  BY DEF Lists, IsComponent
<1>2. \A e \in done \cup F : \E S \in SUBSET (done \cup F) :
        /\ e \in S /\ IsComponent(S, Edge(c), Adjacent8(c))
        /\ Cardinality(S) >= MinSize => S \in Found(list)
  <2>. TAKE e \in done \cup F
  <2>1. CASE e \in done
    BY <2>1 DEF Lists
  <2>2. CASE e \in F
    BY <2>2
  <2>. QED
    BY <2>1, <2>2
<1>3. \A i \in DOMAIN list :
        CellsOf(list[i]) \subseteq done \cup F /\ CellsOf(list[i]) \in Bordering(c, vis)
  BY DEF Lists
<1>. QED
  BY <1>1, <1>2, <1>3 DEF Lists

LEMMA ListsLarge ==
  ASSUME NEW c, NEW list \in Seq(Frontiers(c)), NEW done, NEW vis, Lists(c, list, done, vis),
         NEW f \in Frontiers(c), CellsOf(f) \cap done = {},
         IsComponent(CellsOf(f), Edge(c), Adjacent8(c)), Cardinality(CellsOf(f)) >= MinSize,
         \E i \in CellsOf(f), j \in vis : <<i, j>> \in Adjacent4(c)
  PROVE  Lists(c, Append(list, f), done \cup CellsOf(f), vis)
<1>. DEFINE F == CellsOf(f)
            list2 == Append(list, f)
            done2 == done \cup F
<1>1. /\ Len(list) \in Nat /\ DOMAIN list = 1 .. Len(list) /\ DOMAIN list2 = 1 .. Len(list) + 1
      /\ \A n \in DOMAIN list : list2[n] = list[n]
      /\ list2[Len(list) + 1] = f
  <2>. HIDE DEF Frontiers
  <2>1. Append(list, f) \in Seq(Frontiers(c)) /\ Len(Append(list, f)) = Len(list) + 1
    BY AppendProperties
  <2>2. \A n \in 1 .. Len(list) : Append(list, f)[n] = list[n]
    BY AppendProperties
  <2>3. Append(list, f)[Len(list) + 1] = f
    BY AppendProperties
  <2>. QED
    BY <2>1, <2>2, <2>3
<1>. HIDE DEF list2, F
<1>2. \A n \in DOMAIN list2 : n \in DOMAIN list \/ n = Len(list) + 1
  BY <1>1
<1>3. DOMAIN list \subseteq DOMAIN list2 /\ Len(list) + 1 \in DOMAIN list2
  BY <1>1
<1>4. F \in Bordering(c, vis) /\ F # {} /\ F \subseteq Edge(c)
  BY DEF Bordering, IsComponent, F
<1>5. \A n \in DOMAIN list2 : CellsOf(list2[n]) \subseteq done2 /\ CellsOf(list2[n]) \in Bordering(c, vis)
  <2>. TAKE n \in DOMAIN list2
  <2>1. CASE n \in DOMAIN list
    BY <1>1, <2>1 DEF Lists
  <2>2. CASE n = Len(list) + 1
    BY <1>1, <1>4, <2>2 DEF F
  <2>. QED
    BY <1>2, <2>1, <2>2
<1>6. \A n \in DOMAIN list : CellsOf(list2[n]) # F
  <2>. TAKE n \in DOMAIN list
  <2>1. CellsOf(list[n]) \subseteq done
    BY DEF Lists
  <2>. QED
    BY <1>1, <1>4, <2>1 DEF F
<1>7. \A m, n \in DOMAIN list2 : CellsOf(list2[m]) = CellsOf(list2[n]) => m = n
  <2>. SUFFICES ASSUME NEW m \in DOMAIN list2, NEW n \in DOMAIN list2,
                       CellsOf(list2[m]) = CellsOf(list2[n])
                PROVE  m = n
    OBVIOUS
  <2>1. CellsOf(list2[Len(list) + 1]) = F
    BY <1>1 DEF F
  <2>2. CASE m \in DOMAIN list /\ n \in DOMAIN list
    BY <1>1, <2>2 DEF Lists
  <2>3. CASE m = Len(list) + 1 /\ n \in DOMAIN list
    BY <1>6, <2>1, <2>3
  <2>4. CASE m \in DOMAIN list /\ n = Len(list) + 1
    BY <1>6, <2>1, <2>4
  <2>5. CASE m = Len(list) + 1 /\ n = Len(list) + 1
    BY <2>5
  <2>. QED
    BY <1>2, <2>2, <2>3, <2>4, <2>5
<1>8. F \in Found(list2) /\ Found(list) \subseteq Found(list2)
  <2>1. F \in Found(list2)
    BY <1>1, <1>3 DEF Found, F
  <2>2. Found(list) \subseteq Found(list2)
    BY <1>1, <1>3 DEF Found
  <2>. QED
    BY <2>1, <2>2
<1>9. \A e \in done2 : \E S \in SUBSET done2 :
        /\ e \in S /\ IsComponent(S, Edge(c), Adjacent8(c))
        /\ Cardinality(S) >= MinSize => S \in Found(list2)
  <2>. TAKE e \in done2
  <2>1. CASE e \in done
    BY <1>8, <2>1 DEF Lists
  <2>2. CASE e \in F
    BY <1>8, <2>2 DEF F
  <2>. QED
    BY <2>1, <2>2
<1>10. done2 \subseteq Edge(c)
  BY <1>4 DEF Lists
<1>. QED
  BY <1>5, <1>7, <1>9, <1>10 DEF Lists, list2, F

\* At the end: what is listed is what borders the room.
LEMMA ListsAll ==
  ASSUME NEW c, Sized(c), NEW list, NEW done, NEW vis, Lists(c, list, done, vis),
         \A v \in vis, n \in Edge(c) : <<v, n>> \in Adjacent4(c) => n \in done
  PROVE  Found(list) = Bordering(c, vis)
<1>1. Found(list) \subseteq Bordering(c, vis)
  BY DEF Lists, Found
<1>2. Bordering(c, vis) \subseteq Found(list)
  <2>. SUFFICES ASSUME NEW e \in Bordering(c, vis)
                PROVE  e \in Found(list)
    OBVIOUS
  <2>1. /\ IsComponent(e, Edge(c), Adjacent8(c)) /\ Cardinality(e) >= MinSize
        /\ \E i \in e, j \in vis : <<i, j>> \in Adjacent4(c)
    BY DEF Bordering
  <2>2. PICK i \in e, j \in vis : <<i, j>> \in Adjacent4(c)
    BY <2>1
  <2>3. <<j, i>> \in Adjacent4(c) /\ i \in Edge(c)
    BY <2>1, <2>2, Symmetric DEF IsComponent
  <2>4. i \in done
    BY <2>3
  <2>5. PICK S \in SUBSET done : /\ i \in S /\ IsComponent(S, Edge(c), Adjacent8(c))
                                 /\ Cardinality(S) >= MinSize => S \in Found(list)
    BY <2>4 DEF Lists
  <2>6. e = S
    <3>1. e \cap S # {}
      BY <2>2, <2>5
    <3>. QED
      BY <2>1, <2>5, <3>1, ComponentsMeet
  <2>. QED
    BY <2>1, <2>5, <2>6
<1>. QED
  BY <1>1, <1>2

-----------------------------------------------------------------------------
(* The inductive invariant                                                 *)

NearestPart ==
  phase = "nearest" =>
    NearestFirst(map, pos, bfs, visited, nbr_of, nbrs) /\ flagged = {} /\ frontier_list = <<>>

\* Without a free cell there is no frontier.
BarePart ==
  Free(map) = {} => /\ phase # "build" /\ flagged = {}
                    /\ phase # "returned" => frontier_list = <<>>

FloodPart ==
  phase \in {"search", "build"} /\ Free(map) # {} =>
    Floods(map, pos, bfs, visited, nbr_of, nbrs, flagged)

ListPart ==
  /\ phase \in {"nearest", "search"} => edge_nbrs = <<>>
  /\ phase = "search" => Lists(map, frontier_list, flagged, visited)

\* The edges that are done, while another is followed.
Done == flagged \ CellsOf(frontier)

BuildPart ==
  phase = "build" =>
    /\ Lists(map, frontier_list, Done, visited)
    /\ CellsOf(frontier) \subseteq flagged
    /\ Follow(map, CellsOf(frontier), edge_bfs, edge_nbrs, Done, visited)
    /\ IsFiniteSet(CellsOf(frontier)) /\ Cardinality(CellsOf(frontier)) = Size(frontier)

SearchInv ==
  /\ TypeOK
  /\ pos # OffMap => NearestPart /\ BarePart /\ FloodPart /\ ListPart /\ BuildPart
  /\ SearchFindsEdges

\* Returns: the sorted list holds the same frontiers.
LEMMA Sorted ==
  ASSUME NEW c, NEW list \in Seq(Frontiers(c)), NEW p \in Bijection(DOMAIN list, DOMAIN list), NEW list2,
         list2 = [i \in DOMAIN list |-> list[p[i]]]
  PROVE  /\ list2 \in Seq(Frontiers(c)) /\ Found(list2) = Found(list)
         /\ (\A i, j \in DOMAIN list : CellsOf(list[i]) = CellsOf(list[j]) => i = j)
              => \A i, j \in DOMAIN list2 : CellsOf(list2[i]) = CellsOf(list2[j]) => i = j
<1>. DEFINE N == DOMAIN list
<1>1. Len(list) \in Nat /\ N = 1 .. Len(list)
  OBVIOUS
<1>2. p \in [N -> N] /\ \A v \in N : \E u \in N : p[u] = v
  BY DEF Bijection, Surjection
<1>. HIDE DEF Frontiers
<1>3. DOMAIN list2 = N /\ \A i \in N : list2[i] = list[p[i]] /\ p[i] \in N
  BY <1>2
<1>4. list2 \in Seq(Frontiers(c))
  <2>1. list2 \in [1 .. Len(list) -> Frontiers(c)]
    BY <1>1, <1>3
  <2>. QED
    BY <1>1, <2>1
<1>5. Found(list2) = Found(list)
  BY <1>2, <1>3 DEF Found
<1>6. \A i, j \in N : p[i] = p[j] => i = j
  BY DEF Bijection, Injection, IsInjective
<1>7. ASSUME \A i, j \in DOMAIN list : CellsOf(list[i]) = CellsOf(list[j]) => i = j,
             NEW i \in DOMAIN list2, NEW j \in DOMAIN list2, CellsOf(list2[i]) = CellsOf(list2[j])
      PROVE  i = j
  BY <1>3, <1>6, <1>7
<1>. QED
  BY <1>4, <1>5, <1>7

-----------------------------------------------------------------------------
(* Types                                                                   *)

LEMMA Nowhere ==
  ASSUME NEW c, NEW i \in Cells(c)
  PROVE  i # OffMap
BY DEF Cells, OffMap

\* What the steps of a search start from.
LEMMA OnTheMap ==
  ASSUME TypeOK, phase # "returned"
  PROVE  /\ Sized(map) /\ pos \in Cells(map) /\ pos # OffMap
         /\ map.cost \in [Cells(map) -> 0 .. 255]
         /\ visited \in SUBSET Cells(map) /\ flagged \in SUBSET Cells(map) /\ nbr_of \in Cells(map)
         /\ bfs \in Seq(Cells(map)) /\ nbrs \in Seq(Cells(map))
         /\ edge_bfs \in Seq(Cells(map)) /\ edge_nbrs \in Seq(Cells(map))
         /\ frontier \in Frontiers(map) /\ frontier_list \in Seq(Frontiers(map))
<1>. HIDE DEF Cells, Frontiers
<1>. QED
  BY DEF TypeOK, Sized

LEMMA TypeFrom ==
  ASSUME Sized(map'), map'.cost \in [Cells(map') -> 0 .. 255],
         pos' \in Cells(map'), phase' \in {"nearest", "search", "build", "returned"},
         visited' \in SUBSET Cells(map'), flagged' \in SUBSET Cells(map'), nbr_of' \in Cells(map'),
         bfs' \in Seq(Cells(map')), nbrs' \in Seq(Cells(map')),
         edge_bfs' \in Seq(Cells(map')), edge_nbrs' \in Seq(Cells(map')),
         frontier' \in Frontiers(map'), frontier_list' \in Seq(Frontiers(map'))
  PROVE  TypeOK'
<1>1. pos' # OffMap
  BY Nowhere
<1>. HIDE DEF Cells, Frontiers
<1>. QED
  BY <1>1 DEF TypeOK, Sized

LEMMA TypeInit ==
  ASSUME Init
  PROVE  TypeOK
<1>1. PICK k \in Calls : map = k.map /\ pos = k.pos
  BY DEF Init
<1>2. /\ map.w \in Nat \ {0} /\ map.h \in Nat \ {0}
      /\ map.cost \in [Cells(map) -> 0 .. 255]
      /\ pos \in Cells(map) \cup {OffMap}
  BY <1>1, FrontierSearchAssumption
<1>3. CASE pos = OffMap
  BY <1>2, <1>3 DEF Init, TypeOK
<1>4. CASE pos # OffMap
  <2>1. pos \in Cells(map)
    BY <1>2, <1>4
  <2>2. phase = "nearest"
    BY <1>4 DEF Init
  <2>. HIDE DEF Cells
  <2>3. <<pos>> \in Seq(Cells(map)) /\ <<>> \in Seq(Cells(map)) /\ <<>> \in Seq(Frontiers(map))
    BY <2>1
  <2>4. frontier \in Frontiers(map)
    BY <2>1, <2>3 DEF Init, Frontiers
  <2>. HIDE DEF Frontiers
  <2>. QED
    BY <1>2, <1>4, <2>1, <2>2, <2>3, <2>4 DEF Init, TypeOK
<1>. QED
  BY <1>3, <1>4

LEMMA TypeNext ==
  ASSUME TypeOK, [Next]_vars
  PROVE  TypeOK'
<1>1. CASE UNCHANGED vars
  BY <1>1 DEF vars, call, search, build, TypeOK
<1>2. CASE Next
  <2>. USE OnTheMap
  <2>. HIDE DEF Cells, Frontiers
  <2>1. CASE NoneIsClear
    <3>1. <<pos>> \in Seq(Cells(map)) /\ {pos} \in SUBSET Cells(map)
      BY <2>1 DEF NoneIsClear
    <3>. QED
      BY <2>1, <3>1, TypeFrom DEF NoneIsClear, SearchStarts, call, build
  <2>2. CASE FindsClear
    <3>1. Head(bfs) \in Cells(map)
      BY <2>2, Taken DEF FindsClear
    <3>2. <<Head(bfs)>> \in Seq(Cells(map)) /\ {Head(bfs)} \in SUBSET Cells(map)
      BY <3>1
    <3>. QED
      BY <2>2, <3>2, TypeFrom DEF FindsClear, SearchStarts, call, build
  <2>3. CASE LooksAround
    <3>1. Head(bfs) \in Cells(map) /\ Tail(bfs) \in Seq(Cells(map))
      BY <2>3, Taken DEF LooksAround
    <3>2. nhood8(map, Head(bfs)) \in Seq(Cells(map))
      BY <2>3, <3>1, Around8 DEF LooksAround
    <3>. QED
      BY <2>3, <3>1, <3>2, TypeFrom DEF LooksAround, TakesCell, call, build
  <2>4. CASE Reaches
    <3>1. Head(nbrs) \in Cells(map) /\ Tail(nbrs) \in Seq(Cells(map))
      BY <2>4, Taken DEF Reaches
    <3>2. Append(bfs, Head(nbrs)) \in Seq(Cells(map))
      BY <2>4, <3>1, Appended DEF Reaches
    <3>3. bfs' \in Seq(Cells(map)) /\ visited' \in SUBSET Cells(map)
      BY <2>4, <3>1, <3>2 DEF Reaches, Visits
    <3>. QED
      BY <2>4, <3>1, <3>3, TypeFrom DEF Reaches, call, build
  <2>5. CASE Expands
    <3>1. Head(bfs) \in Cells(map) /\ Tail(bfs) \in Seq(Cells(map))
      BY <2>5, Taken DEF Expands
    <3>2. nhood4(map, Head(bfs)) \in Seq(Cells(map))
      BY <2>5, <3>1, Around4 DEF Expands
    <3>. QED
      BY <2>5, <3>1, <3>2, TypeFrom DEF Expands, TakesCell, call, build
  <2>6. CASE Advances
    <3>1. Head(nbrs) \in Cells(map) /\ Tail(nbrs) \in Seq(Cells(map))
      BY <2>6, Taken DEF Advances
    <3>2. Append(bfs, Head(nbrs)) \in Seq(Cells(map)) /\ visited' \in SUBSET Cells(map)
      BY <2>6, <3>1, Appended DEF Advances, Visits
    <3>. QED
      BY <2>6, <3>1, <3>2, TypeFrom DEF Advances, Visits, call, build
  <2>7. CASE MeetsFrontier
    <3>1. Head(nbrs) \in Cells(map) /\ Tail(nbrs) \in Seq(Cells(map))
      BY <2>7, Taken DEF MeetsFrontier
    <3>2. <<Head(nbrs)>> \in Seq(Cells(map)) /\ flagged' \in SUBSET Cells(map)
      BY <2>7, <3>1 DEF MeetsFrontier
    <3>3. frontier' \in Frontiers(map)
      BY <2>7, <3>1 DEF MeetsFrontier, Frontiers
    <3>. QED
      BY <2>7, <3>1, <3>2, <3>3, TypeFrom DEF MeetsFrontier, call
  <2>8. CASE PassesBy
    <3>1. Tail(nbrs) \in Seq(Cells(map))
      BY <2>8, Taken DEF PassesBy
    <3>. QED
      BY <2>8, <3>1, TypeFrom DEF PassesBy, call, build
  <2>9. CASE Returns
    <3>1. PICK p \in Bijection(DOMAIN frontier_list, DOMAIN frontier_list) :
            frontier_list' = [i \in DOMAIN frontier_list |-> frontier_list[p[i]]]
      BY <2>9 DEF Returns
    <3>2. frontier_list' \in Seq(Frontiers(map))
      BY <2>9, <3>1, Sorted DEF Returns
    <3>. QED
      BY <2>9, <3>2, TypeFrom DEF Returns, call, search, build
  <2>10. CASE Follows
    <3>1. Head(edge_bfs) \in Cells(map) /\ Tail(edge_bfs) \in Seq(Cells(map))
      BY <2>10, Taken DEF Follows
    <3>2. nhood8(map, Head(edge_bfs)) \in Seq(Cells(map))
      BY <2>10, <3>1, Around8 DEF Follows
    <3>. QED
      BY <2>10, <3>1, <3>2, TypeFrom DEF Follows, call, search
  <2>11. CASE Grows
    <3>1. Head(edge_nbrs) \in Cells(map) /\ Tail(edge_nbrs) \in Seq(Cells(map))
      BY <2>11, Taken DEF Grows
    <3>2. Append(edge_bfs, Head(edge_nbrs)) \in Seq(Cells(map))
      BY <2>11, <3>1, Appended DEF Grows
    <3>3. frontier' \in Frontiers(map)
      <4>1. [frontier EXCEPT !.points = Append(@, Head(edge_nbrs))] \in Frontiers(map)
        <5>1. frontier.points \in Seq(Cells(map))
          BY <2>11 DEF Grows, Frontiers
        <5>2. Append(frontier.points, Head(edge_nbrs)) \in Seq(Cells(map))
          BY <3>1, <5>1, Appended
        <5>. QED
          BY <2>11, <5>2 DEF Grows, Frontiers
      <4>. QED
        BY <2>11, <4>1 DEF Grows
    <3>4. flagged' \in SUBSET Cells(map) /\ edge_bfs' \in Seq(Cells(map))
      BY <2>11, <3>1, <3>2 DEF Grows
    <3>. QED
      BY <2>11, <3>1, <3>3, <3>4, TypeFrom DEF Grows, call, search
  <2>12. CASE Finishes
    <3>1. Append(frontier_list, frontier) \in Seq(Frontiers(map))
      BY <2>12, AppendProperties DEF Finishes
    <3>2. frontier_list' \in Seq(Frontiers(map))
      BY <2>12, <3>1 DEF Finishes
    <3>. QED
      BY <2>12, <3>2, TypeFrom DEF Finishes, call, search, build
  <2>. QED
    BY <1>2, <2>1, <2>2, <2>3, <2>4, <2>5, <2>6, <2>7, <2>8, <2>9, <2>10, <2>11, <2>12
       DEF Next, NearestCell, SearchFrom, BuildNewFrontier
<1>. QED
  BY <1>1, <1>2

-----------------------------------------------------------------------------
(* The invariant is kept                                                   *)

LEMMA SearchInvInit ==
  ASSUME Init
  PROVE  SearchInv
<1>1. TypeOK
  BY TypeInit
<1>2. CASE pos = OffMap
  <2>1. frontier_list = <<>>
    BY DEF Init
  <2>2. DOMAIN frontier_list = {}
    BY <2>1
  <2>3. SearchFindsEdges
    BY <1>2, <2>2 DEF SearchFindsEdges
  <2>. QED
    BY <1>1, <1>2, <2>3 DEF SearchInv
<1>3. CASE pos # OffMap
  <2>1. phase = "nearest"
    BY <1>3 DEF Init
  <2>2. Sized(map) /\ pos \in Cells(map)
    BY <1>1, <2>1, OnTheMap
  <2>3. NearestFirst(map, pos, bfs, visited, nbr_of, nbrs)
    BY <2>2, NearestFirstStarts DEF Init
  <2>4. flagged = {} /\ frontier_list = <<>> /\ edge_nbrs = <<>>
    BY DEF Init
  <2>5. NearestPart /\ BarePart /\ FloodPart /\ ListPart /\ BuildPart
    BY <2>1, <2>3, <2>4 DEF NearestPart, BarePart, FloodPart, ListPart, BuildPart
  <2>6. SearchFindsEdges
    BY <2>1 DEF SearchFindsEdges
  <2>. QED
    BY <1>1, <2>5, <2>6 DEF SearchInv
<1>. QED
  BY <1>2, <1>3

\* nearestCell ends with a free cell nearest to the robot.
LEMMA SearchInvFindsClear ==
  ASSUME SearchInv, TypeOK', FindsClear
  PROVE  SearchInv'
<1>. HIDE DEF Cells
<1>. DEFINE h == Head(bfs)
<1>1. phase = "nearest" /\ nbrs = <<>> /\ bfs # <<>> /\ map.cost[h] = FREE_SPACE
  BY DEF FindsClear
<1>2. /\ phase' = "search" /\ bfs' = <<h>> /\ visited' = {h}
      /\ map' = map /\ pos' = pos /\ nbr_of' = nbr_of /\ nbrs' = <<>> /\ flagged' = flagged
      /\ edge_nbrs' = edge_nbrs /\ frontier_list' = frontier_list
  BY <1>1 DEF FindsClear, SearchStarts, call, build
<1>3. /\ Sized(map) /\ pos \in Cells(map) /\ pos # OffMap
      /\ bfs \in Seq(Cells(map)) /\ visited \in SUBSET Cells(map) /\ nbr_of \in Cells(map)
  BY <1>1, OnTheMap DEF SearchInv
<1>4. /\ NearestFirst(map, pos, bfs, visited, nbr_of, nbrs)
      /\ flagged = {} /\ frontier_list = <<>> /\ edge_nbrs = <<>>
  BY <1>1, <1>3 DEF SearchInv, NearestPart, ListPart
<1>5. h \in Free(map)
  <2>1. h \in Cells(map)
    BY <1>1, <1>3, Taken
  <2>. QED
    BY <1>1, <2>1, EdgeIsNotFree
<1>6. \A k \in Free(map) : Moves(map, h, pos) <= Moves(map, k, pos)
  BY <1>1, <1>3, <1>4, ClearIsNearest
<1>. HIDE DEF h
<1>7. Floods(map, pos, <<h>>, {h}, nbr_of, <<>>, flagged)
  BY <1>5, <1>6, FloodsStarts
<1>8. Lists(map, <<>>, {}, {h})
  BY ListsNothing
<1>9. NearestPart' /\ BarePart' /\ BuildPart' /\ SearchFindsEdges'
  BY <1>2, <1>5 DEF NearestPart, BarePart, BuildPart, SearchFindsEdges
<1>10. FloodPart'
  BY <1>2, <1>7 DEF FloodPart
<1>11. ListPart'
  BY <1>2, <1>4, <1>8 DEF ListPart
<1>. QED
  BY <1>9, <1>10, <1>11 DEF SearchInv

LEMMA SearchInvNoneIsClear ==
  ASSUME SearchInv, TypeOK', NoneIsClear
  PROVE  SearchInv'
<1>. HIDE DEF Cells
<1>1. phase = "nearest" /\ nbrs = <<>> /\ bfs = <<>>
  BY DEF NoneIsClear
<1>2. /\ phase' = "search" /\ visited' = {pos}
      /\ map' = map /\ pos' = pos /\ flagged' = flagged
      /\ edge_nbrs' = edge_nbrs /\ frontier_list' = frontier_list
  BY DEF NoneIsClear, SearchStarts, call, build
<1>3. /\ Sized(map) /\ pos \in Cells(map) /\ pos # OffMap
      /\ visited \in SUBSET Cells(map) /\ nbr_of \in Cells(map)
  BY <1>1, OnTheMap DEF SearchInv
<1>4. /\ NearestFirst(map, pos, <<>>, visited, nbr_of, <<>>)
      /\ flagged = {} /\ frontier_list = <<>> /\ edge_nbrs = <<>>
  BY <1>1, <1>3 DEF SearchInv, NearestPart, ListPart
<1>5. Free(map) = {}
  BY <1>3, <1>4, NoneIsFree
<1>6. Lists(map, <<>>, {}, {pos})
  BY ListsNothing
<1>7. NearestPart' /\ BuildPart' /\ SearchFindsEdges'
  BY <1>2 DEF NearestPart, BuildPart, SearchFindsEdges
<1>8. BarePart' /\ FloodPart'
  BY <1>2, <1>4, <1>5 DEF BarePart, FloodPart
<1>9. ListPart'
  BY <1>2, <1>4, <1>6 DEF ListPart
<1>. QED
  BY <1>7, <1>8, <1>9 DEF SearchInv

\* The steps of nearestCell that go on.
LEMMA SearchInvNearest ==
  ASSUME SearchInv, TypeOK', LooksAround \/ Reaches
  PROVE  SearchInv'
<1>. HIDE DEF Cells
<1>1. phase = "nearest" /\ phase' = "nearest"
  BY DEF LooksAround, Reaches, TakesCell
<1>2. /\ map' = map /\ pos' = pos /\ flagged' = flagged
      /\ edge_nbrs' = edge_nbrs /\ frontier_list' = frontier_list
  BY DEF LooksAround, Reaches, TakesCell, call, build
<1>3. /\ Sized(map) /\ pos \in Cells(map) /\ pos # OffMap
      /\ bfs \in Seq(Cells(map)) /\ nbrs \in Seq(Cells(map))
      /\ visited \in SUBSET Cells(map) /\ nbr_of \in Cells(map)
  BY <1>1, OnTheMap DEF SearchInv
<1>4. /\ NearestFirst(map, pos, bfs, visited, nbr_of, nbrs)
      /\ flagged = {} /\ frontier_list = <<>> /\ edge_nbrs = <<>>
  BY <1>1, <1>3 DEF SearchInv, NearestPart, ListPart
<1>5. NearestFirst(map, pos, bfs', visited', nbr_of', nbrs')
  <2>1. CASE LooksAround
    <3>1. /\ bfs # <<>> /\ nbrs = <<>> /\ map.cost[Head(bfs)] # FREE_SPACE
          /\ nbr_of' = Head(bfs) /\ nbrs' = nhood8(map, Head(bfs)) /\ bfs' = Tail(bfs)
          /\ visited' = visited
      BY <2>1 DEF LooksAround, TakesCell
    <3>. QED
      BY <1>3, <1>4, <3>1, NearestFirstTakes
  <2>2. CASE Reaches /\ Head(nbrs) \in visited
    <3>1. nbrs # <<>> /\ nbrs' = Tail(nbrs) /\ bfs' = bfs /\ visited' = visited /\ nbr_of' = nbr_of
      BY <2>2 DEF Reaches
    <3>. QED
      BY <1>3, <1>4, <2>2, <3>1, NearestFirstPasses
  <2>3. CASE Reaches /\ Head(nbrs) \notin visited
    <3>1. /\ nbrs # <<>> /\ nbrs' = Tail(nbrs) /\ bfs' = Append(bfs, Head(nbrs))
          /\ visited' = visited \cup {Head(nbrs)} /\ nbr_of' = nbr_of
      BY <2>3 DEF Reaches, Visits
    <3>. QED
      BY <1>3, <1>4, <2>3, <3>1, NearestFirstVisits
  <2>. QED
    BY <2>1, <2>2, <2>3
<1>6. NearestPart' /\ BuildPart' /\ SearchFindsEdges'
  BY <1>1, <1>2, <1>4, <1>5 DEF NearestPart, BuildPart, SearchFindsEdges
<1>7. BarePart' /\ FloodPart' /\ ListPart'
  BY <1>1, <1>2, <1>4 DEF BarePart, FloodPart, ListPart
<1>. QED
  BY <1>6, <1>7 DEF SearchInv

LEMMA SearchInvExpands ==
  ASSUME SearchInv, TypeOK', Expands
  PROVE  SearchInv'
<1>. HIDE DEF Cells
<1>1. /\ phase = "search" /\ nbrs = <<>> /\ bfs # <<>> /\ phase' = "search"
      /\ nbr_of' = Head(bfs) /\ nbrs' = nhood4(map, Head(bfs)) /\ bfs' = Tail(bfs)
      /\ map' = map /\ pos' = pos /\ visited' = visited /\ flagged' = flagged
      /\ edge_nbrs' = edge_nbrs /\ frontier_list' = frontier_list
  BY DEF Expands, TakesCell, call, build
<1>2. /\ Sized(map) /\ pos \in Cells(map) /\ pos # OffMap /\ bfs \in Seq(Cells(map))
  BY <1>1, OnTheMap DEF SearchInv
<1>3. BarePart /\ FloodPart /\ ListPart
  BY <1>2 DEF SearchInv
<1>4. ASSUME Free(map) # {}
      PROVE  Floods(map, pos, bfs', visited, nbr_of', nbrs', flagged)
  <2>1. Floods(map, pos, bfs, visited, nbr_of, <<>>, flagged)
    BY <1>1, <1>3, <1>4 DEF FloodPart
  <2>2. Floods(map, pos, Tail(bfs), visited, Head(bfs), nhood4(map, Head(bfs)), flagged)
    BY <1>1, <1>2, <2>1, FloodsTakes
  <2>. QED
    BY <1>1, <2>2
<1>5. NearestPart' /\ BuildPart' /\ SearchFindsEdges'
  BY <1>1 DEF NearestPart, BuildPart, SearchFindsEdges
<1>6. BarePart' /\ ListPart'
  BY <1>1, <1>3 DEF BarePart, ListPart
<1>7. FloodPart'
  BY <1>1, <1>4 DEF FloodPart
<1>. QED
  BY <1>5, <1>6, <1>7 DEF SearchInv

LEMMA SearchInvAdvances ==
  ASSUME SearchInv, TypeOK', Advances
  PROVE  SearchInv'
<1>. HIDE DEF Cells
<1>. DEFINE h == Head(nbrs)
<1>1. /\ phase = "search" /\ nbrs # <<>> /\ phase' = "search"
      /\ map.cost[h] <= map.cost[nbr_of] /\ nbrs' = Tail(nbrs)
      /\ visited' = visited \cup {h} /\ bfs' = Append(bfs, h)
      /\ map' = map /\ pos' = pos /\ nbr_of' = nbr_of /\ flagged' = flagged
      /\ edge_nbrs' = edge_nbrs /\ frontier_list' = frontier_list
  BY DEF Advances, Visits, Descends, call, build
<1>2. /\ Sized(map) /\ pos \in Cells(map) /\ pos # OffMap /\ bfs \in Seq(Cells(map))
      /\ nbrs \in Seq(Cells(map)) /\ map.cost \in [Cells(map) -> 0 .. 255]
      /\ nbr_of \in Cells(map)
  BY <1>1, OnTheMap DEF SearchInv
<1>3. BarePart /\ FloodPart /\ ListPart
  BY <1>2 DEF SearchInv
<1>4. h \in Cells(map)
  BY <1>1, <1>2, Taken
<1>. HIDE DEF h
<1>5. ASSUME Free(map) # {}
      PROVE  Floods(map, pos, bfs', visited', nbr_of', nbrs', flagged)
  <2>1. Floods(map, pos, bfs, visited, nbr_of, nbrs, flagged)
    BY <1>1, <1>3, <1>5 DEF FloodPart
  <2>2. nbr_of \in Free(map)
    BY <1>1, <2>1 DEF Floods
  <2>3. map.cost[nbr_of] = 0
    BY <2>2, EdgeIsNotFree DEF FREE_SPACE
  <2>4. map.cost[h] \in 0 .. 255
    BY <1>2, <1>4
  <2>5. h \in Free(map)
    <3>1. map.cost[h] <= map.cost[nbr_of]
      BY <1>1
    <3>2. map.cost[h] = 0
      BY <2>3, <2>4, <3>1
    <3>. QED
      BY <1>4, <3>2, EdgeIsNotFree DEF FREE_SPACE
  <2>6. Floods(map, pos, Append(bfs, h), visited \cup {h}, nbr_of, Tail(nbrs), flagged)
    BY <1>1, <1>2, <2>1, <2>5, FloodsVisits DEF h
  <2>. QED
    BY <1>1, <2>6
<1>6. Lists(map, frontier_list, flagged, visited')
  <2>1. Lists(map, frontier_list, flagged, visited) /\ visited \subseteq visited'
    BY <1>1, <1>3 DEF ListPart
  <2>2. Lists(map, frontier_list, flagged, visited \cup {h})
    BY <2>1, ListsVisits
  <2>. QED
    BY <1>1, <2>2
<1>7. NearestPart' /\ BuildPart' /\ SearchFindsEdges'
  BY <1>1 DEF NearestPart, BuildPart, SearchFindsEdges
<1>8. BarePart' /\ ListPart'
  BY <1>1, <1>3, <1>6 DEF BarePart, ListPart
<1>9. FloodPart'
  BY <1>1, <1>5 DEF FloodPart
<1>. QED
  BY <1>7, <1>8, <1>9 DEF SearchInv

LEMMA NewFrontierCell ==
  ASSUME NEW h \in Cells(map), Sized(map)
  PROVE  IsNewFrontierCell(h) <=> h \in Edge(map) /\ h \notin flagged
<1>. HIDE DEF Cells
<1>. QED
  BY FrontierCells DEF IsNewFrontierCell

LEMMA SearchInvPassesBy ==
  ASSUME SearchInv, TypeOK', PassesBy
  PROVE  SearchInv'
<1>. HIDE DEF Cells
<1>. DEFINE h == Head(nbrs)
<1>1. /\ phase = "search" /\ nbrs # <<>> /\ phase' = "search"
      /\ ~Descends(h) /\ ~IsNewFrontierCell(h) /\ nbrs' = Tail(nbrs)
      /\ visited' = visited /\ bfs' = bfs
      /\ map' = map /\ pos' = pos /\ nbr_of' = nbr_of /\ flagged' = flagged
      /\ edge_nbrs' = edge_nbrs /\ frontier_list' = frontier_list
  BY DEF PassesBy, call, build
<1>2. /\ Sized(map) /\ pos \in Cells(map) /\ pos # OffMap /\ bfs \in Seq(Cells(map))
      /\ nbrs \in Seq(Cells(map)) /\ nbr_of \in Cells(map)
  BY <1>1, OnTheMap DEF SearchInv
<1>3. BarePart /\ FloodPart /\ ListPart
  BY <1>2 DEF SearchInv
<1>4. h \in Cells(map)
  BY <1>1, <1>2, Taken
<1>. HIDE DEF h
<1>5. ASSUME Free(map) # {}
      PROVE  Floods(map, pos, bfs, visited, nbr_of, nbrs', flagged)
  <2>1. Floods(map, pos, bfs, visited, nbr_of, nbrs, flagged)
    BY <1>1, <1>3, <1>5 DEF FloodPart
  <2>2. nbr_of \in Free(map)
    BY <1>1, <2>1 DEF Floods
  <2>3. map.cost[nbr_of] = 0
    BY <2>2, EdgeIsNotFree DEF FREE_SPACE
  <2>4. h \in Free(map) => h \in visited
    <3>1. h \in Free(map) => map.cost[h] = 0
      BY EdgeIsNotFree DEF FREE_SPACE
    <3>. QED
      BY <1>1, <2>3, <3>1 DEF Descends
  <2>5. h \in Edge(map) => h \in flagged
    BY <1>1, <1>2, <1>4, NewFrontierCell
  <2>6. Floods(map, pos, bfs, visited, nbr_of, Tail(nbrs), flagged)
    BY <1>1, <1>2, <2>1, <2>4, <2>5, FloodsPasses DEF h
  <2>. QED
    BY <1>1, <2>6
<1>6. NearestPart' /\ BuildPart' /\ SearchFindsEdges'
  BY <1>1 DEF NearestPart, BuildPart, SearchFindsEdges
<1>7. BarePart' /\ ListPart'
  BY <1>1, <1>3 DEF BarePart, ListPart
<1>8. FloodPart'
  BY <1>1, <1>5 DEF FloodPart
<1>. QED
  BY <1>6, <1>7, <1>8 DEF SearchInv

\* buildNewFrontier starts.
LEMMA SearchInvMeetsFrontier ==
  ASSUME SearchInv, TypeOK', MeetsFrontier
  PROVE  SearchInv'
<1>. HIDE DEF Cells
<1>. DEFINE h == Head(nbrs)
            f == [initial |-> h, points |-> <<>>]
<1>1. /\ phase = "search" /\ nbrs # <<>> /\ phase' = "build"
      /\ IsNewFrontierCell(h) /\ nbrs' = Tail(nbrs)
      /\ visited' = visited /\ bfs' = bfs
      /\ map' = map /\ pos' = pos /\ nbr_of' = nbr_of /\ flagged' = flagged \cup {h}
      /\ frontier' = f /\ edge_bfs' = <<h>>
      /\ edge_nbrs' = edge_nbrs /\ frontier_list' = frontier_list
  BY DEF MeetsFrontier, call
<1>2. /\ Sized(map) /\ pos \in Cells(map) /\ pos # OffMap /\ bfs \in Seq(Cells(map))
      /\ nbrs \in Seq(Cells(map)) /\ nbr_of \in Cells(map)
  BY <1>1, OnTheMap DEF SearchInv
<1>3. BarePart /\ FloodPart /\ ListPart
  BY <1>2 DEF SearchInv
<1>4. h \in Cells(map) /\ h \in ToSet(nbrs)
  BY <1>1, <1>2, Taken
<1>5. CellsOf(f) = {h} /\ Size(f) = 1
  BY NothingQueued DEF CellsOf, Size
<1>. HIDE DEF h, f
<1>6. h \in Edge(map) /\ h \notin flagged /\ h \notin Free(map) /\ Free(map) # {}
  BY <1>1, <1>2, <1>4, NewFrontierCell, EdgeIsNotFree
<1>7. Floods(map, pos, bfs, visited, nbr_of, nbrs, flagged)
  BY <1>1, <1>3, <1>6 DEF FloodPart
<1>8. Floods(map, pos, bfs, visited, nbr_of, Tail(nbrs), flagged \cup {h})
  <2>1. flagged \subseteq flagged \cup {h} /\ h \in flagged \cup {h}
    OBVIOUS
  <2>. HIDE DEF Floods
  <2>2. h \in Free(map) => h \in visited
    BY <1>6
  <2>. QED
    BY <1>1, <1>2, <1>7, <2>1, <2>2, FloodsPasses DEF h
<1>9. Done' = flagged
  BY <1>1, <1>5, <1>6 DEF Done
<1>10. Follow(map, {h}, <<h>>, <<>>, flagged, visited)
  <2>1. nbr_of \in visited /\ <<nbr_of, h>> \in Adjacent4(map)
    BY <1>1, <1>4, <1>7 DEF Floods
  <2>2. <<h, nbr_of>> \in Adjacent4(map)
    BY <1>2, <2>1, Symmetric
  <2>. QED
    BY <1>6, <2>1, <2>2, FollowStarts
<1>11. edge_nbrs = <<>> /\ Lists(map, frontier_list, flagged, visited)
  BY <1>1, <1>3 DEF ListPart
<1>12. IsFiniteSet({h}) /\ Cardinality({h}) = 1
  BY FS_Singleton
<1>13. BuildPart'
  <2>1. CellsOf(frontier') = {h} /\ Size(frontier') = 1
    BY <1>1, <1>5
  <2>2. {h} \subseteq flagged'
    BY <1>1
  <2>. QED
    BY <1>1, <1>9, <1>10, <1>11, <1>12, <2>1, <2>2 DEF BuildPart
<1>14. NearestPart' /\ BarePart' /\ ListPart' /\ SearchFindsEdges'
  BY <1>1, <1>6 DEF NearestPart, BarePart, ListPart, SearchFindsEdges
<1>15. FloodPart'
  BY <1>1, <1>8 DEF FloodPart
<1>. QED
  BY <1>13, <1>14, <1>15 DEF SearchInv

LEMMA SearchInvFollows ==
  ASSUME SearchInv, TypeOK', Follows
  PROVE  SearchInv'
<1>. HIDE DEF Cells
<1>1. /\ phase = "build" /\ edge_nbrs = <<>> /\ edge_bfs # <<>> /\ phase' = "build"
      /\ edge_nbrs' = nhood8(map, Head(edge_bfs)) /\ edge_bfs' = Tail(edge_bfs)
      /\ map' = map /\ pos' = pos
      /\ visited' = visited /\ bfs' = bfs /\ nbr_of' = nbr_of /\ nbrs' = nbrs
      /\ flagged' = flagged /\ frontier' = frontier /\ frontier_list' = frontier_list
  BY DEF Follows, call, search
<1>2. /\ Sized(map) /\ pos \in Cells(map) /\ pos # OffMap /\ edge_bfs \in Seq(Cells(map))
  BY <1>1, OnTheMap DEF SearchInv
<1>3. BarePart /\ FloodPart /\ BuildPart
  BY <1>2 DEF SearchInv
<1>4. Follow(map, CellsOf(frontier), edge_bfs, <<>>, Done, visited)
  BY <1>1, <1>3 DEF BuildPart
<1>5. Follow(map, CellsOf(frontier), edge_bfs', edge_nbrs', Done, visited)
  <2>1. Follow(map, CellsOf(frontier), Tail(edge_bfs), nhood8(map, Head(edge_bfs)), Done, visited)
    BY <1>1, <1>2, <1>4, FollowTakes
  <2>. QED
    BY <1>1, <2>1
<1>6. Done' = Done
  BY <1>1 DEF Done
<1>7. BuildPart'
  BY <1>1, <1>3, <1>5, <1>6 DEF BuildPart
<1>8. NearestPart' /\ ListPart' /\ SearchFindsEdges'
  BY <1>1 DEF NearestPart, ListPart, SearchFindsEdges
<1>9. BarePart' /\ FloodPart'
  BY <1>1, <1>3 DEF BarePart, FloodPart
<1>. QED
  BY <1>7, <1>8, <1>9 DEF SearchInv

LEMMA SearchInvGrows ==
  ASSUME SearchInv, TypeOK', Grows
  PROVE  SearchInv'
<1>. HIDE DEF Cells
<1>. DEFINE h == Head(edge_nbrs)
            F == CellsOf(frontier)
            f == [frontier EXCEPT !.points = Append(@, h)]
<1>1. /\ phase = "build" /\ edge_nbrs # <<>> /\ phase' = "build"
      /\ edge_nbrs' = Tail(edge_nbrs)
      /\ map' = map /\ pos' = pos
      /\ visited' = visited /\ bfs' = bfs /\ nbr_of' = nbr_of /\ nbrs' = nbrs
      /\ frontier_list' = frontier_list
  BY DEF Grows, call, search
<1>2. /\ Sized(map) /\ pos \in Cells(map) /\ pos # OffMap /\ edge_bfs \in Seq(Cells(map))
      /\ edge_nbrs \in Seq(Cells(map)) /\ frontier \in Frontiers(map)
  BY <1>1, OnTheMap DEF SearchInv
<1>3. BarePart /\ FloodPart /\ BuildPart
  BY <1>2 DEF SearchInv
<1>4. /\ Lists(map, frontier_list, Done, visited)
      /\ F \subseteq flagged
      /\ Follow(map, F, edge_bfs, edge_nbrs, Done, visited)
      /\ IsFiniteSet(F) /\ Cardinality(F) = Size(frontier)
  BY <1>1, <1>3 DEF BuildPart
<1>5. h \in Cells(map)
  BY <1>1, <1>2, Taken
<1>6. IsNewFrontierCell(h) <=> h \in Edge(map) /\ h \notin flagged
  BY <1>2, <1>5, NewFrontierCell
<1>7. CellsOf(f) = F \cup {h} /\ Size(f) = Size(frontier) + 1 /\ Size(frontier) \in Nat
  <2>1. frontier.points \in Seq(Cells(map)) /\ frontier = [initial |-> frontier.initial, points |-> frontier.points]
    BY <1>2 DEF Frontiers
  <2>2. f.initial = frontier.initial /\ f.points = Append(frontier.points, h)
    BY <2>1
  <2>3. /\ ToSet(Append(frontier.points, h)) = ToSet(frontier.points) \cup {h}
        /\ Len(Append(frontier.points, h)) = Len(frontier.points) + 1
    BY <1>5, <2>1, Appended
  <2>4. Len(frontier.points) \in Nat
    BY <2>1
  <2>. HIDE DEF f, h
  <2>. QED
    BY <2>2, <2>3, <2>4 DEF CellsOf, Size
<1>. HIDE DEF h, f
<1>8. BuildPart' /\ flagged \subseteq flagged'
  <2>1. CASE IsNewFrontierCell(h)
    <3>1. flagged' = flagged \cup {h} /\ frontier' = f /\ edge_bfs' = Append(edge_bfs, h)
      BY <2>1 DEF Grows, h, f
    <3>2. CellsOf(frontier') = F \cup {h} /\ Size(frontier') = Size(frontier) + 1
      BY <1>7, <3>1
    <3>3. h \in Edge(map) /\ h \notin flagged
      BY <1>6, <2>1
    <3>4. Done' = Done /\ h \notin Done /\ CellsOf(frontier') \subseteq flagged'
      BY <1>4, <3>1, <3>2, <3>3 DEF Done
    <3>5. Follow(map, F \cup {h}, Append(edge_bfs, h), Tail(edge_nbrs), Done, visited)
      BY <1>1, <1>2, <1>4, <3>3, <3>4, FollowGrows DEF h
    <3>6. IsFiniteSet(F \cup {h}) /\ Cardinality(F \cup {h}) = Size(frontier) + 1
      <4>1. h \notin F
        BY <1>4, <3>3
      <4>. HIDE DEF F
      <4>. QED
        BY <1>4, <4>1, FS_AddElement
    <3>. QED
      BY <1>1, <1>4, <3>1, <3>2, <3>4, <3>5, <3>6 DEF BuildPart
  <2>2. CASE ~IsNewFrontierCell(h)
    <3>1. flagged' = flagged /\ frontier' = frontier /\ edge_bfs' = edge_bfs
      BY <2>2 DEF Grows, h
    <3>2. h \in Edge(map) => h \in F \cup Done
      BY <1>6, <2>2 DEF Done
    <3>3. Whole(map, Done)
      BY <1>4, ListsWhole
    <3>4. Follow(map, F, edge_bfs, Tail(edge_nbrs), Done, visited)
      BY <1>1, <1>2, <1>4, <3>2, <3>3, FollowPasses DEF h
    <3>5. Done' = Done
      BY <3>1 DEF Done
    <3>. QED
      BY <1>1, <1>4, <3>1, <3>4, <3>5 DEF BuildPart
  <2>. QED
    BY <2>1, <2>2
<1>9. NearestPart' /\ ListPart' /\ SearchFindsEdges'
  BY <1>1 DEF NearestPart, ListPart, SearchFindsEdges
<1>10. Free(map) # {}
  BY <1>1, <1>3 DEF BarePart
<1>11. Floods(map, pos, bfs, visited, nbr_of, nbrs, flagged')
  <2>1. Floods(map, pos, bfs, visited, nbr_of, nbrs, flagged)
    BY <1>1, <1>3, <1>10 DEF FloodPart
  <2>. QED
    BY <1>8, <2>1, FloodsFlags
<1>12. BarePart' /\ FloodPart'
  BY <1>1, <1>10, <1>11 DEF BarePart, FloodPart
<1>. QED
  BY <1>8, <1>9, <1>12 DEF SearchInv

\* buildNewFrontier ends.
LEMMA SearchInvFinishes ==
  ASSUME SearchInv, TypeOK', Finishes
  PROVE  SearchInv'
<1>. HIDE DEF Cells
<1>. DEFINE F == CellsOf(frontier)
<1>1. /\ phase = "build" /\ edge_nbrs = <<>> /\ edge_bfs = <<>> /\ phase' = "search"
      /\ frontier_list' = IF Size(frontier) >= MinSize THEN Append(frontier_list, frontier)
                                                       ELSE frontier_list
      /\ map' = map /\ pos' = pos
      /\ visited' = visited /\ bfs' = bfs /\ nbr_of' = nbr_of /\ nbrs' = nbrs
      /\ flagged' = flagged /\ edge_nbrs' = edge_nbrs
  BY DEF Finishes, call, search, build
<1>2. /\ pos # OffMap /\ frontier \in Frontiers(map) /\ frontier_list \in Seq(Frontiers(map))
  BY <1>1, OnTheMap DEF SearchInv
<1>3. BarePart /\ FloodPart /\ BuildPart
  BY <1>2 DEF SearchInv
<1>4. /\ Lists(map, frontier_list, Done, visited)
      /\ F \subseteq flagged
      /\ Follow(map, F, <<>>, <<>>, Done, visited)
      /\ Cardinality(F) = Size(frontier)
  BY <1>1, <1>3 DEF BuildPart
<1>5. /\ IsComponent(F, Edge(map), Adjacent8(map))
      /\ \E i \in F, j \in visited : <<i, j>> \in Adjacent4(map)
  BY <1>4, FollowEnds
<1>6. flagged = Done \cup F /\ F \cap Done = {}
  BY <1>4 DEF Done
<1>7. Lists(map, frontier_list', flagged, visited)
  <2>1. CASE Size(frontier) >= MinSize
    <3>1. Lists(map, Append(frontier_list, frontier), Done \cup F, visited)
      BY <1>2, <1>4, <1>5, <1>6, <2>1, ListsLarge
    <3>. QED
      BY <1>1, <1>6, <2>1, <3>1
  <2>2. CASE ~(Size(frontier) >= MinSize)
    <3>1. Lists(map, frontier_list, Done \cup F, visited)
      BY <1>4, <1>5, <2>2, ListsSmall
    <3>. QED
      BY <1>1, <1>6, <2>2, <3>1
  <2>. QED
    BY <2>1, <2>2
<1>8. NearestPart' /\ BuildPart' /\ SearchFindsEdges'
  BY <1>1 DEF NearestPart, BuildPart, SearchFindsEdges
<1>9. ListPart'
  BY <1>1, <1>7 DEF ListPart
<1>10. BarePart' /\ FloodPart'
  BY <1>1, <1>3 DEF BarePart, FloodPart
<1>. QED
  BY <1>8, <1>9, <1>10 DEF SearchInv

\* searchFrom returns.
LEMMA SearchInvReturns ==
  ASSUME SearchInv, TypeOK', Returns
  PROVE  SearchInv'
<1>. HIDE DEF Cells
<1>1. /\ phase = "search" /\ nbrs = <<>> /\ bfs = <<>> /\ phase' = "returned"
      /\ map' = map /\ pos' = pos /\ visited' = visited /\ flagged' = flagged
  BY DEF Returns, call, search, build
<1>2. PICK p \in Bijection(DOMAIN frontier_list, DOMAIN frontier_list) :
        frontier_list' = [i \in DOMAIN frontier_list |-> frontier_list[p[i]]]
  BY DEF Returns
<1>3. Sized(map) /\ pos # OffMap /\ frontier_list \in Seq(Frontiers(map))
  BY <1>1, OnTheMap DEF SearchInv
<1>4. BarePart /\ FloodPart /\ ListPart
  BY <1>3 DEF SearchInv
<1>5. Lists(map, frontier_list, flagged, visited)
  BY <1>1, <1>4 DEF ListPart
<1>6. \A i, j \in DOMAIN frontier_list :
        CellsOf(frontier_list[i]) = CellsOf(frontier_list[j]) => i = j
  BY <1>5 DEF Lists
<1>7. /\ Found(frontier_list') = Found(frontier_list)
      /\ \A i, j \in DOMAIN frontier_list' :
           CellsOf(frontier_list'[i]) = CellsOf(frontier_list'[j]) => i = j
  BY <1>2, <1>3, <1>6, Sorted
<1>8. ASSUME Free(map) = {}
      PROVE  Found(frontier_list) = {}
  <2>1. frontier_list = <<>>
    BY <1>1, <1>4, <1>8 DEF BarePart
  <2>2. DOMAIN frontier_list = {}
    BY <2>1
  <2>. QED
    BY <2>2 DEF Found
<1>9. ASSUME Free(map) # {}
      PROVE  /\ visited \in SUBSET Free(map) /\ IsNearestRoom(map, pos, visited)
             /\ Found(frontier_list) = Bordering(map, visited)
  <2>1. Floods(map, pos, <<>>, visited, nbr_of, <<>>, flagged)
    BY <1>1, <1>4, <1>9 DEF FloodPart
  <2>2. /\ IsNearestRoom(map, pos, visited)
        /\ \A v \in visited, n \in Edge(map) : <<v, n>> \in Adjacent4(map) => n \in flagged
    BY <2>1, FloodsRoom
  <2>3. Found(frontier_list) = Bordering(map, visited)
    BY <1>3, <1>5, <2>2, ListsAll
  <2>4. visited \in SUBSET Free(map)
    BY <2>1 DEF Floods
  <2>. QED
    BY <2>2, <2>3, <2>4
<1>10. SearchFindsEdges'
  <2>1. CASE Free(map) = {}
    BY <1>1, <1>7, <1>8, <2>1 DEF SearchFindsEdges, Found
  <2>2. CASE Free(map) # {}
    BY <1>1, <1>3, <1>7, <1>9, <2>2 DEF SearchFindsEdges, Found
  <2>. QED
    BY <2>1, <2>2
<1>11. NearestPart' /\ FloodPart' /\ ListPart' /\ BuildPart'
  BY <1>1 DEF NearestPart, FloodPart, ListPart, BuildPart
<1>12. BarePart'
  BY <1>1, <1>4 DEF BarePart
<1>. QED
  BY <1>10, <1>11, <1>12 DEF SearchInv

LEMMA SearchInvNext ==
  ASSUME SearchInv, [Next]_vars
  PROVE  SearchInv'
<1>1. TypeOK'
  BY TypeNext DEF SearchInv
<1>2. CASE UNCHANGED vars
  <2>1. /\ map' = map /\ pos' = pos /\ phase' = phase /\ bfs' = bfs /\ visited' = visited
        /\ nbr_of' = nbr_of /\ nbrs' = nbrs /\ flagged' = flagged /\ frontier' = frontier
        /\ edge_bfs' = edge_bfs /\ edge_nbrs' = edge_nbrs /\ frontier_list' = frontier_list
    BY <1>2 DEF vars, call, search, build
  <2>2. NearestPart => NearestPart'
    BY <2>1 DEF NearestPart
  <2>3. (BarePart => BarePart') /\ (FloodPart => FloodPart') /\ (ListPart => ListPart')
    BY <2>1 DEF BarePart, FloodPart, ListPart
  <2>4. BuildPart => BuildPart'
    BY <2>1 DEF BuildPart, Done
  <2>5. SearchFindsEdges'
    BY <2>1 DEF SearchInv, SearchFindsEdges
  <2>. QED
    BY <1>1, <2>1, <2>2, <2>3, <2>4, <2>5 DEF SearchInv
<1>3. CASE NearestCell
  BY <1>1, <1>3, SearchInvNoneIsClear, SearchInvFindsClear, SearchInvNearest DEF NearestCell
<1>4. CASE SearchFrom
  BY <1>1, <1>4, SearchInvExpands, SearchInvAdvances, SearchInvMeetsFrontier,
     SearchInvPassesBy, SearchInvReturns DEF SearchFrom
<1>5. CASE BuildNewFrontier
  BY <1>1, <1>5, SearchInvFollows, SearchInvGrows, SearchInvFinishes DEF BuildNewFrontier
<1>. QED
  BY <1>2, <1>3, <1>4, <1>5 DEF Next

-----------------------------------------------------------------------------
(* Less is left to do                                                      *)

LEMMA CellsLeft ==
  ASSUME NEW c, Sized(c), NEW vis \in SUBSET Cells(c)
  PROVE  /\ Cardinality(Cells(c)) \in Nat /\ Cardinality(Cells(c) \ vis) \in Nat
         /\ Cardinality(Cells(c) \ vis) <= Cardinality(Cells(c))
         /\ \A x \in Cells(c) \ vis :
              Cardinality(Cells(c) \ (vis \cup {x})) = Cardinality(Cells(c) \ vis) - 1
<1>1. IsFiniteSet(Cells(c))
  <2>1. c.w * c.h - 1 \in Int
    BY DEF Sized
  <2>. QED
    BY <2>1, FS_Interval DEF Cells
<1>. HIDE DEF Cells
<1>2. IsFiniteSet(Cells(c) \ vis) /\ Cardinality(Cells(c) \ vis) <= Cardinality(Cells(c))
  <2>1. Cells(c) \ vis \subseteq Cells(c)
    OBVIOUS
  <2>. QED
    BY <1>1, <2>1, FS_Subset
<1>3. Cardinality(Cells(c)) \in Nat /\ Cardinality(Cells(c) \ vis) \in Nat
  BY <1>1, <1>2, FS_CardinalityType
<1>4. ASSUME NEW x \in Cells(c) \ vis
      PROVE  Cardinality(Cells(c) \ (vis \cup {x})) = Cardinality(Cells(c) \ vis) - 1
  <2>1. Cells(c) \ (vis \cup {x}) = (Cells(c) \ vis) \ {x}
    OBVIOUS
  <2>. QED
    BY <1>2, <2>1, FS_RemoveElement
<1>. QED
  BY <1>2, <1>3, <1>4

LEMMA LeftIs ==
  /\ phase = "nearest" =>
       Remaining = 16 * Cardinality(Cells(map)) + 2 + 10 * Cardinality(Cells(map) \ visited)
                     + 9 * Len(bfs) + Len(nbrs)
  /\ phase = "search" =>
       Remaining = 1 + 6 * Cardinality(Cells(map) \ visited) + 5 * Len(bfs) + Len(nbrs)
                     + 10 * Cardinality(Cells(map) \ flagged)
  /\ phase = "build" =>
       Remaining = 2 + 6 * Cardinality(Cells(map) \ visited) + 5 * Len(bfs) + Len(nbrs)
                     + 10 * Cardinality(Cells(map) \ flagged) + 9 * Len(edge_bfs) + Len(edge_nbrs)
  /\ phase = "returned" => Remaining = 0
<1>. HIDE DEF Cells
<1>. QED
  BY DEF Remaining

LEMMA LeftIsThen ==
  /\ phase' = "nearest" =>
       Remaining' = 16 * Cardinality(Cells(map')) + 2 + 10 * Cardinality(Cells(map') \ visited')
                     + 9 * Len(bfs') + Len(nbrs')
  /\ phase' = "search" =>
       Remaining' = 1 + 6 * Cardinality(Cells(map') \ visited') + 5 * Len(bfs') + Len(nbrs')
                     + 10 * Cardinality(Cells(map') \ flagged')
  /\ phase' = "build" =>
       Remaining' = 2 + 6 * Cardinality(Cells(map') \ visited') + 5 * Len(bfs') + Len(nbrs')
                     + 10 * Cardinality(Cells(map') \ flagged') + 9 * Len(edge_bfs') + Len(edge_nbrs')
  /\ phase' = "returned" => Remaining' = 0
<1>. HIDE DEF Cells
<1>. QED
  BY DEF Remaining

LEMMA QueueLengths ==
  ASSUME NEW S, NEW q \in Seq(S)
  PROVE  Len(q) \in Nat
OBVIOUS

LEMMA RemainingIsNat ==
  ASSUME TypeOK
  PROVE  Remaining \in Nat
<1>. HIDE DEF Cells
<1>1. CASE phase = "returned"
  BY <1>1, LeftIs
<1>2. CASE phase # "returned"
  <2>1. /\ Sized(map) /\ visited \in SUBSET Cells(map) /\ flagged \in SUBSET Cells(map)
        /\ bfs \in Seq(Cells(map)) /\ nbrs \in Seq(Cells(map))
        /\ edge_bfs \in Seq(Cells(map)) /\ edge_nbrs \in Seq(Cells(map))
    BY <1>2, OnTheMap
  <2>2. /\ Cardinality(Cells(map)) \in Nat /\ Cardinality(Cells(map) \ visited) \in Nat
        /\ Cardinality(Cells(map) \ flagged) \in Nat
    BY <2>1, CellsLeft
  <2>3. /\ Len(bfs) \in Nat /\ Len(nbrs) \in Nat
        /\ Len(edge_bfs) \in Nat /\ Len(edge_nbrs) \in Nat
    BY <2>1, QueueLengths
  <2>4. phase \in {"nearest", "search", "build"}
    BY <1>2 DEF TypeOK
  <2>5. CASE phase = "nearest"
    BY <2>2, <2>3, <2>5, LeftIs
  <2>6. CASE phase = "search"
    BY <2>2, <2>3, <2>6, LeftIs
  <2>7. CASE phase = "build"
    BY <2>2, <2>3, <2>7, LeftIs
  <2>. QED
    BY <2>4, <2>5, <2>6, <2>7
<1>. QED
  BY <1>1, <1>2

LEMMA LessRemains ==
  ASSUME SearchInv, Next
  PROVE  Remaining' < Remaining
<1>. HIDE DEF Cells
<1>. DEFINE A == Cardinality(Cells(map))
            U == Cardinality(Cells(map) \ visited)
            G == Cardinality(Cells(map) \ flagged)
            b == Len(bfs)
            n == Len(nbrs)
            eb == Len(edge_bfs)
            en == Len(edge_nbrs)
<1>1. phase # "returned" /\ map' = map
  BY DEF Next, NearestCell, SearchFrom, BuildNewFrontier, NoneIsClear, FindsClear, LooksAround,
         Reaches, Expands, Advances, MeetsFrontier, PassesBy, Returns, Follows, Grows, Finishes,
         SearchStarts, TakesCell, call
<1>2. /\ Sized(map) /\ pos \in Cells(map) /\ pos # OffMap
      /\ visited \in SUBSET Cells(map) /\ flagged \in SUBSET Cells(map)
      /\ bfs \in Seq(Cells(map)) /\ nbrs \in Seq(Cells(map))
      /\ edge_bfs \in Seq(Cells(map)) /\ edge_nbrs \in Seq(Cells(map))
  BY <1>1, OnTheMap DEF SearchInv
<1>3. A \in Nat /\ U \in Nat /\ G \in Nat /\ G <= A
  BY <1>2, CellsLeft
<1>4. b \in Nat /\ n \in Nat /\ eb \in Nat /\ en \in Nat
  BY <1>2, QueueLengths
<1>5. \A x \in Cells(map) \ visited : Cardinality(Cells(map) \ (visited \cup {x})) = U - 1
  BY <1>2, CellsLeft
<1>6. \A x \in Cells(map) \ flagged : Cardinality(Cells(map) \ (flagged \cup {x})) = G - 1
  BY <1>2, CellsLeft
<1>7. /\ phase = "nearest" => Remaining = 16 * A + 2 + 10 * U + 9 * b + n
      /\ phase = "search" => Remaining = 1 + 6 * U + 5 * b + n + 10 * G
      /\ phase = "build" => Remaining = 2 + 6 * U + 5 * b + n + 10 * G + 9 * eb + en
  BY LeftIs
<1>8. NoneIsClear \/ FindsClear => Remaining' < Remaining
  <2>. SUFFICES ASSUME NoneIsClear \/ FindsClear
                PROVE  Remaining' < Remaining
    OBVIOUS
  <2>1. phase = "nearest" /\ phase' = "search" /\ nbrs = <<>> /\ nbrs' = <<>> /\ flagged' = flagged
    BY DEF NoneIsClear, FindsClear, SearchStarts, build
  <2>2. PICK x \in Cells(map) : bfs' = <<x>> /\ visited' = {x}
    BY <1>2, Taken DEF NoneIsClear, FindsClear, SearchStarts
  <2>3. Cardinality(Cells(map) \ {x}) = A - 1
    <3>1. {} \in SUBSET Cells(map) /\ x \in Cells(map) \ {}
      OBVIOUS
    <3>2. Cardinality(Cells(map) \ ({} \cup {x})) = Cardinality(Cells(map) \ {}) - 1
      BY <1>2, <3>1, CellsLeft
    <3>3. {} \cup {x} = {x} /\ Cells(map) \ {} = Cells(map)
      OBVIOUS
    <3>. QED
      BY <3>2, <3>3
  <2>4. Len(<<x>>) = 1 /\ Len(<<>>) = 0
    OBVIOUS
  <2>5. Remaining' = 1 + 6 * (A - 1) + 5 * 1 + 0 + 10 * G
    BY <1>1, <2>1, <2>2, <2>3, <2>4, LeftIsThen
  <2>6. Remaining = 16 * A + 2 + 10 * U + 9 * b + n
    BY <1>7, <2>1
  <2>. HIDE DEF A, U, G, b, n
  <2>. QED
    BY <1>3, <1>4, <2>5, <2>6
<1>9. LooksAround => Remaining' < Remaining
  <2>. SUFFICES ASSUME LooksAround
                PROVE  Remaining' < Remaining
    OBVIOUS
  <2>1. /\ phase = "nearest" /\ phase' = "nearest" /\ bfs # <<>> /\ nbrs = <<>>
        /\ bfs' = Tail(bfs) /\ nbrs' = nhood8(map, Head(bfs)) /\ visited' = visited
    BY DEF LooksAround, TakesCell
  <2>2. /\ Len(bfs') \in Nat /\ b = Len(bfs') + 1 /\ Len(nbrs') <= 8 /\ Len(nbrs') \in Nat
    BY <1>2, <2>1, Taken, Around8, QueueLengths
  <2>3. Remaining' = 16 * A + 2 + 10 * U + 9 * Len(bfs') + Len(nbrs')
    BY <1>1, <2>1, LeftIsThen
  <2>4. Remaining = 16 * A + 2 + 10 * U + 9 * b + n
    BY <1>7, <2>1
  <2>. HIDE DEF A, U, b, n
  <2>. QED
    BY <1>3, <1>4, <2>2, <2>3, <2>4
<1>10. Reaches => Remaining' < Remaining
  <2>. SUFFICES ASSUME Reaches
                PROVE  Remaining' < Remaining
    OBVIOUS
  <2>1. phase = "nearest" /\ phase' = "nearest" /\ nbrs # <<>> /\ nbrs' = Tail(nbrs)
    BY DEF Reaches
  <2>2. Len(nbrs') \in Nat /\ n = Len(nbrs') + 1 /\ Head(nbrs) \in Cells(map)
    BY <1>2, <2>1, Taken, QueueLengths
  <2>3. \/ Len(bfs') = b + 1 /\ Cardinality(Cells(map) \ visited') = U - 1
        \/ Len(bfs') = b /\ Cardinality(Cells(map) \ visited') = U
    <3>1. CASE Head(nbrs) \notin visited
      <4>1. visited' = visited \cup {Head(nbrs)} /\ bfs' = Append(bfs, Head(nbrs))
        BY <3>1 DEF Reaches, Visits
      <4>2. Len(bfs') = b + 1
        BY <1>2, <2>2, <4>1, Appended
      <4>3. Cardinality(Cells(map) \ visited') = U - 1
        BY <1>5, <2>2, <3>1, <4>1
      <4>. QED
        BY <4>2, <4>3
    <3>2. CASE Head(nbrs) \in visited
      BY <3>2 DEF Reaches
    <3>. QED
      BY <3>1, <3>2
  <2>4. Remaining' = 16 * A + 2 + 10 * Cardinality(Cells(map) \ visited') + 9 * Len(bfs') + Len(nbrs')
    BY <1>1, <2>1, LeftIsThen
  <2>5. Remaining = 16 * A + 2 + 10 * U + 9 * b + n
    BY <1>7, <2>1
  <2>. HIDE DEF A, U, b, n
  <2>. QED
    BY <1>3, <1>4, <2>2, <2>3, <2>4, <2>5
<1>11. Expands => Remaining' < Remaining
  <2>. SUFFICES ASSUME Expands
                PROVE  Remaining' < Remaining
    OBVIOUS
  <2>1. /\ phase = "search" /\ phase' = "search" /\ bfs # <<>> /\ nbrs = <<>>
        /\ bfs' = Tail(bfs) /\ nbrs' = nhood4(map, Head(bfs))
        /\ visited' = visited /\ flagged' = flagged
    BY DEF Expands, TakesCell, build
  <2>2. /\ Len(bfs') \in Nat /\ b = Len(bfs') + 1 /\ Len(nbrs') <= 4 /\ Len(nbrs') \in Nat
    BY <1>2, <2>1, Taken, Around4, QueueLengths
  <2>3. Remaining' = 1 + 6 * U + 5 * Len(bfs') + Len(nbrs') + 10 * G
    BY <1>1, <2>1, LeftIsThen
  <2>4. Remaining = 1 + 6 * U + 5 * b + n + 10 * G
    BY <1>7, <2>1
  <2>. HIDE DEF U, G, b, n
  <2>. QED
    BY <1>3, <1>4, <2>2, <2>3, <2>4
<1>12. Advances => Remaining' < Remaining
  <2>. SUFFICES ASSUME Advances
                PROVE  Remaining' < Remaining
    OBVIOUS
  <2>1. /\ phase = "search" /\ phase' = "search" /\ nbrs # <<>> /\ nbrs' = Tail(nbrs)
        /\ Head(nbrs) \notin visited /\ visited' = visited \cup {Head(nbrs)}
        /\ bfs' = Append(bfs, Head(nbrs)) /\ flagged' = flagged
    BY DEF Advances, Descends, Visits, build
  <2>2. Len(nbrs') \in Nat /\ n = Len(nbrs') + 1 /\ Head(nbrs) \in Cells(map)
    BY <1>2, <2>1, Taken, QueueLengths
  <2>3. Len(bfs') = b + 1 /\ Cardinality(Cells(map) \ visited') = U - 1
    BY <1>2, <1>5, <2>1, <2>2, Appended
  <2>4. Remaining' = 1 + 6 * Cardinality(Cells(map) \ visited') + 5 * Len(bfs') + Len(nbrs') + 10 * G
    BY <1>1, <2>1, LeftIsThen
  <2>5. Remaining = 1 + 6 * U + 5 * b + n + 10 * G
    BY <1>7, <2>1
  <2>. HIDE DEF U, G, b, n
  <2>. QED
    BY <1>3, <1>4, <2>2, <2>3, <2>4, <2>5
<1>13. MeetsFrontier => Remaining' < Remaining
  <2>. SUFFICES ASSUME MeetsFrontier
                PROVE  Remaining' < Remaining
    OBVIOUS
  <2>1. /\ phase = "search" /\ phase' = "build" /\ nbrs # <<>> /\ nbrs' = Tail(nbrs)
        /\ Head(nbrs) \notin flagged /\ flagged' = flagged \cup {Head(nbrs)}
        /\ visited' = visited /\ bfs' = bfs
        /\ edge_bfs' = <<Head(nbrs)>> /\ edge_nbrs' = edge_nbrs
    BY DEF MeetsFrontier, IsNewFrontierCell
  <2>2. Len(nbrs') \in Nat /\ n = Len(nbrs') + 1 /\ Head(nbrs) \in Cells(map)
    BY <1>2, <2>1, Taken, QueueLengths
  <2>3. Cardinality(Cells(map) \ flagged') = G - 1
    BY <1>6, <2>1, <2>2
  <2>4. Len(edge_bfs') = 1 /\ Len(edge_nbrs') = 0
    <3>1. edge_nbrs = <<>>
      BY <1>2, <2>1 DEF SearchInv, ListPart
    <3>. QED
      BY <2>1, <3>1
  <2>5. Remaining' = 2 + 6 * U + 5 * b + Len(nbrs') + 10 * Cardinality(Cells(map) \ flagged')
                       + 9 * Len(edge_bfs') + Len(edge_nbrs')
    BY <1>1, <2>1, LeftIsThen
  <2>6. Remaining = 1 + 6 * U + 5 * b + n + 10 * G
    BY <1>7, <2>1
  <2>. HIDE DEF U, G, b, n
  <2>. QED
    BY <1>3, <1>4, <2>2, <2>3, <2>4, <2>5, <2>6
<1>14. PassesBy => Remaining' < Remaining
  <2>. SUFFICES ASSUME PassesBy
                PROVE  Remaining' < Remaining
    OBVIOUS
  <2>1. /\ phase = "search" /\ phase' = "search" /\ nbrs # <<>> /\ nbrs' = Tail(nbrs)
        /\ visited' = visited /\ bfs' = bfs /\ flagged' = flagged
    BY DEF PassesBy, build
  <2>2. Len(nbrs') \in Nat /\ n = Len(nbrs') + 1
    BY <1>2, <2>1, Taken, QueueLengths
  <2>3. Remaining' = 1 + 6 * U + 5 * b + Len(nbrs') + 10 * G
    BY <1>1, <2>1, LeftIsThen
  <2>4. Remaining = 1 + 6 * U + 5 * b + n + 10 * G
    BY <1>7, <2>1
  <2>. HIDE DEF U, G, b, n
  <2>. QED
    BY <1>3, <1>4, <2>2, <2>3, <2>4
<1>15. Returns => Remaining' < Remaining
  <2>. SUFFICES ASSUME Returns
                PROVE  Remaining' < Remaining
    OBVIOUS
  <2>1. Remaining' = 0 /\ Remaining = 1 + 6 * U + 5 * b + n + 10 * G
    BY <1>7, LeftIsThen DEF Returns
  <2>. HIDE DEF U, G, b, n
  <2>. QED
    BY <1>3, <1>4, <2>1
<1>16. Follows => Remaining' < Remaining
  <2>. SUFFICES ASSUME Follows
                PROVE  Remaining' < Remaining
    OBVIOUS
  <2>1. /\ phase = "build" /\ phase' = phase /\ edge_bfs # <<>> /\ edge_nbrs = <<>>
        /\ edge_bfs' = Tail(edge_bfs) /\ edge_nbrs' = nhood8(map, Head(edge_bfs))
        /\ visited' = visited /\ bfs' = bfs /\ nbrs' = nbrs /\ flagged' = flagged
    BY DEF Follows, search
  <2>2. /\ Len(edge_bfs') \in Nat /\ eb = Len(edge_bfs') + 1
        /\ Len(edge_nbrs') <= 8 /\ Len(edge_nbrs') \in Nat
    BY <1>2, <2>1, Taken, Around8, QueueLengths
  <2>3. Remaining' = 2 + 6 * U + 5 * b + n + 10 * G + 9 * Len(edge_bfs') + Len(edge_nbrs')
    BY <1>1, <2>1, LeftIsThen
  <2>4. Remaining = 2 + 6 * U + 5 * b + n + 10 * G + 9 * eb + en
    BY <1>7, <2>1
  <2>. HIDE DEF U, G, b, n, eb, en
  <2>. QED
    BY <1>3, <1>4, <2>2, <2>3, <2>4
<1>17. Grows => Remaining' < Remaining
  <2>. SUFFICES ASSUME Grows
                PROVE  Remaining' < Remaining
    OBVIOUS
  <2>1. /\ phase = "build" /\ phase' = phase /\ edge_nbrs # <<>> /\ edge_nbrs' = Tail(edge_nbrs)
        /\ visited' = visited /\ bfs' = bfs /\ nbrs' = nbrs
    BY DEF Grows, search
  <2>2. Len(edge_nbrs') \in Nat /\ en = Len(edge_nbrs') + 1 /\ Head(edge_nbrs) \in Cells(map)
    BY <1>2, <2>1, Taken, QueueLengths
  <2>3. \/ Len(edge_bfs') = eb + 1 /\ Cardinality(Cells(map) \ flagged') = G - 1
        \/ Len(edge_bfs') = eb /\ Cardinality(Cells(map) \ flagged') = G
    <3>1. CASE IsNewFrontierCell(Head(edge_nbrs))
      <4>1. /\ flagged' = flagged \cup {Head(edge_nbrs)} /\ Head(edge_nbrs) \notin flagged
            /\ edge_bfs' = Append(edge_bfs, Head(edge_nbrs))
        BY <3>1 DEF Grows, IsNewFrontierCell
      <4>. QED
        BY <1>2, <1>6, <2>2, <4>1, Appended
    <3>2. CASE ~IsNewFrontierCell(Head(edge_nbrs))
      BY <3>2 DEF Grows
    <3>. QED
      BY <3>1, <3>2
  <2>4. Remaining' = 2 + 6 * U + 5 * b + n + 10 * Cardinality(Cells(map) \ flagged')
                       + 9 * Len(edge_bfs') + Len(edge_nbrs')
    BY <1>1, <2>1, LeftIsThen
  <2>5. Remaining = 2 + 6 * U + 5 * b + n + 10 * G + 9 * eb + en
    BY <1>7, <2>1
  <2>. HIDE DEF U, G, b, n, eb, en
  <2>. QED
    BY <1>3, <1>4, <2>2, <2>3, <2>4, <2>5
<1>18. Finishes => Remaining' < Remaining
  <2>. SUFFICES ASSUME Finishes
                PROVE  Remaining' < Remaining
    OBVIOUS
  <2>1. /\ phase = "build" /\ phase' = "search"
        /\ visited' = visited /\ bfs' = bfs /\ nbrs' = nbrs /\ flagged' = flagged
    BY DEF Finishes, search, build
  <2>2. Remaining' = 1 + 6 * U + 5 * b + n + 10 * G
    BY <1>1, <2>1, LeftIsThen
  <2>3. Remaining = 2 + 6 * U + 5 * b + n + 10 * G + 9 * eb + en
    BY <1>7, <2>1
  <2>. HIDE DEF U, G, b, n, eb, en
  <2>. QED
    BY <1>3, <1>4, <2>2, <2>3
<1>. QED
  BY <1>8, <1>9, <1>10, <1>11, <1>12, <1>13, <1>14, <1>15, <1>16, <1>17, <1>18
     DEF Next, NearestCell, SearchFrom, BuildNewFrontier

LEMMA RemainsAtFirst ==
  ASSUME Init
  PROVE  Remaining <= 26 * Cardinality(Cells(map)) + 1
<1>. HIDE DEF Cells
<1>1. CASE pos = OffMap
  <2>1. phase = "returned"
    BY <1>1 DEF Init
  <2>2. PICK k \in Calls : map = k.map
    BY DEF Init
  <2>3. Sized(map) /\ {} \in SUBSET Cells(map)
    BY <2>2, FrontierSearchAssumption DEF Sized
  <2>4. Cardinality(Cells(map)) \in Nat
    BY <2>3, CellsLeft
  <2>. QED
    BY <2>1, <2>4, LeftIs
<1>2. CASE pos # OffMap
  <2>1. /\ phase = "nearest" /\ visited = {pos} /\ bfs = <<pos>> /\ nbrs = <<>>
    BY <1>2 DEF Init
  <2>2. Sized(map) /\ pos \in Cells(map)
    BY <2>1, TypeInit, OnTheMap
  <2>3. /\ Cardinality(Cells(map)) \in Nat
        /\ Cardinality(Cells(map) \ {pos}) = Cardinality(Cells(map)) - 1
    <3>1. {} \in SUBSET Cells(map) /\ pos \in Cells(map) \ {}
      BY <2>2
    <3>2. /\ Cardinality(Cells(map)) \in Nat
          /\ Cardinality(Cells(map) \ ({} \cup {pos})) = Cardinality(Cells(map) \ {}) - 1
      BY <2>2, <3>1, CellsLeft
    <3>3. {} \cup {pos} = {pos} /\ Cells(map) \ {} = Cells(map)
      OBVIOUS
    <3>. QED
      BY <3>2, <3>3
  <2>4. Len(<<pos>>) = 1 /\ Len(<<>>) = 0
    OBVIOUS
  <2>5. Remaining = 16 * Cardinality(Cells(map)) + 2 + 10 * Cardinality(Cells(map) \ {pos}) + 9 * 1 + 0
    BY <2>1, <2>4, LeftIs
  <2>. QED
    BY <2>3, <2>5
<1>. QED
  BY <1>1, <1>2

-----------------------------------------------------------------------------
(* Theorems                                                                *)

LEMMA SearchInvHolds == Spec => []SearchInv
<1>1. Init => SearchInv
  BY SearchInvInit
<1>2. SearchInv /\ [Next]_vars => SearchInv'
  BY SearchInvNext
<1>. QED
  BY <1>1, <1>2, PTL DEF Spec

\* Whatever the costmap, no queue ever holds an index outside it, so that the
\* searches read and write costs and flags of cells only (nhood4 and nhood8 at
\* the borders, costmap_tools.h:22-85).
THEOREM TypeCorrect == Spec => []TypeOK
<1>1. SearchInv => TypeOK
  BY DEF SearchInv
<1>. QED
  BY <1>1, SearchInvHolds, PTL

\* Whatever the costmap, the robot's cell and the minimal size, searchFrom returns
\* the edges of a free room nearest to the robot, each whole and once, and all
\* that are large enough (frontier_search.cpp:26-96).
THEOREM EdgesCorrect == Spec => []SearchFindsEdges
<1>1. SearchInv => SearchFindsEdges
  BY DEF SearchInv
<1>. QED
  BY <1>1, SearchInvHolds, PTL

\* Every step of the three loops leaves fewer than there were, of at most 26 for
\* each cell and one: the searches end, and how long they hold the lock of the
\* costmap is bounded by its size.
THEOREM WorkIsBounded ==
  Spec => /\ Remaining <= 26 * Cardinality(Cells(map)) + 1
          /\ [](Remaining \in Nat) /\ WorkShrinks
<1>1. Init => Remaining <= 26 * Cardinality(Cells(map)) + 1
  BY RemainsAtFirst
<1>2. SearchInv => Remaining \in Nat
  BY RemainingIsNat DEF SearchInv
<1>3. SearchInv /\ [Next]_vars => [Remaining' < Remaining]_vars
  BY LessRemains
<1>. QED
  BY <1>1, <1>2, <1>3, SearchInvHolds, PTL DEF Spec, WorkShrinks
=============================================================================
