------------------------ MODULE CaptureJournalProofs ------------------------
(***************************************************************************)
(* Proofs about CaptureJournal, for any recorders, recoveries, days and    *)
(* rows: every variable keeps its type, whatever runs at the same time;    *)
(* and while one command runs at a time, what is stored is whole, stored   *)
(* once, and nothing that reached the disk is lost.                        *)
(*                                                                         *)
(* The first part is about the function that builds the sessions: by       *)
(* induction on the rows of the journal, the sessions after n rows have    *)
(* each a day of its own, hold the rows of that day among the first n, and *)
(* leave no day out.  The second is the inductive invariant: what a        *)
(* process that saves has built, what of it is already in a file, and what *)
(* the file it loaded still is.  The third maps each step to one of the    *)
(* abstract store.                                                         *)
(***************************************************************************)
EXTENDS CaptureJournal, SequenceTheorems, FiniteSetTheorems, WellFoundedInduction, TLAPS

-----------------------------------------------------------------------------
(* Induction on the natural numbers.  The library's induction theorems take an
   operator as a parameter; the same said of a set is enough: a statement P(n) is
   proved of every n by taking the set {n \in Nat : P(n)}. *)

LessThan == {pair \in Nat \X Nat : pair[1] < pair[2]}

\* The order of the natural numbers has no endless descent.
LEMMA LessThanWellFounded == IsWellFoundedOn(LessThan, Nat)
BY NatLessThanWellFounded DEF OpToRel, LessThan, IsWellFoundedOn

\* A set with 0 and the successor of each of its numbers holds them all.
LEMMA NatInduct ==
    ASSUME NEW S, 0 \in S, \A n \in Nat : n \in S => n + 1 \in S
    PROVE  Nat \subseteq S
<1> DEFINE T == Nat \ S
<1>1. SUFFICES ASSUME T # {} PROVE FALSE
  OBVIOUS
<1>2. PICK x \in T : \A y \in T : <<y, x>> \notin LessThan
  <2>1. T \subseteq Nat
    OBVIOUS
  <2> HIDE DEF T
  <2> QED
    BY <1>1, <2>1, LessThanWellFounded, WFMin
<1>3. x \in Nat \ {0}
  OBVIOUS
<1>4. x - 1 \in T
  BY <1>3
<1>5. <<x - 1, x>> \in LessThan
  BY <1>3 DEF LessThan
<1> QED
  BY <1>2, <1>4, <1>5

-----------------------------------------------------------------------------
\* The sessions of a journal, row by row.

\* A function on 0..n that follows the equation of Grouped.
GroupedUpTo(f, n, j, rows) ==
    f = [i \in 0..n |-> IF i = 0 THEN <<>> ELSE Placed(f[i - 1], j, rows[i])]

\* There is such a function however many rows there are.
LEMMA GroupedExists ==
    ASSUME NEW j, NEW rows, NEW m \in Nat
    PROVE  \E f : GroupedUpTo(f, m, j, rows)
<1> DEFINE S == {n \in Nat : \E f : GroupedUpTo(f, n, j, rows)}
<1>1. 0 \in S
  <2>1. GroupedUpTo([i \in 0..0 |-> <<>>], 0, j, rows)
    BY DEF GroupedUpTo
  <2> QED
    BY <2>1
<1>2. ASSUME NEW n \in Nat, n \in S PROVE n + 1 \in S
  <2>1. PICK f : GroupedUpTo(f, n, j, rows)
    BY <1>2
  <2> DEFINE g == [i \in 0..(n + 1) |-> IF i = n + 1 THEN Placed(f[n], j, rows[n + 1])
                                        ELSE f[i]]
  <2>2. \A i \in 0..n : f[i] = IF i = 0 THEN <<>> ELSE Placed(f[i - 1], j, rows[i])
    BY <2>1 DEF GroupedUpTo
  <2>3. \A i \in 0..n : g[i] = f[i]
    OBVIOUS
  <2>4. \A i \in 0..(n + 1) : g[i] = IF i = 0 THEN <<>> ELSE Placed(g[i - 1], j, rows[i])
    <3> SUFFICES ASSUME NEW i \in 0..(n + 1)
                 PROVE  g[i] = IF i = 0 THEN <<>> ELSE Placed(g[i - 1], j, rows[i])
      OBVIOUS
    <3>1. CASE i = n + 1
      <4>1. n + 1 # 0 /\ i - 1 = n /\ n \in 0..n
        BY <3>1
      <4>2. g[i] = Placed(f[n], j, rows[n + 1])
        BY <3>1
      <4> HIDE DEF g
      <4> QED
        BY <3>1, <4>1, <4>2, <2>3
    <3>2. CASE i \in 0..n
      <4>1. i # 0 => i - 1 \in 0..n
        BY <3>2
      <4> HIDE DEF g
      <4> QED
        BY <3>2, <4>1, <2>2, <2>3
    <3> QED
      BY <3>1, <3>2
  <2>5. GroupedUpTo(g, n + 1, j, rows)
    <3>1. g = [i \in 0..(n + 1) |-> g[i]]
      OBVIOUS
    <3> HIDE DEF g
    <3> QED
      BY <3>1, <2>4 DEF GroupedUpTo
  <2> QED
    BY <2>5
<1>3. Nat \subseteq S
  <2> HIDE DEF S
  <2> QED
    BY <1>1, <1>2, NatInduct
<1> QED
  BY <1>3

\* No row gives no session; each row is placed among the sessions of those before it.
LEMMA GroupedSteps ==
    ASSUME NEW j, Len(journal[j]) \in Nat
    PROVE  /\ Grouped(j)[0] = <<>>
           /\ \A i \in 1..Len(journal[j]) :
                 Grouped(j)[i] = Placed(Grouped(j)[i - 1], j, journal[j][i])
<1> DEFINE g == Grouped(j)
           rows == journal[j]
<1>1. GroupedUpTo(g, Len(rows), j, rows)
  <2>1. PICK f : GroupedUpTo(f, Len(rows), j, rows)
    BY GroupedExists
  <2>2. g = CHOOSE h : GroupedUpTo(h, Len(rows), j, rows)
    BY DEF Grouped, GroupedUpTo
  <2> QED
    BY <2>1, <2>2
<1>2. \A i \in 0..Len(rows) : g[i] = IF i = 0 THEN <<>> ELSE Placed(g[i - 1], j, rows[i])
  <2> HIDE DEF g
  <2>1. g = [i \in 0..Len(rows) |-> IF i = 0 THEN <<>> ELSE Placed(g[i - 1], j, rows[i])]
    BY <1>1 DEF GroupedUpTo
  <2> QED
    BY <2>1
<1> QED
  BY <1>2

-----------------------------------------------------------------------------
\* What the sessions after the first n rows of a journal are.

NumberedRows(rows, j) ==
    rows \in Seq(Row) /\ \A i \in DOMAIN rows : rows[i].of = j /\ rows[i].n = i

RowsOfDay(rows, n, d) == {rows[m] : m \in {k \in 1..n : rows[k].day = d}}

DaysApart(w) == \A i, k \in DOMAIN w : w[i].day = w[k].day => i = k

SessionOf(s, j, rows, n) ==
    /\ s.of = j /\ s.rows # <<>> /\ InOrder(s.rows)
    /\ Range(s.rows) = RowsOfDay(rows, n, s.day)

GroupOf(w, j, rows, n) ==
    /\ w \in Seq(Session)
    /\ \A i \in DOMAIN w : SessionOf(w[i], j, rows, n)
    /\ DaysApart(w)
    /\ \A m \in 1..n : \E i \in DOMAIN w : w[i].day = rows[m].day

\* The rows of a day are one more when the next row is of that day, else the same.
LEMMA NextOfDay ==
    ASSUME NEW rows, NEW n \in Nat, NEW d
    PROVE  RowsOfDay(rows, n + 1, d)
             = IF rows[n + 1].day = d THEN RowsOfDay(rows, n, d) \cup {rows[n + 1]}
               ELSE RowsOfDay(rows, n, d)
<1>1. 1..(n + 1) = (1..n) \cup {n + 1}
  OBVIOUS
<1>2. {k \in 1..(n + 1) : rows[k].day = d}
        = {k \in 1..n : rows[k].day = d}
            \cup (IF rows[n + 1].day = d THEN {n + 1} ELSE {})
  BY <1>1
<1> QED
  BY <1>2 DEF RowsOfDay

\* Appending to a sequence adds its element to the range.
LEMMA AppendRange ==
    ASSUME NEW S, NEW s \in Seq(S), NEW x \in S
    PROVE  Range(Append(s, x)) = Range(s) \cup {x}
<1>1. DOMAIN Append(s, x) = DOMAIN s \cup {Len(s) + 1}
  OBVIOUS
<1>2. \A i \in DOMAIN s : Append(s, x)[i] = s[i]
  OBVIOUS
<1>3. Append(s, x)[Len(s) + 1] = x
  OBVIOUS
<1> QED
  BY <1>1, <1>2, <1>3 DEF Range

\* A session that takes the next row of its day is that day's rows so far.
LEMMA SessionGrows ==
    ASSUME NEW j, NEW rows, NumberedRows(rows, j), NEW n \in Nat, n < Len(rows),
           NEW s \in Session, SessionOf(s, j, rows, n), s.day = rows[n + 1].day
    PROVE  LET t == [s EXCEPT !.rows = Append(@, rows[n + 1])]
           IN  /\ t \in Session /\ t.day = s.day
               /\ SessionOf(t, j, rows, n + 1)
<1> DEFINE r == rows[n + 1]
           t == [s EXCEPT !.rows = Append(@, r)]
<1>1. r \in Row /\ r.n = n + 1 /\ rows \in Seq(Row)
  BY DEF NumberedRows
<1>2. s.rows \in Seq(Row) /\ s.of \in Recorder /\ s.day \in 1..Day
  BY DEF Session
<1>3. t = [of |-> s.of, day |-> s.day, rows |-> Append(s.rows, r)]
  <2> DEFINE w == Append(s.rows, r)
  <2>1. PICK x, y, z : s = [of |-> x, day |-> y, rows |-> z]
    BY DEF Session
  <2>2. s.of = x /\ s.day = y /\ s.rows = z
    BY <2>1
  <2>3. t = [s EXCEPT !.rows = w]
    OBVIOUS
  <2> HIDE DEF t, w
  <2>4. t = [of |-> x, day |-> y, rows |-> w]
    BY <2>1, <2>3
  <2> QED
    BY <2>2, <2>4 DEF w
<1>4. Append(s.rows, r) \in Seq(Row) /\ Append(s.rows, r) # <<>>
  <2> HIDE DEF r
  <2>1. Append(s.rows, r) \in Seq(Row) /\ Len(Append(s.rows, r)) = Len(s.rows) + 1
    BY <1>1, <1>2
  <2>2. Len(s.rows) \in Nat /\ Len(<<>>) = 0
    BY <1>2
  <2> QED
    BY <2>1, <2>2
<1>5. Range(Append(s.rows, r)) = RowsOfDay(rows, n + 1, s.day)
  <2>1. Range(Append(s.rows, r)) = Range(s.rows) \cup {r}
    BY <1>1, <1>2, AppendRange
  <2>2. RowsOfDay(rows, n + 1, s.day) = RowsOfDay(rows, n, s.day) \cup {r}
    BY NextOfDay
  <2> QED
    BY <2>1, <2>2 DEF SessionOf
<1>6. \A i \in DOMAIN s.rows : s.rows[i].n \in Nat /\ s.rows[i].n < n + 1
  <2> SUFFICES ASSUME NEW i \in DOMAIN s.rows PROVE s.rows[i].n \in Nat /\ s.rows[i].n < n + 1
    OBVIOUS
  <2>1. s.rows[i] \in RowsOfDay(rows, n, s.day)
    BY DEF SessionOf, Range
  <2>2. PICK m \in 1..n : s.rows[i] = rows[m]
    BY <2>1 DEF RowsOfDay
  <2> QED
    BY <2>2, <1>1 DEF NumberedRows
<1>7. InOrder(Append(s.rows, r))
  <2> DEFINE a == Append(s.rows, r)
  <2>1. /\ DOMAIN a = 1..(Len(s.rows) + 1) /\ DOMAIN s.rows = 1..Len(s.rows)
        /\ Len(s.rows) \in Nat
    BY <1>2
  <2>2. \A i \in DOMAIN s.rows : a[i] = s.rows[i]
    BY <1>2
  <2>3. a[Len(s.rows) + 1] = r
    BY <1>2
  <2>4. \A i, k \in DOMAIN s.rows : i < k => s.rows[i].n < s.rows[k].n
    BY DEF SessionOf, InOrder
  <2> HIDE DEF a, r
  <2>5. ASSUME NEW i \in DOMAIN a, NEW k \in DOMAIN a, i < k PROVE a[i].n < a[k].n
    <3>1. i \in DOMAIN s.rows
      BY <2>1, <2>5
    <3>2. CASE k \in DOMAIN s.rows
      BY <3>1, <3>2, <2>2, <2>4, <2>5
    <3>3. CASE k = Len(s.rows) + 1
      BY <3>1, <3>3, <2>2, <2>3, <1>1, <1>6
    <3> QED
      BY <3>2, <3>3, <2>1
  <2> QED
    BY <2>5 DEF InOrder, a
<1>8. t.of = s.of /\ t.day = s.day /\ t.rows = Append(s.rows, r)
  <2> HIDE DEF t, r
  <2> QED
    BY <1>3
<1>9. t \in Session
  BY <1>2, <1>3, <1>4 DEF Session
<1> HIDE DEF t
<1>10. SessionOf(t, j, rows, n + 1)
  BY <1>4, <1>5, <1>7, <1>8 DEF SessionOf
<1> QED
  BY <1>8, <1>9, <1>10 DEF t

\* A session of another day is what it was after the next row.
LEMMA SessionStays ==
    ASSUME NEW j, NEW rows, NEW n \in Nat,
           NEW s, SessionOf(s, j, rows, n), s.day # rows[n + 1].day
    PROVE  SessionOf(s, j, rows, n + 1)
BY NextOfDay DEF SessionOf

\* The first row of a day begins a session of it.
LEMMA SessionBegins ==
    ASSUME NEW j \in Recorder, NEW rows, NumberedRows(rows, j), NEW n \in Nat, n < Len(rows),
           RowsOfDay(rows, n, rows[n + 1].day) = {}
    PROVE  LET t == [of |-> j, day |-> rows[n + 1].day, rows |-> <<rows[n + 1]>>]
           IN  t \in Session /\ SessionOf(t, j, rows, n + 1)
<1> DEFINE r == rows[n + 1]
           t == [of |-> j, day |-> r.day, rows |-> <<r>>]
<1>1. r \in Row
  BY DEF NumberedRows
<1>2. t \in Session
  BY <1>1 DEF Session, Row
<1>3. InOrder(t.rows)
  BY DEF InOrder
<1>4. Range(t.rows) = {r}
  BY DEF Range
<1>5. RowsOfDay(rows, n + 1, r.day) = {r}
  BY NextOfDay
<1> QED
  BY <1>2, <1>3, <1>4, <1>5 DEF SessionOf

\* Placing the next row makes of the sessions so far those of one row more.
LEMMA PlacedGroups ==
    ASSUME NEW j \in Recorder, NEW rows, NumberedRows(rows, j), NEW n \in Nat, n < Len(rows),
           NEW w, GroupOf(w, j, rows, n)
    PROVE  GroupOf(Placed(w, j, rows[n + 1]), j, rows, n + 1)
<1> DEFINE r == rows[n + 1]
           v == Placed(w, j, r)
<1>1. w \in Seq(Session) /\ Len(w) \in Nat /\ DOMAIN w = 1..Len(w)
  BY DEF GroupOf
<1>2. \A m \in 1..(n + 1) : m \in 1..n \/ m = n + 1
  OBVIOUS
<1>3. ASSUME NEW i \in DOMAIN w, w[i].day = r.day
      PROVE  GroupOf(v, j, rows, n + 1)
  <2> DEFINE t(k) == [w[k] EXCEPT !.rows = Append(@, r)]
  <2>1. v = [k \in DOMAIN w |-> IF w[k].day = r.day THEN t(k) ELSE w[k]]
    BY <1>3 DEF Placed
  <2>2. ASSUME NEW k \in DOMAIN w
        PROVE  v[k] \in Session /\ v[k].day = w[k].day /\ SessionOf(v[k], j, rows, n + 1)
    <3>1. w[k] \in Session /\ SessionOf(w[k], j, rows, n)
      BY <1>1 DEF GroupOf
    <3>2. CASE w[k].day = r.day
      <4>1. v[k] = t(k)
        BY <2>1, <3>2
      <4>2. t(k).day = w[k].day /\ t(k) \in Session /\ SessionOf(t(k), j, rows, n + 1)
        BY <3>1, <3>2, SessionGrows
      <4> HIDE DEF v, t
      <4> QED
        BY <4>1, <4>2
    <3>3. CASE w[k].day # r.day
      <4>1. v[k] = w[k]
        BY <2>1, <3>3
      <4> HIDE DEF v
      <4> QED
        BY <3>1, <3>3, <4>1, SessionStays
    <3> QED
      BY <3>2, <3>3
  <2>3. DOMAIN v = DOMAIN w
    BY <2>1
  <2>4. v \in Seq(Session)
    <3>1. v = [k \in 1..Len(w) |-> v[k]]
      BY <2>1, <1>1
    <3> HIDE DEF v
    <3> QED
      BY <1>1, <2>2, <3>1
  <2> HIDE DEF v, r
  <2>5. DaysApart(v)
    BY <2>2, <2>3 DEF DaysApart, GroupOf
  <2>6. \A m \in 1..(n + 1) : \E k \in DOMAIN v : v[k].day = rows[m].day
    BY <1>2, <1>3, <2>2, <2>3 DEF GroupOf, r
  <2> QED
    BY <2>2, <2>3, <2>4, <2>5, <2>6 DEF GroupOf
<1>4. ASSUME \A i \in DOMAIN w : w[i].day # r.day
      PROVE  GroupOf(v, j, rows, n + 1)
  <2> DEFINE t == [of |-> j, day |-> r.day, rows |-> <<r>>]
             l == Len(w) + 1
  <2>1. v = Append(w, t)
    BY <1>4 DEF Placed
  <2>2. RowsOfDay(rows, n, r.day) = {}
    BY <1>4 DEF RowsOfDay, GroupOf
  <2>3. t \in Session /\ SessionOf(t, j, rows, n + 1)
    BY <2>2, SessionBegins
  <2>4. t.day = r.day
    OBVIOUS
  <2> HIDE DEF t, v, r
  <2>5. /\ v \in Seq(Session) /\ DOMAIN v = (DOMAIN w) \cup {l}
        /\ v[l] = t /\ \A k \in DOMAIN w : v[k] = w[k]
    BY <1>1, <2>1, <2>3
  <2>6. \A k \in DOMAIN w : SessionOf(v[k], j, rows, n + 1)
    <3> SUFFICES ASSUME NEW k \in DOMAIN w PROVE SessionOf(w[k], j, rows, n + 1)
      BY <2>5
    <3>1. SessionOf(w[k], j, rows, n) /\ w[k].day # rows[n + 1].day
      BY <1>4 DEF GroupOf, r
    <3> QED
      BY <3>1, SessionStays
  <2>7. DaysApart(v)
    BY <1>4, <2>4, <2>5 DEF DaysApart, GroupOf
  <2>8. \A m \in 1..(n + 1) : \E k \in DOMAIN v : v[k].day = rows[m].day
    BY <1>2, <2>4, <2>5 DEF GroupOf, r
  <2> QED
    BY <2>3, <2>5, <2>6, <2>7, <2>8 DEF GroupOf
<1> QED
  BY <1>3, <1>4

\* The sessions of a journal have each a day of its own, hold all rows of that
\* day in the order they were read, and leave no row out.
THEOREM SessionsAreDays ==
    ASSUME NEW j \in Recorder, NumberedRows(journal[j], j)
    PROVE  GroupOf(SessionsOf(j), j, journal[j], Len(journal[j]))
<1> DEFINE rows == journal[j]
           S == {n \in Nat : n <= Len(rows) => GroupOf(Grouped(j)[n], j, rows, n)}
<1>1. Len(rows) \in Nat
  BY DEF NumberedRows
<1>2. 0 \in S
  <2>1. Grouped(j)[0] = <<>>
    BY <1>1, GroupedSteps
  <2>2. GroupOf(<<>>, j, rows, 0)
    BY DEF GroupOf, DaysApart
  <2> QED
    BY <2>1, <2>2
<1>3. ASSUME NEW n \in Nat, n \in S PROVE n + 1 \in S
  <2> SUFFICES ASSUME n + 1 <= Len(rows) PROVE GroupOf(Grouped(j)[n + 1], j, rows, n + 1)
    OBVIOUS
  <2>1. GroupOf(Grouped(j)[n], j, rows, n)
    BY <1>1, <1>3
  <2>2. n + 1 \in 1..Len(rows) /\ (n + 1) - 1 = n /\ n < Len(rows)
    BY <1>1
  <2>3. Grouped(j)[n + 1] = Placed(Grouped(j)[n], j, rows[n + 1])
    BY <1>1, <2>2, GroupedSteps
  <2> HIDE DEF rows
  <2>4. GroupOf(Placed(Grouped(j)[n], j, rows[n + 1]), j, rows, n + 1)
    BY <2>1, <2>2, PlacedGroups DEF rows
  <2> QED
    BY <2>3, <2>4
<1>4. Nat \subseteq S
  <2> HIDE DEF S
  <2> QED
    BY <1>2, <1>3, NatInduct
<1> QED
  BY <1>1, <1>4 DEF SessionsOf

-----------------------------------------------------------------------------
\* Rows on their way from the buffer to the journal.

NumberedFrom(rows, start, j) ==
    rows \in Seq(Row) /\ \A i \in DOMAIN rows : rows[i].of = j /\ rows[i].n = start + i

\* What is appended to a journal goes on where it ended.
LEMMA ConcatNumbered ==
    ASSUME NEW j, NEW a, NumberedRows(a, j), NEW b, NumberedFrom(b, Len(a), j)
    PROVE  /\ NumberedRows(a \o b, j)
           /\ Len(a \o b) = Len(a) + Len(b)
           /\ Range(a \o b) = Range(a) \cup Range(b)
<1> DEFINE c == a \o b
<1>1. /\ a \in Seq(Row) /\ b \in Seq(Row) /\ Len(a) \in Nat /\ Len(b) \in Nat
      /\ DOMAIN a = 1..Len(a) /\ DOMAIN b = 1..Len(b)
  BY DEF NumberedRows, NumberedFrom
<1>2. c \in Seq(Row) /\ Len(c) = Len(a) + Len(b) /\ DOMAIN c = 1..(Len(a) + Len(b))
  BY <1>1
<1>3. \A i \in DOMAIN a : c[i] = a[i] /\ i \in DOMAIN c
  BY <1>1
<1>4. \A i \in DOMAIN b : c[Len(a) + i] = b[i] /\ Len(a) + i \in DOMAIN c
  BY <1>1
<1>5. \A i \in DOMAIN c : i \in DOMAIN a \/ i - Len(a) \in DOMAIN b
  BY <1>1, <1>2
<1>6. \A i \in DOMAIN c : i - Len(a) \in DOMAIN b => c[i] = b[i - Len(a)]
  <2> SUFFICES ASSUME NEW i \in DOMAIN c, i - Len(a) \in DOMAIN b PROVE c[i] = b[i - Len(a)]
    OBVIOUS
  <2>1. Len(a) + (i - Len(a)) = i
    BY <1>1, <1>2
  <2> QED
    BY <1>4, <2>1
<1> HIDE DEF c
<1>7. ASSUME NEW i \in DOMAIN c PROVE c[i].of = j /\ c[i].n = i
  <2>1. CASE i \in DOMAIN a
    BY <2>1, <1>3 DEF NumberedRows
  <2>2. CASE i - Len(a) \in DOMAIN b
    <3>1. c[i] = b[i - Len(a)]
      BY <2>2, <1>6
    <3>2. b[i - Len(a)].of = j /\ b[i - Len(a)].n = Len(a) + (i - Len(a))
      BY <2>2 DEF NumberedFrom
    <3>3. i \in Nat
      BY <1>1, <1>2
    <3> QED
      BY <3>1, <3>2, <3>3, <1>1
  <2> QED
    BY <2>1, <2>2, <1>5
<1>8. Range(c) = Range(a) \cup Range(b)
  <2>1. Range(c) \subseteq Range(a) \cup Range(b)
    BY <1>3, <1>5, <1>6 DEF Range
  <2>2. Range(a) \subseteq Range(c)
    BY <1>3 DEF Range
  <2>3. Range(b) \subseteq Range(c)
    BY <1>4 DEF Range
  <2> QED
    BY <2>1, <2>2, <2>3
<1> QED
  BY <1>2, <1>7, <1>8 DEF NumberedRows, c

CutAt(b, n, start, j, front, rest) ==
    /\ NumberedFrom(front, start, j) /\ Len(front) = n
    /\ NumberedFrom(rest, start + n, j) /\ Len(rest) = Len(b) - n
    /\ Range(b) = Range(front) \cup Range(rest)

\* A buffer cut in two is numbered on both sides of the cut.
LEMMA CutNumbered ==
    ASSUME NEW j, NEW start \in Nat, NEW b, NumberedFrom(b, start, j), NEW n \in 1..Len(b)
    PROVE  CutAt(b, n, start, j, SubSeq(b, 1, n), SubSeq(b, n + 1, Len(b)))
<1> DEFINE front == SubSeq(b, 1, n)
           rest == SubSeq(b, n + 1, Len(b))
<1>1. b \in Seq(Row) /\ Len(b) \in Nat /\ DOMAIN b = 1..Len(b) /\ n \in Nat /\ n <= Len(b)
  BY DEF NumberedFrom
<1>2. /\ front \in Seq(Row) /\ Len(front) = n /\ DOMAIN front = 1..n
      /\ \A i \in 1..n : front[i] = b[i]
  BY <1>1
<1>3. /\ rest \in Seq(Row) /\ Len(rest) = Len(b) - n /\ DOMAIN rest = 1..(Len(b) - n)
      /\ \A i \in 1..(Len(b) - n) : rest[i] = b[n + i]
  <2>1. rest \in Seq(Row)
    BY <1>1
  <2>2. Len(rest) = Len(b) - n
    <3>1. \A i \in (n + 1)..Len(b) : b[i] \in Row
      BY <1>1
    <3>2. Len(rest) = IF n + 1 <= Len(b) THEN Len(b) - (n + 1) + 1 ELSE 0
      <4>1. n + 1 \in Int /\ Len(b) \in Int
        BY <1>1
      <4> QED
        BY <3>1, <4>1, SubSeqProperties
    <3> DEFINE l == Len(b)
               k == Len(rest)
    <3>3. n \in Nat /\ l \in Nat /\ n <= l /\ k = IF n + 1 <= l THEN l - (n + 1) + 1 ELSE 0
      BY <3>2, <1>1
    <3> HIDE DEF k, l
    <3>4. k = l - n
      BY <3>3
    <3> QED
      BY <3>4 DEF k, l
  <2>3. \A i \in 1..(Len(b) - n) : rest[i] = b[n + i]
    BY <1>1
  <2> HIDE DEF rest
  <2> QED
    BY <2>1, <2>2, <2>3
<1> HIDE DEF front, rest
<1>4. NumberedFrom(front, start, j)
  BY <1>1, <1>2 DEF NumberedFrom
<1>5. NumberedFrom(rest, start + n, j)
  <2> SUFFICES ASSUME NEW i \in DOMAIN rest PROVE rest[i].of = j /\ rest[i].n = (start + n) + i
    BY <1>3 DEF NumberedFrom
  <2>1. i \in Nat /\ n + i \in DOMAIN b /\ rest[i] = b[n + i]
    BY <1>1, <1>3
  <2>2. b[n + i].of = j /\ b[n + i].n = start + (n + i)
    BY <2>1 DEF NumberedFrom
  <2> QED
    BY <1>1, <2>1, <2>2
<1>6. Range(b) = Range(front) \cup Range(rest)
  <2>1. \A i \in DOMAIN b : i \in 1..n \/ (i - n \in 1..(Len(b) - n) /\ n + (i - n) = i)
    BY <1>1
  <2>2. Range(b) \subseteq Range(front) \cup Range(rest)
    <3> SUFFICES ASSUME NEW i \in DOMAIN b PROVE b[i] \in Range(front) \cup Range(rest)
      BY DEF Range
    <3>1. CASE i \in 1..n
      BY <3>1, <1>2 DEF Range
    <3>2. CASE i - n \in 1..(Len(b) - n) /\ n + (i - n) = i
      <4>1. rest[i - n] = b[i] /\ i - n \in DOMAIN rest
        BY <3>2, <1>3
      <4> QED
        BY <4>1 DEF Range
    <3> QED
      BY <2>1, <3>1, <3>2
  <2>3. Range(front) \subseteq Range(b)
    BY <1>1, <1>2 DEF Range
  <2>4. Range(rest) \subseteq Range(b)
    <3>1. \A i \in DOMAIN rest : rest[i] = b[n + i] /\ n + i \in DOMAIN b
      BY <1>1, <1>3
    <3> QED
      BY <3>1 DEF Range
  <2> QED
    BY <2>2, <2>3, <2>4
<1> QED
  BY <1>2, <1>3, <1>4, <1>5, <1>6 DEF front, rest, CutAt

-----------------------------------------------------------------------------
\* The rows of every recorder are numbered through its journal and its buffer.

RowsOK ==
    /\ buffer \in [Recorder -> Seq(Row)] /\ journal \in [Recorder -> Seq(Row)]
    /\ \A j \in Recorder :
          /\ NumberedRows(journal[j], j)
          /\ NumberedFrom(buffer[j], Len(journal[j]), j)
          /\ Len(journal[j]) + Len(buffer[j]) <= MaxRows

\* Nothing is numbered from anywhere.
LEMMA EmptyNumbered ==
    ASSUME NEW j, NEW start
    PROVE  NumberedFrom(<<>>, start, j) /\ Len(<<>>) = 0
BY DEF NumberedFrom

\* The rows of every recorder are in order if those of the one that changed are.
LEMMA RowsUpdate ==
    ASSUME RowsOK, NEW p \in Recorder,
           NEW a, NumberedRows(a, p), NEW b, NumberedFrom(b, Len(a), p),
           Len(a) + Len(b) <= MaxRows,
           journal' = [journal EXCEPT ![p] = a], buffer' = [buffer EXCEPT ![p] = b]
    PROVE  RowsOK'
<1>1. a \in Seq(Row) /\ b \in Seq(Row)
  BY DEF NumberedRows, NumberedFrom
<1>2. journal' \in [Recorder -> Seq(Row)] /\ buffer' \in [Recorder -> Seq(Row)]
  BY <1>1 DEF RowsOK
<1>3. journal'[p] = a /\ buffer'[p] = b
  BY DEF RowsOK
<1>4. ASSUME NEW j \in Recorder, j # p PROVE journal'[j] = journal[j] /\ buffer'[j] = buffer[j]
  BY <1>4 DEF RowsOK
<1>5. ASSUME NEW j \in Recorder
      PROVE  /\ NumberedRows(journal'[j], j)
             /\ NumberedFrom(buffer'[j], Len(journal'[j]), j)
             /\ Len(journal'[j]) + Len(buffer'[j]) <= MaxRows
  <2>1. CASE j = p
    BY <2>1, <1>3
  <2>2. CASE j # p
    BY <2>2, <1>4 DEF RowsOK
  <2> QED
    BY <2>1, <2>2
<1> QED
  BY <1>2, <1>5 DEF RowsOK

\* A new row has the next number, and is within the bound.
LEMMA Append1Rows ==
    ASSUME RowsOK, NEW p \in Recorder, today \in 1..Day, Append1(p)
    PROVE  /\ RowsOK' /\ journal' = journal
           /\ \E r \in Row : /\ r.of = p /\ r.n = Len(journal[p]) + Len(buffer[p]) + 1
                             /\ buffer' = [buffer EXCEPT ![p] = Append(@, r)]
                             /\ Range(buffer'[p]) = Range(buffer[p]) \cup {r}
<1> DEFINE a == journal[p]
           b == buffer[p]
           r == [of |-> p, n |-> Len(a) + Len(b) + 1, day |-> today]
           c == Append(b, r)
<1>1. /\ NumberedRows(a, p) /\ NumberedFrom(b, Len(a), p)
      /\ a \in Seq(Row) /\ b \in Seq(Row) /\ Len(a) \in Nat /\ Len(b) \in Nat
  BY DEF RowsOK
<1>2. Len(a) + Len(b) + 1 <= MaxRows /\ buffer' = [buffer EXCEPT ![p] = c] /\ journal' = journal
  BY DEF Append1
<1>3. r \in Row /\ r.of = p /\ r.n = Len(a) + Len(b) + 1
  <2> HIDE DEF a, b
  <2>1. Len(a) + Len(b) + 1 \in 1..MaxRows
    BY <1>1, <1>2, JournalAssumption
  <2> QED
    BY <2>1 DEF Row
<1> HIDE DEF r
<1>4. /\ c \in Seq(Row) /\ Len(c) = Len(b) + 1 /\ DOMAIN c = (DOMAIN b) \cup {Len(b) + 1}
      /\ c[Len(b) + 1] = r /\ \A i \in DOMAIN b : c[i] = b[i]
  BY <1>1, <1>3
<1>5. Range(c) = Range(b) \cup {r}
  BY <1>1, <1>3, AppendRange
<1> HIDE DEF c
<1>6. NumberedFrom(c, Len(a), p)
  <2> HIDE DEF a, b
  <2>1. r.n = Len(a) + (Len(b) + 1)
    BY <1>1, <1>3
  <2> QED
    BY <1>1, <1>3, <1>4, <2>1 DEF NumberedFrom
<1>7. journal' = [journal EXCEPT ![p] = a]
  BY <1>2 DEF RowsOK
<1>8. Len(a) + Len(c) <= MaxRows
  <2> HIDE DEF a, b
  <2> QED
    BY <1>1, <1>2, <1>4, JournalAssumption
<1> HIDE DEF a
<1>9. RowsOK'
  BY <1>1, <1>2, <1>6, <1>7, <1>8, RowsUpdate
<1>10. buffer'[p] = c
  BY <1>2 DEF RowsOK
<1> QED
  BY <1>2, <1>3, <1>5, <1>9, <1>10 DEF c, a

\* What is flushed leaves the buffer and joins the journal.
LEMMA FlushRows ==
    ASSUME RowsOK, NEW p \in Recorder, Flush(p)
    PROVE  /\ RowsOK' /\ \A j \in Recorder \ {p} : journal'[j] = journal[j] /\ buffer'[j] = buffer[j]
           /\ \E S : /\ Range(buffer[p]) = S \cup Range(buffer'[p])
                     /\ Range(journal'[p]) = Range(journal[p]) \cup S
<1>1. PICK n \in 1..Len(buffer[p]) :
          /\ journal' = [journal EXCEPT ![p] = @ \o SubSeq(buffer[p], 1, n)]
          /\ buffer' = [buffer EXCEPT ![p] = SubSeq(@, n + 1, Len(@))]
  BY DEF Flush
<1> DEFINE a == journal[p]
           b == buffer[p]
           front == SubSeq(b, 1, n)
           rest == SubSeq(b, n + 1, Len(b))
           c == a \o front
<1>2. /\ NumberedRows(a, p) /\ NumberedFrom(b, Len(a), p) /\ Len(a) \in Nat /\ Len(b) \in Nat
      /\ Len(a) + Len(b) <= MaxRows
  BY DEF RowsOK
<1>3. journal' = [journal EXCEPT ![p] = c] /\ buffer' = [buffer EXCEPT ![p] = rest]
  BY <1>1
<1> HIDE DEF a, b
<1>4. /\ NumberedFrom(front, Len(a), p) /\ Len(front) = n
      /\ NumberedFrom(rest, Len(a) + n, p) /\ Len(rest) = Len(b) - n
      /\ Range(b) = Range(front) \cup Range(rest)
  <2>1. n \in 1..Len(b)
    BY DEF b
  <2>2. CutAt(b, n, Len(a), p, SubSeq(b, 1, n), SubSeq(b, n + 1, Len(b)))
    BY <1>2, <2>1, CutNumbered
  <2> QED
    BY <2>2 DEF CutAt
<1> HIDE DEF front, rest
<1>5. /\ NumberedRows(c, p) /\ Len(c) = Len(a) + n
      /\ Range(c) = Range(a) \cup Range(front)
  BY <1>2, <1>4, ConcatNumbered
<1> HIDE DEF c
<1>6. Len(c) + Len(rest) <= MaxRows
  <2>1. n \in Nat
    BY <1>2
  <2> QED
    BY <2>1, <1>2, <1>4, <1>5
<1>7. RowsOK'
  BY <1>3, <1>4, <1>5, <1>6, RowsUpdate
<1>8. journal'[p] = c /\ buffer'[p] = rest
  BY <1>3 DEF RowsOK
<1>9. \A j \in Recorder \ {p} : journal'[j] = journal[j] /\ buffer'[j] = buffer[j]
  BY <1>3 DEF RowsOK
<1> QED
  BY <1>4, <1>5, <1>7, <1>8, <1>9 DEF a, b

\* Closing the file flushes all of it.
LEMMA CloseRows ==
    ASSUME RowsOK, NEW p \in Recorder, CloseFile(p)
    PROVE  /\ RowsOK' /\ \A j \in Recorder \ {p} : journal'[j] = journal[j] /\ buffer'[j] = buffer[j]
           /\ buffer'[p] = <<>> /\ Range(journal'[p]) = Range(journal[p]) \cup Range(buffer[p])
<1> DEFINE a == journal[p]
           b == buffer[p]
           c == a \o b
<1>1. /\ NumberedRows(a, p) /\ NumberedFrom(b, Len(a), p) /\ Len(a) \in Nat /\ Len(b) \in Nat
      /\ Len(a) + Len(b) <= MaxRows
  BY DEF RowsOK
<1>2. journal' = [journal EXCEPT ![p] = c] /\ buffer' = [buffer EXCEPT ![p] = <<>>]
  BY DEF CloseFile
<1> HIDE DEF a, b
<1>3. NumberedRows(c, p) /\ Len(c) = Len(a) + Len(b) /\ Range(c) = Range(a) \cup Range(b)
  BY <1>1, ConcatNumbered
<1>4. NumberedFrom(<<>>, Len(c), p) /\ Len(<<>>) = 0
  BY EmptyNumbered
<1> HIDE DEF c
<1>5. Len(c) + Len(<<>>) <= MaxRows
  BY <1>1, <1>3, <1>4
<1>6. RowsOK'
  BY <1>2, <1>3, <1>4, <1>5, RowsUpdate
<1>7. journal'[p] = c /\ buffer'[p] = <<>>
  BY <1>2 DEF RowsOK
<1>8. \A j \in Recorder \ {p} : journal'[j] = journal[j] /\ buffer'[j] = buffer[j]
  BY <1>2 DEF RowsOK
<1> QED
  BY <1>3, <1>6, <1>7, <1>8 DEF a, b

\* A crash loses the buffer and leaves the journal.
LEMMA CrashRows ==
    ASSUME RowsOK, NEW p \in Proc, Crash(p)
    PROVE  RowsOK' /\ journal' = journal
<1>1. CASE p \in Recorder
  <2>1. journal' = [journal EXCEPT ![p] = journal[p]] /\ buffer' = [buffer EXCEPT ![p] = <<>>]
    BY <1>1 DEF Crash, RowsOK
  <2>2. NumberedRows(journal[p], p) /\ Len(journal[p]) + Len(buffer[p]) <= MaxRows
    BY <1>1 DEF RowsOK
  <2>3. Len(journal[p]) + Len(<<>>) <= MaxRows
    <3>1. Len(journal[p]) \in Nat /\ Len(buffer[p]) \in Nat
      BY <1>1 DEF RowsOK
    <3>2. Len(<<>>) = 0
      BY EmptyNumbered
    <3> DEFINE l == Len(journal[p])
               k == Len(buffer[p])
    <3>3. l \in Nat /\ k \in Nat /\ l + k <= MaxRows
      BY <2>2, <3>1
    <3> HIDE DEF l, k
    <3>4. l + 0 <= MaxRows
      BY <3>3, JournalAssumption
    <3> QED
      BY <3>2, <3>4 DEF l
  <2>4. NumberedFrom(<<>>, Len(journal[p]), p)
    BY EmptyNumbered
  <2>5. RowsOK'
    BY <1>1, <2>1, <2>2, <2>3, <2>4, RowsUpdate
  <2> QED
    BY <2>5 DEF Crash
<1>2. CASE p \notin Recorder
  <2>1. journal' = journal /\ buffer' = buffer
    BY <1>2 DEF Crash
  <2> QED
    BY <2>1 DEF RowsOK
<1> QED
  BY <1>1, <1>2

-----------------------------------------------------------------------------
\* Every variable keeps its type, whatever commands run at the same time.

Saving == {"load", "replace", "annotate", "rewrite", "unlink"}

Phases == {"idle", "record", "list", "done", "dead"} \cup Reconciling

SaverOK ==
    /\ pc \in [Proc -> Phases] /\ today \in 1..Day
    /\ linked \subseteq Recorder /\ file \in [1..Day -> Seq(Session)]
    /\ orphans \in [Proc -> SUBSET Recorder] /\ target \in [Proc -> Recorder \cup {"none"}]
    /\ work \in [Proc -> Seq(Session)] /\ copy \in [Proc -> Seq(Session)]
    /\ discarded \subseteq Recorder /\ torn \subseteq Recorder
    /\ \A p \in Proc : pc[p] \in Reconciling => target[p] \in Recorder
    /\ \A p \in Proc : pc[p] \in Saving \ {"unlink"} => work[p] # <<>>

TypeInv == RowsOK /\ SaverOK

\* The type invariant is the numbering of rows and the typing of the savers.
LEMMA TypeInvTyped == TypeInv => TypeOK
BY DEF TypeInv, RowsOK, SaverOK, TypeOK, Phases

\* Nothing is recorded at the start.
LEMMA TypeInit == Init => TypeInv
<1> SUFFICES ASSUME Init PROVE TypeInv
  OBVIOUS
<1>1. RowsOK
  <2>1. \A j \in Recorder : NumberedRows(<<>>, j) /\ NumberedFrom(<<>>, Len(<<>>), j)
    BY DEF NumberedRows, NumberedFrom
  <2>2. Len(<<>>) + Len(<<>>) <= MaxRows
    BY EmptyNumbered, JournalAssumption
  <2>3. buffer \in [Recorder -> Seq(Row)] /\ journal \in [Recorder -> Seq(Row)]
    BY DEF Init
  <2> QED
    BY <2>1, <2>2, <2>3 DEF Init, RowsOK
<1>2. SaverOK
  BY JournalAssumption DEF Init, SaverOK, Phases, Reconciling, Saving
<1> QED
  BY <1>1, <1>2 DEF TypeInv

\* Only the recorder's own actions and its crash touch its rows.
LEMMA RowsStep == TypeInv /\ [Next]_vars => RowsOK'
<1> SUFFICES ASSUME TypeInv, [Next]_vars PROVE RowsOK'
  OBVIOUS
<1>1. RowsOK /\ today \in 1..Day
  BY DEF TypeInv, SaverOK
<1>2. ASSUME journal' = journal, buffer' = buffer PROVE RowsOK'
  BY <1>1, <1>2 DEF RowsOK
<1>3. ASSUME NEW p \in Recorder, Records(p) PROVE RowsOK'
  <2>1. CASE Open(p)
    BY <2>1, <1>2 DEF Open, recorderVars
  <2>2. CASE Append1(p)
    BY <2>2, <1>1, Append1Rows
  <2>3. CASE Flush(p)
    BY <2>3, <1>1, FlushRows
  <2>4. CASE Reconcile(p) \/ Abandon(p) \/ Discard(p)
    <3>1. CloseFile(p)
      BY <2>4 DEF Reconcile, Abandon, Discard
    <3> QED
      BY <3>1, <1>1, CloseRows
  <2> QED
    BY <1>3, <2>1, <2>2, <2>3, <2>4 DEF Records
<1>4. ASSUME NEW p \in Recoverer, ListOrphans(p) \/ Recover(p) \/ DiscardOrphan(p) PROVE RowsOK'
  BY <1>2, <1>4 DEF ListOrphans, Recover, DiscardOrphan, recorderVars
<1>5. ASSUME NEW p \in Proc, Saves(p) PROVE RowsOK'
  <2>1. journal' = journal /\ buffer' = buffer
    BY <1>5 DEF Saves, Read, Load, Replace, Annotate, Rewrite, Unlink, SaveFails, recorderVars
  <2> QED
    BY <2>1, <1>2
<1>6. ASSUME NEW p \in Proc, Crash(p) PROVE RowsOK'
  BY <1>1, <1>6, CrashRows
<1>7. CASE Midnight
  BY <1>2, <1>7 DEF Midnight
<1>8. CASE UNCHANGED vars
  BY <1>2, <1>8 DEF vars, recorderVars
<1> QED
  BY <1>3, <1>4, <1>5, <1>6, <1>7, <1>8 DEF Next

\* What a saving process has in hand is a session, of a day that has a file.
LEMMA InHand ==
    ASSUME SaverOK, NEW p \in Proc, pc[p] \in Saving \ {"unlink"}
    PROVE  /\ Head(work[p]) \in Session /\ Head(work[p]).day \in 1..Day
           /\ Head(work[p]) = work[p][1] /\ 1 \in DOMAIN work[p]
           /\ Tail(work[p]) \in Seq(Session) /\ Len(work[p]) \in Nat
           /\ Len(work[p]) > 1 <=> Tail(work[p]) # <<>>
           /\ Len(Tail(work[p])) = Len(work[p]) - 1
           /\ \A i \in DOMAIN Tail(work[p]) :
                 i + 1 \in DOMAIN work[p] /\ Tail(work[p])[i] = work[p][i + 1]
           /\ file[Head(work[p]).day] \in Seq(Session)
<1> DEFINE w == work[p]
           v == Tail(w)
<1>1. w \in Seq(Session) /\ w # <<>>
  BY DEF SaverOK
<1> HIDE DEF w
<1>2. /\ Len(w) \in Nat /\ Len(w) > 0 /\ DOMAIN w = 1..Len(w)
      /\ v \in Seq(Session) /\ Len(v) = Len(w) - 1 /\ DOMAIN v = 1..Len(v)
      /\ \A i \in 1..Len(v) : v[i] = w[i + 1]
  <2>1. Len(w) \in Nat /\ Len(w) > 0 /\ DOMAIN w = 1..Len(w)
    BY <1>1
  <2> QED
    BY <1>1, <2>1, HeadTailProperties
<1>3. Head(w) \in Session /\ Head(w) = w[1] /\ 1 \in DOMAIN w
  BY <1>1, <1>2, HeadTailProperties
<1>4. Head(w).day \in 1..Day
  BY <1>3 DEF Session
<1> HIDE DEF v
<1>5. Len(w) > 1 <=> v # <<>>
  BY <1>2
<1>6. \A i \in DOMAIN v : i + 1 \in DOMAIN w /\ v[i] = w[i + 1]
  BY <1>2
<1>7. file[Head(w).day] \in Seq(Session)
  BY <1>4 DEF SaverOK
<1> QED
  BY <1>2, <1>3, <1>4, <1>5, <1>6, <1>7 DEF w, v

\* Recorders do not depend on what the savers have in hand.
LEMMA RecordsTyped ==
    ASSUME SaverOK, NEW p \in Recorder, Records(p)
    PROVE  SaverOK'
<1>1. p \in Proc
  BY DEF Proc
<1>2. CASE Open(p)
  BY <1>1, <1>2 DEF Open, MayStart, Go, SaverOK, Phases, Reconciling, Saving, recorderVars,
     saverVars, history
<1>3. CASE Append1(p) \/ Flush(p)
  BY <1>3 DEF Append1, Flush, SaverOK, saverVars, history
<1>4. CASE Reconcile(p)
  BY <1>1, <1>4 DEF Reconcile, CloseFile, Go, SaverOK, Phases, Reconciling, Saving, history
<1>5. CASE Abandon(p) \/ Discard(p)
  BY <1>1, <1>5 DEF Abandon, Discard, CloseFile, Go, SaverOK, Phases, Reconciling, Saving,
     saverVars, history
<1> QED
  BY <1>2, <1>3, <1>4, <1>5 DEF Records

\* A recovery lists and takes up journals of recorders.
LEMMA RecoversTyped ==
    ASSUME SaverOK, NEW p \in Recoverer, ListOrphans(p) \/ Recover(p) \/ DiscardOrphan(p)
    PROVE  SaverOK'
<1>1. p \in Proc
  BY DEF Proc
<1>2. CASE ListOrphans(p)
  BY <1>1, <1>2 DEF ListOrphans, MayStart, Go, SaverOK, Phases, Reconciling, Saving,
     recorderVars, history
<1>3. CASE Recover(p)
  <2>1. UNCHANGED <<today, linked, file, work, copy, discarded, torn>>
    BY <1>3 DEF Recover, recorderVars, history
  <2>2. CASE pc' = [pc EXCEPT ![p] = "done"] /\ UNCHANGED <<orphans, target>>
    BY <2>1, <2>2 DEF SaverOK, Phases, Reconciling, Saving
  <2>3. ASSUME NEW j \in orphans[p],
               /\ pc' = [pc EXCEPT ![p] = "reconcile"]
               /\ orphans' = [orphans EXCEPT ![p] = @ \ {j}]
               /\ target' = [target EXCEPT ![p] = j]
        PROVE  SaverOK'
    <3>1. j \in Recorder /\ orphans[p] \ {j} \in SUBSET Recorder
      BY <1>1, <2>3 DEF SaverOK
    <3> QED
      BY <1>1, <2>1, <2>3, <3>1 DEF SaverOK, Phases, Reconciling, Saving
  <2> QED
    BY <1>3, <2>2, <2>3 DEF Recover
<1>4. CASE DiscardOrphan(p)
  BY <1>1, <1>4 DEF DiscardOrphan, SaverOK, recorderVars
<1> QED
  BY <1>2, <1>3, <1>4

\* What a saver builds, loads and replaces are sequences of sessions.
LEMMA SavesTyped ==
    ASSUME RowsOK, SaverOK, NEW p \in Proc, Saves(p)
    PROVE  SaverOK'
<1>1. Through(p) \in {"list", "done"}
  BY DEF Through
<1>2. CASE Read(p)
  <2> DEFINE j == target[p]
             sessions == IF j \in linked THEN SessionsOf(j) ELSE <<>>
  <2>1. j \in Recorder
    BY <1>2 DEF Read, SaverOK, Reconciling
  <2>2. sessions \in Seq(Session)
    <3>1. GroupOf(SessionsOf(j), j, journal[j], Len(journal[j]))
      BY <2>1, SessionsAreDays DEF RowsOK
    <3> QED
      BY <3>1 DEF GroupOf
  <2>3. /\ work' = [work EXCEPT ![p] = sessions]
        /\ pc' = [pc EXCEPT ![p] = IF sessions = <<>> THEN Through(p) ELSE "load"]
        /\ linked' = IF sessions = <<>> THEN linked \ {j} ELSE linked
        /\ UNCHANGED <<today, file, orphans, target, copy, discarded, torn>>
    BY <1>2 DEF Read, recorderVars, history
  <2> HIDE DEF sessions
  <2>4. work' \in [Proc -> Seq(Session)] /\ linked' \subseteq Recorder
    BY <2>2, <2>3 DEF SaverOK
  <2>5. pc' \in [Proc -> Phases]
    BY <1>1, <2>3 DEF SaverOK, Phases, Reconciling
  <2>6. \A q \in Proc : pc'[q] \in Reconciling => target[q] \in Recorder
    BY <2>1, <2>3 DEF SaverOK
  <2>7. \A q \in Proc : pc'[q] \in Saving \ {"unlink"} => work'[q] # <<>>
    <3> SUFFICES ASSUME NEW q \in Proc, pc'[q] \in Saving \ {"unlink"} PROVE work'[q] # <<>>
      OBVIOUS
    <3>1. CASE q = p
      BY <1>1, <2>3, <3>1 DEF SaverOK, Saving
    <3>2. CASE q # p
      BY <2>3, <3>2 DEF SaverOK
    <3> QED
      BY <3>1, <3>2
  <2> QED
    BY <2>3, <2>4, <2>5, <2>6, <2>7 DEF SaverOK
<1>3. CASE Load(p)
  <2>1. pc[p] \in Saving \ {"unlink"}
    BY <1>3 DEF Load, Go, Saving
  <2>2. file[Head(work[p]).day] \in Seq(Session)
    BY <2>1, InHand
  <2> QED
    BY <1>3, <2>2 DEF Load, Go, SaverOK, Phases, Reconciling, Saving, recorderVars, history
<1>4. CASE Replace(p)
  <2>1. pc[p] \in Saving \ {"unlink"}
    BY <1>4 DEF Replace, Go, Saving
  <2> DEFINE h == Head(work[p])
             c == Append(copy[p], h)
  <2>2. h \in Session /\ h.day \in 1..Day
    BY <2>1, InHand
  <2>3. c \in Seq(Session)
    <3>1. copy[p] \in Seq(Session)
      BY DEF SaverOK
    <3> HIDE DEF h
    <3> QED
      BY <2>2, <3>1
  <2>4. /\ file' = [file EXCEPT ![h.day] = c] /\ copy' = [copy EXCEPT ![p] = <<>>]
        /\ pc' = [pc EXCEPT ![p] = "annotate"] /\ pc[p] = "replace"
        /\ UNCHANGED <<today, linked, orphans, target, work, discarded, torn>>
    BY <1>4 DEF Replace, Go, recorderVars, history
  <2> HIDE DEF h, c
  <2> QED
    BY <2>2, <2>3, <2>4 DEF SaverOK, Phases, Reconciling, Saving
<1>5. CASE Annotate(p) \/ Rewrite(p)
  <2>1. pc[p] \in {"annotate", "rewrite"}
    BY <1>5 DEF Annotate, Rewrite
  <2>2. pc[p] \in Saving \ {"unlink"}
    BY <2>1 DEF Saving
  <2> DEFINE h == Head(work[p])
             v == Tail(work[p])
  <2>3. /\ h.day \in 1..Day /\ v \in Seq(Session) /\ file[h.day] \in Seq(Session)
        /\ copy[p] \in Seq(Session) /\ (Len(work[p]) > 1 <=> v # <<>>)
    BY <2>2, InHand DEF SaverOK
  <2>4. UNCHANGED <<today, linked, orphans, target, discarded, torn>>
    BY <1>5 DEF Annotate, Rewrite, recorderVars, history
  <2>5. \/ /\ work' = [work EXCEPT ![p] = v]
           /\ pc' = [pc EXCEPT ![p] = IF v # <<>> THEN "load" ELSE "unlink"]
        \/ work' = work /\ pc' = [pc EXCEPT ![p] = "rewrite"]
    BY <1>5, <2>3 DEF Annotate, Rewrite, Saved
  <2>6. \/ copy' = copy
        \/ copy' = [copy EXCEPT ![p] = file[h.day]]
        \/ copy' = [copy EXCEPT ![p] = <<>>]
    BY <1>5 DEF Annotate, Rewrite
  <2>7. file' = file \/ file' = [file EXCEPT ![h.day] = copy[p]]
    BY <1>5 DEF Annotate, Rewrite
  <2> HIDE DEF h, v
  <2>8. file' \in [1..Day -> Seq(Session)]
    BY <2>3, <2>7 DEF SaverOK
  <2>9. copy' \in [Proc -> Seq(Session)]
    <3>1. <<>> \in Seq(Session) /\ copy \in [Proc -> Seq(Session)]
      BY DEF SaverOK
    <3> QED
      BY <2>3, <2>6, <3>1
  <2>10. work' \in [Proc -> Seq(Session)] /\ pc' \in [Proc -> Phases]
    BY <2>3, <2>5 DEF SaverOK, Phases, Reconciling
  <2>11. \A q \in Proc : pc'[q] \in Reconciling => target[q] \in Recorder
    BY <2>1, <2>5 DEF SaverOK, Reconciling
  <2>12. \A q \in Proc : pc'[q] \in Saving \ {"unlink"} => work'[q] # <<>>
    BY <2>2, <2>5 DEF SaverOK, Saving
  <2> QED
    BY <2>4, <2>8, <2>9, <2>10, <2>11, <2>12 DEF SaverOK
<1>6. CASE Unlink(p)
  BY <1>1, <1>6 DEF Unlink, Go, SaverOK, Phases, Reconciling, Saving, recorderVars, saverVars,
     history
<1>7. CASE SaveFails(p)
  BY <1>7 DEF SaveFails, SaverOK, Phases, Reconciling, Saving, recorderVars
<1> QED
  BY <1>2, <1>3, <1>4, <1>5, <1>6, <1>7 DEF Saves

\* The typing is inductive, with or without Overlap.
LEMMA TypeStep == TypeInv /\ [Next]_vars => TypeInv'
<1> SUFFICES ASSUME TypeInv, [Next]_vars PROVE SaverOK'
  BY RowsStep DEF TypeInv
<1>1. RowsOK /\ SaverOK
  BY DEF TypeInv
<1>2. ASSUME NEW p \in Proc, Crash(p) PROVE SaverOK'
  BY <1>1, <1>2 DEF Crash, Busy, SaverOK, Phases, Reconciling, Saving
<1>3. CASE Midnight
  BY <1>1, <1>3, JournalAssumption DEF Midnight, SaverOK, saverVars, history
<1>4. CASE UNCHANGED vars
  BY <1>1, <1>4 DEF vars, recorderVars, saverVars, history, SaverOK
<1> QED
  BY <1>1, <1>2, <1>3, <1>4, RecordsTyped, RecoversTyped, SavesTyped DEF Next

\* Every variable keeps its type, for any recorders and recoveries and whether or
\* not they overlap: a saver's session is one of a day that has a file, and a
\* recording never outgrows its bound.
THEOREM TypeCorrect == Spec => []TypeOK
<1>1. Spec => []TypeInv
  BY TypeInit, TypeStep, PTL DEF Spec
<1> QED
  BY <1>1, TypeInvTyped, PTL

-----------------------------------------------------------------------------
\* The inductive invariant while one command runs at a time.

OneAtATime == \A p, q \in Proc : Busy(p) /\ Busy(q) => p = q

\* A session of recording j is in the file of day d.
Filed(j, d) == \E i \in DOMAIN file[d] : file[d][i].of = j

\* A session has all its recording's rows of its day, in order.
Whole(s) ==
    /\ InOrder(s.rows)
    /\ Range(s.rows) = {r \in Range(journal[s.of]) : r.day = s.day}

\* A recording is not saved, cut short or thrown away before its recorder is
\* through with it, and what is discarded is not in .journal/ any more.
Written(j) ==
    /\ pc[j] = "idle" => journal[j] = <<>> /\ j \notin linked
    /\ buffer[j] # <<>> => pc[j] = "record"
    /\ pc[j] = "record" => j \in linked
    /\ j \in discarded => j \notin linked
    /\ pc[j] \in {"idle", "record"} =>
          /\ j \notin torn \cup discarded
          /\ \A d \in 1..Day : ~Filed(j, d)

\* What a recovery has listed and not come to is still there, and so is the journal
\* that is being reconciled.
Listed(p) ==
    /\ orphans[p] \subseteq linked
    /\ orphans[p] # {} => p \in Recoverer /\ Busy(p)
    /\ pc[p] \in Reconciling => target[p] \in linked \ orphans[p]

\* What a saver has in hand are whole sessions of its journal; what it has not, is
\* in the files; and the file it loaded has not changed since.
Kept(p) ==
    /\ pc[p] \in Saving =>
          /\ target[p] \in linked
          /\ \A i \in DOMAIN work[p] : work[p][i].of = target[p] /\ Whole(work[p][i])
          /\ DaysApart(work[p])
          /\ \A r \in Range(journal[target[p]]) :
                Filed(target[p], r.day) \/ \E i \in DOMAIN work[p] : work[p][i].day = r.day
    /\ pc[p] \in {"annotate", "rewrite"} => Filed(target[p], Head(work[p]).day)
    /\ pc[p] = "unlink" => work[p] = <<>>
    /\ pc[p] \in {"replace", "rewrite"} => copy[p] = file[Head(work[p]).day]

\* Process p has saved what it had of day d, or had nothing.
Past(p, d) ==
    /\ pc[p] \in Saving
    /\ \A i \in DOMAIN work[p] :
          work[p][i].day = d => i = 1 /\ pc[p] \in {"annotate", "rewrite"}

OnceEach ==
    \A j \in Recorder \ torn, d \in 1..Day : \A i, k \in DOMAIN file[d] :
        file[d][i].of = j /\ file[d][k].of = j => i = k

\* A journal that is still there, with a session of it in a file, is being saved.
InProgress ==
    \A j \in linked \ torn, d \in 1..Day :
        Filed(j, d) => \E p \in Proc : target[p] = j /\ Past(p, d)

FilesWhole ==
    \A d \in 1..Day : \A i \in DOMAIN file[d] : file[d][i].day = d /\ Whole(file[d][i])

SaverInv ==
    /\ OneAtATime /\ \A p \in Proc : Listed(p) /\ Kept(p)
    /\ OnceEach /\ InProgress /\ FilesWhole

JournalInv == TypeInv /\ SaverInv /\ \A j \in Recorder : Written(j)

-----------------------------------------------------------------------------
\* Nobody but the process that acts is at anything.

Acts(p) ==
    /\ Busy(p) \/ \A q \in Proc : ~Busy(q)
    /\ \E x \in Phases : pc' = [pc EXCEPT ![p] = x]
    /\ \A q \in Proc \ {p} : orphans'[q] = orphans[q]

\* A step of p leaves every other process idle or through, with nothing listed.
LEMMA OthersRest ==
    ASSUME JournalInv, NEW p \in Proc, Acts(p)
    PROVE  /\ OneAtATime'
           /\ \A q \in Proc \ {p} : /\ pc'[q] = pc[q] /\ pc[q] \in {"idle", "done", "dead"}
                                    /\ Listed(q)' /\ Kept(q)'
<1>1. PICK x \in Phases : pc' = [pc EXCEPT ![p] = x]
  BY DEF Acts
<1>2. pc \in [Proc -> Phases]
  BY DEF JournalInv, TypeInv, SaverOK
<1>3. ASSUME NEW q \in Proc \ {p}
      PROVE  /\ pc'[q] = pc[q] /\ pc[q] \in {"idle", "done", "dead"}
             /\ orphans'[q] = {}
  <2>1. ~Busy(q)
    BY DEF Acts, JournalInv, SaverInv, OneAtATime
  <2>2. orphans[q] = {}
    BY <2>1 DEF JournalInv, SaverInv, Listed
  <2> QED
    BY <1>1, <1>2, <2>1, <2>2 DEF Acts, Busy
<1>4. OneAtATime'
  BY <1>3 DEF OneAtATime, Busy
<1>5. ASSUME NEW q \in Proc \ {p} PROVE Listed(q)' /\ Kept(q)'
  BY <1>3 DEF Listed, Kept, Past, Saving, Reconciling
<1> QED
  BY <1>3, <1>4, <1>5

\* While nobody saves, no journal that is still there has a session in a file,
\* but one whose reconcile was cut short.
LEMMA NoneInProgress ==
    ASSUME JournalInv, NEW p \in Proc, Busy(p) \/ \A q \in Proc : ~Busy(q), pc[p] \notin Saving
    PROVE  \A j \in linked \ torn, d \in 1..Day : ~Filed(j, d)
<1>1. \A q \in Proc : pc[q] \notin Saving
  <2> SUFFICES ASSUME NEW q \in Proc, pc[q] \in Saving PROVE FALSE
    OBVIOUS
  <2>1. Busy(q)
    BY DEF Busy, Saving
  <2> QED
    BY <2>1 DEF JournalInv, SaverInv, OneAtATime
<1> QED
  BY <1>1 DEF JournalInv, SaverInv, InProgress, Past

\* What a file holds is a session.
LEMMA FiledTyped ==
    ASSUME SaverOK, NEW d \in 1..Day, NEW i \in DOMAIN file[d]
    PROVE  /\ file[d][i] \in Session /\ file[d][i].of \in Recorder
           /\ file[d][i].rows \in Seq(Row)
<1>1. file[d] \in Seq(Session)
  BY DEF SaverOK
<1>2. file[d][i] \in Session
  BY <1>1
<1> QED
  BY <1>2 DEF Session

\* Sessions in the files are whole as long as the journals they came from do not change.
LEMMA FilesFrame ==
    ASSUME JournalInv, file' = file,
           \A j \in Recorder : journal'[j] = journal[j] \/ \A d \in 1..Day : ~Filed(j, d)
    PROVE  FilesWhole'
<1> SUFFICES ASSUME NEW d \in 1..Day, NEW i \in DOMAIN file[d]
             PROVE  /\ file[d][i].day = d /\ InOrder(file[d][i].rows)
                    /\ Range(file[d][i].rows)
                         = {r \in Range(journal'[file[d][i].of]) : r.day = file[d][i].day}
  BY DEF FilesWhole, Whole, InOrder
<1> DEFINE s == file[d][i]
<1>1. s.day = d /\ Whole(s)
  BY DEF JournalInv, SaverInv, FilesWhole
<1>2. s \in Session /\ s.of \in Recorder
  BY FiledTyped DEF JournalInv, TypeInv
<1>3. journal'[s.of] = journal[s.of]
  BY <1>2 DEF Filed
<1>4. InOrder(s.rows) /\ Range(s.rows) = {r \in Range(journal[s.of]) : r.day = s.day}
  BY <1>1 DEF Whole
<1>5. {r \in Range(journal'[s.of]) : r.day = s.day} = {r \in Range(journal[s.of]) : r.day = s.day}
  BY <1>3
<1> QED
  BY <1>1, <1>4, <1>5

\* A step of a process that does not save, before or after, leaves the files and
\* what is known of them as they were.
LEMMA AsideFromSaving ==
    ASSUME JournalInv, NEW p \in Proc, Acts(p), pc[p] \notin Saving, pc'[p] \notin Saving,
           file' = file, torn \subseteq torn',
           \A j \in linked' : j \in linked \/ \A d \in 1..Day : ~Filed(j, d),
           \A j \in Recorder : journal'[j] = journal[j] \/ \A d \in 1..Day : ~Filed(j, d),
           Listed(p)'
    PROVE  SaverInv'
<1>1. Kept(p)'
  BY DEF Kept, Saving
<1>2. FilesWhole'
  BY FilesFrame
<1>3. OnceEach'
  BY DEF JournalInv, SaverInv, OnceEach
<1>4. InProgress'
  <2>1. \A j \in linked \ torn, d \in 1..Day : ~Filed(j, d)
    BY NoneInProgress DEF Acts
  <2>2. \A j \in linked' \ torn', d \in 1..Day : ~Filed(j, d)
    BY <2>1
  <2> QED
    BY <2>2 DEF InProgress, Filed
<1> QED
  BY <1>1, <1>2, <1>3, <1>4, OthersRest DEF SaverInv

\* What is known of a recording stays known while nothing of it changes.
LEMMA WrittenFrame ==
    ASSUME NEW j, Written(j), pc'[j] = pc[j], journal'[j] = journal[j], buffer'[j] = buffer[j],
           j \in linked' <=> j \in linked, j \in torn' <=> j \in torn,
           j \in discarded' <=> j \in discarded, file' = file
    PROVE  Written(j)'
BY DEF Written, Filed

-----------------------------------------------------------------------------
\* The recorder's actions.

\* A recorder at work is the only process at work, and its journal is in no file.
LEMMA RecorderIsAlone ==
    ASSUME JournalInv, NEW p \in Recorder, Busy(p)
    PROVE  /\ p \in Proc /\ orphans[p] = {} /\ Written(p)
           /\ \A j \in Recorder \ {p} : Written(j) /\ j \in Proc
BY JournalAssumption DEF JournalInv, SaverInv, Listed, Proc

\* A recording begins while nobody is at work.
LEMMA OpenStep ==
    ASSUME JournalInv, ~Overlap, NEW p \in Recorder, Open(p)
    PROVE  SaverInv' /\ \A j \in Recorder : Written(j)'
<1>1. /\ p \in Proc /\ \A q \in Proc : ~Busy(q)
      /\ pc[p] = "idle" /\ pc' = [pc EXCEPT ![p] = "record"]
      /\ linked' = linked \cup {p}
      /\ UNCHANGED <<today, buffer, journal, file, orphans, target, work, copy, discarded, torn>>
  BY DEF Open, MayStart, Go, recorderVars, saverVars, history, Proc
<1>2. pc \in [Proc -> Phases] /\ orphans[p] = {} /\ linked \subseteq Recorder
  BY <1>1 DEF JournalInv, TypeInv, SaverOK, SaverInv, Listed
<1>3. pc'[p] = "record"
  BY <1>1, <1>2
<1>4. Acts(p)
  BY <1>1 DEF Acts, Phases
<1>5. Listed(p)'
  BY <1>1, <1>2, <1>3 DEF Listed, Reconciling
<1>6. Written(p)
  BY DEF JournalInv
<1>7. SaverInv'
  <2>1. \A j \in linked' : j \in linked \/ \A d \in 1..Day : ~Filed(j, d)
    BY <1>1, <1>6 DEF Written
  <2>2. pc[p] \notin Saving /\ pc'[p] \notin Saving
    BY <1>1, <1>3 DEF Saving
  <2> QED
    BY <1>1, <1>4, <1>5, <2>1, <2>2, AsideFromSaving
<1>8. Written(p)'
  <2>1. /\ \A d \in 1..Day : ~Filed(p, d)'
        /\ p \notin torn' \cup discarded'
    BY <1>1, <1>6 DEF Written, Filed
  <2> QED
    BY <1>1, <1>3, <2>1 DEF Written
<1>9. ASSUME NEW j \in Recorder, j # p PROVE Written(j)'
  <2>1. Written(j) /\ pc'[j] = pc[j] /\ (j \in linked' <=> j \in linked)
    BY <1>1, <1>2, <1>9 DEF JournalInv, Proc
  <2> QED
    BY <1>1, <2>1, WrittenFrame
<1> QED
  BY <1>7, <1>8, <1>9

\* What the recorder does to its rows while it records.
LEMMA RecordingStep ==
    ASSUME JournalInv, TypeInv', NEW p \in Recorder, Append1(p) \/ Flush(p)
    PROVE  SaverInv' /\ \A j \in Recorder : Written(j)'
<1>1. /\ pc[p] = "record" /\ pc' = pc
      /\ UNCHANGED <<today, linked, file, orphans, target, work, copy, discarded, torn>>
  BY DEF Append1, Flush, saverVars, history
<1>2. Busy(p)
  BY <1>1 DEF Busy
<1>3. p \in Proc /\ orphans[p] = {} /\ Written(p)
  BY <1>2, RecorderIsAlone
<1>4. pc \in [Proc -> Phases]
  BY DEF JournalInv, TypeInv, SaverOK
<1>5. \A j \in Recorder \ {p} : journal'[j] = journal[j] /\ buffer'[j] = buffer[j]
  <2>1. CASE Append1(p)
    BY <2>1 DEF Append1, JournalInv, TypeInv, RowsOK
  <2>2. CASE Flush(p)
    BY <2>2, FlushRows DEF JournalInv, TypeInv
  <2> QED
    BY <2>1, <2>2
<1>6. Acts(p)
  BY <1>1, <1>2, <1>3, <1>4 DEF Acts, Phases
<1>7. Listed(p)'
  BY <1>1, <1>3 DEF Listed, Reconciling
<1>8. \A d \in 1..Day : ~Filed(p, d)
  BY <1>1, <1>3 DEF Written
<1>9. SaverInv'
  <2>1. \A j \in Recorder : journal'[j] = journal[j] \/ \A d \in 1..Day : ~Filed(j, d)
    BY <1>5, <1>8
  <2>2. pc[p] \notin Saving
    BY <1>1 DEF Saving
  <2> QED
    BY <1>1, <1>3, <1>6, <1>7, <2>1, <2>2, AsideFromSaving
<1>10. Written(p)'
  BY <1>1, <1>3 DEF Written, Filed
<1>11. ASSUME NEW j \in Recorder, j # p PROVE Written(j)'
  <2>1. Written(j)
    BY DEF JournalInv
  <2> QED
    BY <1>1, <1>5, <1>11, <2>1, WrittenFrame
<1> QED
  BY <1>9, <1>10, <1>11

\* The recorder closes its file, to reconcile it, to leave it or to discard it.
LEMMA ClosingStep ==
    ASSUME JournalInv, TypeInv', NEW p \in Recorder, Reconcile(p) \/ Abandon(p) \/ Discard(p)
    PROVE  SaverInv' /\ \A j \in Recorder : Written(j)'
<1>1. /\ pc[p] = "record" /\ CloseFile(p)
      /\ UNCHANGED <<today, file, orphans, work, copy, torn>>
  BY DEF Reconcile, Abandon, Discard, Go, CloseFile, saverVars, history
<1>2. Busy(p)
  BY <1>1 DEF Busy
<1>3. p \in Proc /\ orphans[p] = {} /\ Written(p)
  BY <1>2, RecorderIsAlone
<1>4. pc \in [Proc -> Phases]
  BY DEF JournalInv, TypeInv, SaverOK
<1>5. /\ buffer'[p] = <<>>
      /\ \A j \in Recorder \ {p} : journal'[j] = journal[j] /\ buffer'[j] = buffer[j]
  BY <1>1, CloseRows DEF JournalInv, TypeInv
<1>6. \/ pc' = [pc EXCEPT ![p] = "reconcile"] /\ linked' = linked /\ discarded' = discarded
      \/ pc' = [pc EXCEPT ![p] = "done"] /\ linked' = linked /\ discarded' = discarded
      \/ /\ pc' = [pc EXCEPT ![p] = "done"]
         /\ linked' = linked \ {p} /\ discarded' = discarded \cup {p}
  BY DEF Reconcile, Abandon, Discard, Go, saverVars, history
<1>7. pc'[p] \in {"reconcile", "done"} /\ \A j \in Recorder \ {p} : pc'[j] = pc[j]
  BY <1>3, <1>4, <1>6 DEF Proc
<1>8. Acts(p)
  BY <1>1, <1>2, <1>6 DEF Acts, Phases, Reconciling
<1>9. Listed(p)'
  <2>1. CASE pc' = [pc EXCEPT ![p] = "done"]
    BY <1>1, <1>3, <1>4, <2>1 DEF Listed, Reconciling
  <2>2. CASE pc'[p] = "reconcile"
    <3>1. Reconcile(p)
      BY <1>3, <1>4, <2>2 DEF Reconcile, Abandon, Discard, Go
    <3>2. target'[p] = p /\ linked' = linked
      BY <1>3, <3>1 DEF Reconcile, JournalInv, TypeInv, SaverOK
    <3>3. p \in linked
      BY <1>1, <1>3 DEF Written
    <3> QED
      BY <1>1, <1>3, <3>2, <3>3 DEF Listed
  <2> QED
    BY <1>6, <1>7, <2>1, <2>2
<1>10. \A d \in 1..Day : ~Filed(p, d)
  BY <1>1, <1>3 DEF Written
<1>11. SaverInv'
  <2>1. \A j \in Recorder : journal'[j] = journal[j] \/ \A d \in 1..Day : ~Filed(j, d)
    BY <1>5, <1>10
  <2>2. pc[p] \notin Saving /\ pc'[p] \notin Saving
    BY <1>1, <1>7 DEF Saving
  <2>3. \A j \in linked' : j \in linked
    BY <1>6
  <2> QED
    BY <1>1, <1>3, <1>8, <1>9, <2>1, <2>2, <2>3, AsideFromSaving
<1>12. Written(p)'
  <2>1. p \in discarded' => p \notin linked'
    BY <1>3, <1>6 DEF Written
  <2> QED
    BY <1>5, <1>7, <2>1 DEF Written
<1>13. ASSUME NEW j \in Recorder, j # p PROVE Written(j)'
  <2>1. Written(j) /\ (j \in linked' <=> j \in linked) /\ (j \in discarded' <=> j \in discarded)
    BY <1>6, <1>13 DEF JournalInv
  <2> QED
    BY <1>1, <1>5, <1>7, <1>13, <2>1, WrittenFrame
<1> QED
  BY <1>11, <1>12, <1>13

-----------------------------------------------------------------------------
\* The recovery's actions, and midnight.

\* A recovery lists, takes up or discards journals, and saves nothing yet.
LEMMA RecoveryStep ==
    ASSUME JournalInv, TypeInv', ~Overlap, NEW p \in Recoverer,
           ListOrphans(p) \/ Recover(p) \/ DiscardOrphan(p)
    PROVE  SaverInv' /\ \A j \in Recorder : Written(j)'
<1>1. /\ pc[p] \in {"idle", "list"}
      /\ UNCHANGED <<today, buffer, journal, file, work, copy, torn>>
  BY DEF ListOrphans, Recover, DiscardOrphan, Go, recorderVars, history
<1>2. /\ p \in Proc /\ p \notin Recorder /\ pc \in [Proc -> Phases] /\ linked \subseteq Recorder
      /\ orphans \in [Proc -> SUBSET Recorder] /\ target \in [Proc -> Recorder \cup {"none"}]
  BY JournalAssumption DEF Proc, JournalInv, TypeInv, SaverOK
<1>3. Busy(p) \/ \A q \in Proc : ~Busy(q)
  BY <1>2 DEF ListOrphans, MayStart, Recover, DiscardOrphan, Busy
<1>4. orphans[p] \subseteq linked
  BY <1>2 DEF JournalInv, SaverInv, Listed
<1>5. /\ \E x \in {"list", "done", "reconcile"} : pc' = [pc EXCEPT ![p] = x]
      /\ \A q \in Proc \ {p} : orphans'[q] = orphans[q]
  <2>1. CASE ListOrphans(p) \/ Recover(p)
    BY <1>2, <2>1 DEF ListOrphans, Recover, Go
  <2>2. CASE DiscardOrphan(p)
    <3>1. pc' = [pc EXCEPT ![p] = "list"]
      BY <1>2, <2>2 DEF DiscardOrphan
    <3> QED
      BY <1>2, <2>2, <3>1 DEF DiscardOrphan
  <2> QED
    BY <2>1, <2>2
<1>6. Acts(p)
  BY <1>3, <1>5 DEF Acts, Phases, Reconciling
<1>7. pc[p] \notin Saving /\ pc'[p] \notin Saving
  BY <1>1, <1>2, <1>5 DEF Saving
<1>8. \A j \in Recorder : pc'[j] = pc[j] /\ j \in Proc
  BY <1>2, <1>5 DEF Proc
<1>9. linked' \subseteq linked /\ Listed(p)'
  <2>1. CASE ListOrphans(p)
    BY <1>2, <2>1 DEF ListOrphans, Go, Listed, Busy, Reconciling, history
  <2>2. CASE Recover(p)
    <3>1. CASE orphans[p] = {}
      BY <1>2, <2>2, <3>1 DEF Recover, Listed, Reconciling, history
    <3>2. CASE orphans[p] # {}
      BY <1>2, <1>4, <2>2, <3>2 DEF Recover, Listed, Busy, history
    <3> QED
      BY <3>1, <3>2
  <2>3. CASE DiscardOrphan(p)
    BY <1>2, <1>4, <2>3 DEF DiscardOrphan, Listed, Busy, Reconciling
  <2> QED
    BY <2>1, <2>2, <2>3
<1>10. SaverInv'
  BY <1>1, <1>2, <1>6, <1>7, <1>9, AsideFromSaving
<1>11. ASSUME NEW j \in Recorder PROVE Written(j)'
  <2>1. Written(j)
    BY DEF JournalInv
  <2>2. CASE ListOrphans(p) \/ Recover(p)
    <3>1. linked' = linked /\ discarded' = discarded
      BY <2>2 DEF ListOrphans, Recover, history
    <3> QED
      BY <1>1, <1>8, <2>1, <3>1, WrittenFrame
  <2>3. CASE DiscardOrphan(p)
    <3>1. PICK k \in orphans[p] : linked' = linked \ {k} /\ discarded' = discarded \cup {k}
      BY <2>3 DEF DiscardOrphan
    <3>2. CASE j # k
      BY <1>1, <1>8, <2>1, <3>1, <3>2, WrittenFrame
    <3>3. CASE j = k
      <4>1. j \in linked
        BY <1>4, <3>3
      <4>2. Busy(p) /\ j # p
        BY <1>2, <2>3 DEF DiscardOrphan, Busy
      <4>3. ~Busy(j)
        BY <1>2, <1>8, <4>2 DEF JournalInv, SaverInv, OneAtATime
      <4>4. pc[j] \notin {"idle", "record"}
        BY <2>1, <4>1, <4>3 DEF Written, Busy
      <4>5. buffer'[j] = <<>> /\ pc'[j] \notin {"idle", "record"} /\ j \notin linked'
        BY <1>1, <1>8, <2>1, <3>1, <3>3, <4>4 DEF Written
      <4> QED
        BY <4>5 DEF Written
    <3> QED
      BY <3>2, <3>3
  <2> QED
    BY <2>2, <2>3
<1> QED
  BY <1>10, <1>11

\* At midnight nothing moves.
LEMMA StillStep ==
    ASSUME JournalInv,
           UNCHANGED <<pc, buffer, journal, linked, file, orphans, target, work, copy,
                       discarded, torn>>
    PROVE  SaverInv' /\ \A j \in Recorder : Written(j)'
<1>1. \A p \in Proc : Listed(p)' /\ Kept(p)'
  <2> SUFFICES ASSUME NEW p \in Proc PROVE Listed(p)' /\ Kept(p)'
    OBVIOUS
  <2>1. Listed(p) /\ Kept(p)
    BY DEF JournalInv, SaverInv
  <2>2. Listed(p)'
    BY <2>1 DEF Listed, Busy
  <2>3. Kept(p)'
    BY <2>1 DEF Kept, Filed, Whole, InOrder, DaysApart
  <2> QED
    BY <2>2, <2>3
<1>2. OneAtATime'
  BY DEF JournalInv, SaverInv, OneAtATime, Busy
<1>3. OnceEach' /\ InProgress'
  BY DEF JournalInv, SaverInv, OnceEach, InProgress, Past, Filed
<1>4. FilesWhole'
  BY FilesFrame
<1>5. \A j \in Recorder : Written(j)'
  BY WrittenFrame DEF JournalInv
<1> QED
  BY <1>1, <1>2, <1>3, <1>4, <1>5 DEF SaverInv

-----------------------------------------------------------------------------
\* The saver's actions.

\* A journal that is still there, of a recording a saver may be about, is final.
LEMMA SaverIsAlone ==
    ASSUME JournalInv, NEW p \in Proc, Busy(p), pc[p] # "record"
    PROVE  \A j \in Recorder : pc[j] # "record" /\ (j \in linked => pc[j] # "idle")
<1> SUFFICES ASSUME NEW j \in Recorder
             PROVE  pc[j] # "record" /\ (j \in linked => pc[j] # "idle")
  OBVIOUS
<1>1. j \in Proc /\ Written(j)
  BY DEF Proc, JournalInv
<1>2. pc[j] # "record"
  BY <1>1 DEF JournalInv, SaverInv, OneAtATime, Busy
<1> QED
  BY <1>1, <1>2 DEF Written

\* What a saver does leaves what is known of the recordings: it files, unlinks and
\* cuts short only what is still there.
LEMMA WrittenWhileSaving ==
    ASSUME JournalInv, NEW p \in Proc, Busy(p), pc[p] # "record",
           NEW x \in {"list", "done", "dead"} \cup Reconciling, pc' = [pc EXCEPT ![p] = x],
           journal' = journal, buffer' = buffer, discarded' = discarded,
           linked' \subseteq linked, torn' \subseteq torn \cup linked,
           \A j \in Recorder, d \in 1..Day : Filed(j, d)' => Filed(j, d) \/ j \in linked
    PROVE  \A j \in Recorder : Written(j)'
<1> SUFFICES ASSUME NEW j \in Recorder PROVE Written(j)'
  OBVIOUS
<1>1. Written(j) /\ j \in Proc /\ pc \in [Proc -> Phases]
  BY DEF JournalInv, Proc, TypeInv, SaverOK
<1>2. pc[j] # "record" /\ (j \in linked => pc[j] # "idle")
  BY SaverIsAlone
<1>3. x \notin {"idle", "record"}
  BY DEF Reconciling
<1>4. pc'[j] # "record" /\ (pc'[j] = "idle" => pc[j] = "idle")
  BY <1>1, <1>2, <1>3
<1>5. buffer'[j] = <<>>
  BY <1>1, <1>2 DEF Written
<1>6. ASSUME pc[j] = "idle"
      PROVE  /\ journal'[j] = <<>> /\ j \notin linked' /\ j \notin torn' \cup discarded'
             /\ \A d \in 1..Day : ~Filed(j, d)'
  BY <1>1, <1>2, <1>6 DEF Written
<1>7. j \in discarded' => j \notin linked'
  BY <1>1 DEF Written
<1> QED
  BY <1>4, <1>5, <1>6, <1>7 DEF Written

\* While p saves, only the journal it saves may be there with a session in a file.
LEMMA OnlyTarget ==
    ASSUME JournalInv, NEW p \in Proc, Busy(p), pc[p] # "record",
           NEW j \in linked \ torn, NEW d \in 1..Day, Filed(j, d)
    PROVE  target[p] = j /\ Past(p, d)
<1>1. PICK q \in Proc : target[q] = j /\ Past(q, d)
  BY DEF JournalInv, SaverInv, InProgress
<1>2. Busy(q)
  BY <1>1 DEF Past, Busy, Saving
<1>3. q = p
  BY <1>2 DEF JournalInv, SaverInv, OneAtATime
<1> QED
  BY <1>1, <1>3

\* A saver that is through with a journal, or cut short, leaves the files as they are.
LEMMA SavingEnds ==
    ASSUME JournalInv, NEW p \in Proc, Busy(p), pc[p] # "record", Acts(p), pc'[p] \notin Saving,
           file' = file, journal' = journal, torn \subseteq torn', linked' \subseteq linked,
           target[p] \notin linked' \ torn', Listed(p)'
    PROVE  SaverInv'
<1>1. Kept(p)'
  BY DEF Kept, Saving
<1>2. FilesWhole'
  BY FilesFrame
<1>3. OnceEach'
  BY DEF JournalInv, SaverInv, OnceEach
<1>4. InProgress'
  <2>1. \A j \in linked' \ torn', d \in 1..Day : ~Filed(j, d)
    BY OnlyTarget
  <2> QED
    BY <2>1 DEF InProgress, Filed
<1> QED
  BY <1>1, <1>2, <1>3, <1>4, OthersRest DEF SaverInv

\* What every action of a saver keeps, and what it may do to pc.
LEMMA SaverFrame ==
    ASSUME JournalInv, NEW p \in Proc, pc[p] \in Reconciling,
           NEW x \in {"list", "done", "dead"} \cup Reconciling, pc' = [pc EXCEPT ![p] = x],
           \A q \in Proc \ {p} : orphans'[q] = orphans[q]
    PROVE  /\ Busy(p) /\ pc[p] # "record" /\ Acts(p) /\ pc'[p] = x
           /\ target[p] \in linked \ orphans[p] /\ linked \subseteq Recorder
           /\ target[p] \in Recorder /\ Kept(p) /\ Listed(p)
<1>1. Busy(p) /\ pc[p] # "record"
  BY DEF Busy, Reconciling
<1>2. pc \in [Proc -> Phases] /\ linked \subseteq Recorder
  BY DEF JournalInv, TypeInv, SaverOK
<1>3. Listed(p) /\ Kept(p)
  BY DEF JournalInv, SaverInv
<1>4. x \in Phases
  BY DEF Phases
<1> QED
  BY <1>1, <1>2, <1>3, <1>4 DEF Acts, Listed

\* The journal that goes is one whose sessions are all filed.
LEMMA UnlinkStep ==
    ASSUME JournalInv, NEW p \in Proc, pc[p] \in {"reconcile", "unlink"},
           pc' = [pc EXCEPT ![p] = Through(p)], linked' = linked \ {target[p]},
           UNCHANGED <<today, buffer, journal, file, orphans, target, copy, discarded, torn>>
    PROVE  SaverInv' /\ \A j \in Recorder : Written(j)'
<1>1. Through(p) \in {"list", "done"} /\ (p \in Recoverer => Through(p) = "list")
  BY DEF Through
<1>2. /\ Busy(p) /\ pc[p] # "record" /\ Acts(p) /\ pc'[p] = Through(p)
      /\ target[p] \in linked \ orphans[p] /\ Listed(p)
  BY <1>1, SaverFrame DEF Reconciling
<1>3. Listed(p)'
  BY <1>1, <1>2 DEF Listed, Busy, Reconciling
<1>4. pc'[p] \notin Saving
  BY <1>1, <1>2 DEF Saving
<1>5. SaverInv'
  BY <1>2, <1>3, <1>4, SavingEnds
<1>6. \A j \in Recorder, d \in 1..Day : Filed(j, d)' => Filed(j, d)
  BY DEF Filed
<1>7. \A j \in Recorder : Written(j)'
  BY <1>1, <1>2, <1>6, WrittenWhileSaving
<1> QED
  BY <1>5, <1>7

\* A save that raises leaves the journal, which from then on may be stored again.
LEMMA CutShortStep ==
    ASSUME JournalInv, NEW p \in Proc, pc[p] \in Reconciling,
           NEW x \in {"list", "dead"}, pc' = [pc EXCEPT ![p] = x],
           x = "list" => p \in Recoverer /\ orphans' = orphans,
           x = "dead" => orphans'[p] = {} /\ \A q \in Proc \ {p} : orphans'[q] = orphans[q],
           torn' = torn \cup {target[p]},
           UNCHANGED <<today, buffer, journal, linked, file, target, discarded>>
    PROVE  SaverInv' /\ \A j \in Recorder : Written(j)'
<1>1. \A q \in Proc \ {p} : orphans'[q] = orphans[q]
  OBVIOUS
<1>2. /\ Busy(p) /\ pc[p] # "record" /\ Acts(p) /\ pc'[p] = x
      /\ target[p] \in linked \ orphans[p] /\ Listed(p)
  BY <1>1, SaverFrame
<1>3. Listed(p)'
  BY <1>2 DEF Listed, Busy, Reconciling
<1>4. pc'[p] \notin Saving
  BY <1>2 DEF Saving
<1>5. SaverInv'
  BY <1>2, <1>3, <1>4, SavingEnds
<1>6. \A j \in Recorder, d \in 1..Day : Filed(j, d)' => Filed(j, d)
  BY DEF Filed
<1>7. \A j \in Recorder : Written(j)'
  BY <1>2, <1>6, WrittenWhileSaving
<1> QED
  BY <1>5, <1>7

\* The sessions built of a journal are all it has.
LEMMA BuiltWhole ==
    ASSUME RowsOK, NEW j \in Recorder
    PROVE  /\ SessionsOf(j) \in Seq(Session)
           /\ \A i \in DOMAIN SessionsOf(j) : SessionsOf(j)[i].of = j /\ Whole(SessionsOf(j)[i])
           /\ DaysApart(SessionsOf(j))
           /\ \A r \in Range(journal[j]) : \E i \in DOMAIN SessionsOf(j) :
                 SessionsOf(j)[i].day = r.day
<1> DEFINE w == SessionsOf(j)
           rows == journal[j]
<1>1. GroupOf(w, j, rows, Len(rows))
  BY SessionsAreDays DEF RowsOK
<1>2. rows \in Seq(Row) /\ DOMAIN rows = 1..Len(rows)
  BY DEF RowsOK
<1> HIDE DEF w
<1>3. ASSUME NEW i \in DOMAIN w PROVE w[i].of = j /\ Whole(w[i])
  <2>1. SessionOf(w[i], j, rows, Len(rows))
    BY <1>1 DEF GroupOf
  <2>2. RowsOfDay(rows, Len(rows), w[i].day) = {r \in Range(rows) : r.day = w[i].day}
    BY <1>2 DEF RowsOfDay, Range
  <2> QED
    BY <2>1, <2>2 DEF SessionOf, Whole
<1>4. \A r \in Range(rows) : \E i \in DOMAIN w : w[i].day = r.day
  BY <1>1, <1>2 DEF GroupOf, Range
<1> QED
  BY <1>1, <1>3, <1>4 DEF GroupOf, w

\* The sessions are built, or there are none and the journal goes.
LEMMA BuildStep ==
    ASSUME JournalInv, NEW p \in Proc, pc[p] = "reconcile",
           pc' = [pc EXCEPT ![p] = "load"], work' = [work EXCEPT ![p] = SessionsOf(target[p])],
           UNCHANGED <<today, buffer, journal, linked, file, orphans, target, copy,
                       discarded, torn>>
    PROVE  SaverInv' /\ \A j \in Recorder : Written(j)'
<1> DEFINE j == target[p]
           w == SessionsOf(j)
<1>1. /\ Busy(p) /\ pc[p] # "record" /\ Acts(p) /\ pc'[p] = "load"
      /\ j \in linked \ orphans[p] /\ Listed(p) /\ j \in Recorder
  BY SaverFrame DEF Reconciling
<1>2. Listed(p)'
  BY <1>1 DEF Listed, Busy
<1>3. /\ \A i \in DOMAIN w : w[i].of = j /\ Whole(w[i])
      /\ DaysApart(w)
      /\ \A r \in Range(journal[j]) : \E i \in DOMAIN w : w[i].day = r.day
  BY <1>1, BuiltWhole DEF JournalInv, TypeInv
<1>4. work'[p] = w
  BY DEF JournalInv, TypeInv, SaverOK
<1> HIDE DEF w
<1>5. Kept(p)'
  <2>1. \A i \in DOMAIN w : /\ w[i].of = j /\ InOrder(w[i].rows)
                            /\ Range(w[i].rows) = {r \in Range(journal'[j]) : r.day = w[i].day}
    BY <1>3 DEF Whole
  <2>2. \A i \in DOMAIN work'[p] : work'[p][i].of = j /\ Whole(work[p][i])'
    BY <1>4, <2>1 DEF Whole, InOrder
  <2> QED
    BY <1>1, <1>3, <1>4, <2>2 DEF Kept, DaysApart
<1>6. FilesWhole'
  BY FilesFrame
<1>7. OnceEach'
  BY DEF JournalInv, SaverInv, OnceEach
<1>8. InProgress'
  <2>1. \A k \in linked \ torn, d \in 1..Day : ~Filed(k, d)
    BY <1>1, NoneInProgress DEF Saving
  <2> QED
    BY <2>1 DEF InProgress, Filed
<1>9. SaverInv'
  BY <1>1, <1>2, <1>5, <1>6, <1>7, <1>8, OthersRest DEF SaverInv
<1>10. \A k \in Recorder, d \in 1..Day : Filed(k, d)' => Filed(k, d)
  BY DEF Filed
<1>11. \A k \in Recorder : Written(k)'
  BY <1>1, <1>10, WrittenWhileSaving DEF Reconciling
<1> QED
  BY <1>9, <1>11

\* A step that loads the day's file, or finds a timeline to add to it.
LEMMA LoadedStep ==
    ASSUME JournalInv, NEW p \in Proc,
           NEW x \in {"replace", "rewrite"}, pc[p] = IF x = "replace" THEN "load" ELSE "annotate",
           pc' = [pc EXCEPT ![p] = x],
           copy' = [copy EXCEPT ![p] = file[Head(work[p]).day]],
           UNCHANGED <<today, buffer, journal, linked, file, orphans, target, work,
                       discarded, torn>>
    PROVE  SaverInv' /\ \A j \in Recorder : Written(j)'
<1>1. /\ Busy(p) /\ pc[p] # "record" /\ Acts(p) /\ pc'[p] = x
      /\ target[p] \in linked \ orphans[p] /\ Listed(p) /\ Kept(p)
  BY SaverFrame DEF Reconciling
<1>2. Listed(p)'
  BY <1>1 DEF Listed, Busy
<1>3. copy'[p] = file[Head(work[p]).day]
  BY DEF JournalInv, TypeInv, SaverOK
<1>4. pc[p] \in Saving /\ (pc[p] \in {"annotate", "rewrite"} <=> x = "rewrite")
  BY DEF Saving
<1>5. Kept(p)'
  <2>1. \A i \in DOMAIN work[p] : Whole(work[p][i])'
    BY <1>1, <1>4 DEF Kept, Whole, InOrder
  <2> QED
    BY <1>1, <1>3, <1>4, <2>1 DEF Kept, DaysApart, Filed
<1>6. FilesWhole'
  BY FilesFrame
<1>7. OnceEach'
  BY DEF JournalInv, SaverInv, OnceEach
<1>8. InProgress'
  <2> SUFFICES ASSUME NEW j \in linked \ torn, NEW d \in 1..Day, Filed(j, d)
               PROVE  target[p] = j /\ Past(p, d)'
    BY DEF InProgress, Filed
  <2>1. target[p] = j /\ Past(p, d)
    BY <1>1, OnlyTarget
  <2> QED
    BY <1>1, <1>4, <2>1 DEF Past, Saving
<1>9. SaverInv'
  BY <1>1, <1>2, <1>5, <1>6, <1>7, <1>8, OthersRest DEF SaverInv
<1>10. \A k \in Recorder, d \in 1..Day : Filed(k, d)' => Filed(k, d)
  BY DEF Filed
<1>11. \A k \in Recorder : Written(k)'
  BY <1>1, <1>10, WrittenWhileSaving DEF Reconciling
<1> QED
  BY <1>9, <1>11

\* A session that is through leaves the saver's hands, and the file as it is.
LEMMA SavedStep ==
    ASSUME JournalInv, NEW p \in Proc, pc[p] \in {"annotate", "rewrite"}, Saved(p),
           file' = file,
           UNCHANGED <<today, buffer, journal, linked, orphans, target, discarded, torn>>
    PROVE  SaverInv' /\ \A j \in Recorder : Written(j)'
<1> DEFINE w == work[p]
           v == Tail(w)
           j == target[p]
           x == IF Len(w) > 1 THEN "load" ELSE "unlink"
<1>1. pc' = [pc EXCEPT ![p] = x] /\ work' = [work EXCEPT ![p] = v]
  BY DEF Saved
<1>2. x \in {"load", "unlink"}
  OBVIOUS
<1> HIDE DEF x
<1>3. /\ Busy(p) /\ pc[p] # "record" /\ Acts(p) /\ pc'[p] = x
      /\ j \in linked \ orphans[p] /\ Listed(p) /\ Kept(p)
  BY <1>1, <1>2, SaverFrame DEF Reconciling
<1>4. Listed(p)'
  BY <1>2, <1>3 DEF Listed, Busy
<1>5. /\ Head(w) = w[1] /\ 1 \in DOMAIN w /\ Len(w) \in Nat /\ Len(v) = Len(w) - 1
      /\ v \in Seq(Session) /\ w \in Seq(Session)
      /\ \A i \in DOMAIN v : i + 1 \in DOMAIN w /\ v[i] = w[i + 1]
      /\ Len(w) > 1 <=> v # <<>>
  BY InHand DEF Saving, JournalInv, TypeInv, SaverOK
<1>6. work'[p] = v
  BY <1>1 DEF JournalInv, TypeInv, SaverOK
<1>7. /\ \A i \in DOMAIN w : w[i].of = j /\ Whole(w[i])
      /\ DaysApart(w)
      /\ \A r \in Range(journal[j]) : Filed(j, r.day) \/ \E i \in DOMAIN w : w[i].day = r.day
      /\ Filed(j, w[1].day)
  BY <1>3, <1>5 DEF Kept, Saving
<1> HIDE DEF v, w
<1>8. \A i \in DOMAIN w : i = 1 \/ (i - 1 \in DOMAIN v /\ v[i - 1] = w[i])
  <2>1. DOMAIN w = 1..Len(w) /\ DOMAIN v = 1..Len(v)
    BY <1>5
  <2> SUFFICES ASSUME NEW i \in DOMAIN w, i # 1 PROVE i - 1 \in DOMAIN v /\ v[i - 1] = w[i]
    OBVIOUS
  <2>2. i - 1 \in DOMAIN v /\ (i - 1) + 1 = i
    BY <1>5, <2>1
  <2> QED
    BY <1>5, <2>2
<1>9. Kept(p)'
  <2>1. \A i \in DOMAIN work'[p] : work'[p][i].of = j /\ Whole(work[p][i])'
    <3>1. \A i \in DOMAIN v : /\ v[i].of = j /\ InOrder(v[i].rows)
                              /\ Range(v[i].rows) = {r \in Range(journal'[j]) : r.day = v[i].day}
      BY <1>5, <1>7 DEF Whole
    <3> QED
      BY <1>6, <3>1 DEF Whole, InOrder
  <2>2. DaysApart(v)
    <3> SUFFICES ASSUME NEW i \in DOMAIN v, NEW k \in DOMAIN v, v[i].day = v[k].day
                 PROVE  i = k
      BY DEF DaysApart
    <3>1. i + 1 = k + 1
      BY <1>5, <1>7 DEF DaysApart
    <3>2. i \in Nat /\ k \in Nat
      BY <1>5
    <3> QED
      BY <3>1, <3>2
  <2>3. \A r \in Range(journal[j]) : Filed(j, r.day)' \/ \E i \in DOMAIN v : v[i].day = r.day
    <3> SUFFICES ASSUME NEW r \in Range(journal[j])
                 PROVE  Filed(j, r.day) \/ \E i \in DOMAIN v : v[i].day = r.day
      BY DEF Filed
    <3> QED
      BY <1>7, <1>8
  <2>4. x = "unlink" => v = <<>>
    BY <1>5 DEF x
  <2> QED
    BY <1>2, <1>3, <1>6, <2>1, <2>2, <2>3, <2>4 DEF Kept, DaysApart
<1>10. FilesWhole'
  BY FilesFrame
<1>11. OnceEach'
  BY DEF JournalInv, SaverInv, OnceEach
<1>12. InProgress'
  <2> SUFFICES ASSUME NEW k \in linked \ torn, NEW d \in 1..Day, Filed(k, d)
               PROVE  target[p] = k /\ Past(p, d)'
    BY DEF InProgress, Filed
  <2>1. target[p] = k /\ Past(p, d)
    BY <1>3, OnlyTarget
  <2>2. \A i \in DOMAIN v : v[i].day # d
    <3> SUFFICES ASSUME NEW i \in DOMAIN v, v[i].day = d PROVE FALSE
      OBVIOUS
    <3>1. i + 1 = 1
      BY <1>5, <2>1 DEF Past, w
    <3>2. i \in Nat /\ i > 0
      BY <1>5
    <3> QED
      BY <3>1, <3>2
  <2> QED
    BY <1>2, <1>3, <1>6, <2>1, <2>2 DEF Past, Saving
<1>13. SaverInv'
  BY <1>3, <1>4, <1>9, <1>10, <1>11, <1>12, OthersRest DEF SaverInv
<1>14. \A k \in Recorder, d \in 1..Day : Filed(k, d)' => Filed(k, d)
  BY DEF Filed
<1>15. \A k \in Recorder : Written(k)'
  BY <1>1, <1>2, <1>3, <1>14, WrittenWhileSaving DEF Reconciling
<1> QED
  BY <1>13, <1>15

\* The session is filed: whole, of that day, and the first of its recording there
\* unless a reconcile of it was cut short before.
LEMMA FileStep ==
    ASSUME JournalInv, NEW p \in Proc, Replace(p)
    PROVE  SaverInv' /\ \A j \in Recorder : Written(j)'
<1> DEFINE w == work[p]
           h == Head(w)
           j == target[p]
           e == h.day
           l == Len(file[e]) + 1
<1>1. /\ pc[p] = "replace" /\ pc' = [pc EXCEPT ![p] = "annotate"]
      /\ file' = [file EXCEPT ![e] = Append(copy[p], h)]
      /\ UNCHANGED <<today, buffer, journal, linked, orphans, target, work, discarded, torn>>
  BY DEF Replace, Go, recorderVars, history
<1>2. /\ Busy(p) /\ pc[p] # "record" /\ Acts(p) /\ pc'[p] = "annotate"
      /\ j \in linked \ orphans[p] /\ Listed(p) /\ Kept(p) /\ j \in Recorder
  BY <1>1, SaverFrame DEF Reconciling
<1>3. Listed(p)'
  BY <1>1, <1>2 DEF Listed, Busy
<1>4. /\ h \in Session /\ e \in 1..Day /\ h = w[1] /\ 1 \in DOMAIN w
      /\ file[e] \in Seq(Session)
  BY <1>1, InHand DEF Saving, JournalInv, TypeInv, SaverOK
<1>5. /\ \A i \in DOMAIN w : w[i].of = j /\ Whole(w[i])
      /\ DaysApart(w)
      /\ \A r \in Range(journal[j]) : Filed(j, r.day) \/ \E i \in DOMAIN w : w[i].day = r.day
      /\ copy[p] = file[e]
  BY <1>1, <1>2 DEF Kept, Saving
<1>6. h.of = j /\ Whole(h)
  BY <1>4, <1>5
<1>7. file' = [file EXCEPT ![e] = Append(file[e], h)] /\ file \in [1..Day -> Seq(Session)]
  BY <1>1, <1>5 DEF JournalInv, TypeInv, SaverOK
<1> HIDE DEF h, e, w
<1>8. /\ DOMAIN file'[e] = (DOMAIN file[e]) \cup {l} /\ l \notin DOMAIN file[e]
      /\ file'[e][l] = h /\ \A i \in DOMAIN file[e] : file'[e][i] = file[e][i]
      /\ \A d \in (1..Day) \ {e} : file'[d] = file[d]
  <2>1. file'[e] = Append(file[e], h)
    BY <1>4, <1>7
  <2>2. l \notin DOMAIN file[e]
    BY <1>4
  <2> QED
    BY <1>4, <1>7, <2>1, <2>2
<1> HIDE DEF l
<1>10. \A k \in Recorder, d \in 1..Day : Filed(k, d)' <=> Filed(k, d) \/ (d = e /\ k = j)
  <2>1. \A k \in Recorder, d \in 1..Day :
           (\E i \in DOMAIN file'[d] : file'[d][i].of = k)
             <=> (\E i \in DOMAIN file[d] : file[d][i].of = k) \/ (d = e /\ k = j)
    <3> SUFFICES ASSUME NEW k \in Recorder, NEW d \in 1..Day
                 PROVE  (\E i \in DOMAIN file'[d] : file'[d][i].of = k)
                          <=> \/ \E i \in DOMAIN file[d] : file[d][i].of = k
                              \/ d = e /\ k = j
      OBVIOUS
    <3>1. CASE d = e
      BY <1>6, <1>8, <3>1
    <3>2. CASE d # e
      BY <1>8, <3>2
    <3> QED
      BY <3>1, <3>2
  <2> QED
    BY <1>1, <1>2, <2>1 DEF Filed
<1>11. Kept(p)'
  <2>1. \A i \in DOMAIN work'[p] : work'[p][i].of = target'[p] /\ Whole(work[p][i])'
    BY <1>1, <1>5 DEF Whole, InOrder, w
  <2>2. DaysApart(work[p])'
    BY <1>1, <1>5 DEF DaysApart, w
  <2>3. \A r \in Range(journal[j]) : r.day \in 1..Day
    <3>1. journal[j] \in Seq(Row)
      BY <1>2 DEF JournalInv, TypeInv, RowsOK
    <3>2. \A r \in Range(journal[j]) : r \in Row
      BY <3>1 DEF Range
    <3> QED
      BY <3>2 DEF Row
  <2>4. \A k \in Recorder, r \in Range(journal[j]) :
           k = j => Filed(k, r.day)' \/ \E i \in DOMAIN w : w[i].day = r.day
    BY <1>5, <1>10, <2>3
  <2>5. \A k \in Recorder, d \in 1..Day : k = j /\ d = e => Filed(k, d)'
    BY <1>4, <1>10
  <2>6. /\ target'[p] \in linked'
        /\ \A r \in Range(journal'[target'[p]]) :
              Filed(target[p], r.day)' \/ \E i \in DOMAIN work'[p] : work'[p][i].day = r.day
        /\ Filed(target[p], Head(work[p]).day)'
    <3>1. journal'[target'[p]] = journal[j] /\ work'[p] = w /\ target'[p] = j
      BY <1>1 DEF w
    <3>2. Head(work'[p]).day = e
      BY <3>1 DEF e, h
    <3>3. \A r \in Range(journal[j]) :
             \/ \E i \in DOMAIN file'[r.day] : file'[r.day][i].of = j
             \/ \E i \in DOMAIN w : w[i].day = r.day
      BY <1>2, <2>4 DEF Filed
    <3>4. \E i \in DOMAIN file'[e] : file'[e][i].of = j
      BY <1>2, <1>4, <2>5 DEF Filed
    <3> QED
      BY <1>1, <1>2, <3>1, <3>2, <3>3, <3>4 DEF Filed
  <2> QED
    BY <1>2, <2>1, <2>2, <2>6 DEF Kept
<1>12. FilesWhole'
  <2> SUFFICES ASSUME NEW d \in 1..Day, NEW i \in DOMAIN file'[d]
               PROVE  file'[d][i].day = d /\ Whole(file[d][i])'
    BY DEF FilesWhole
  <2>1. ASSUME NEW s, Whole(s)
        PROVE  /\ InOrder(s.rows)
               /\ Range(s.rows) = {r \in Range(journal'[s.of]) : r.day = s.day}
    BY <1>1, <2>1 DEF Whole
  <2>2. \A s : Whole(s) => /\ InOrder(s.rows)
                           /\ Range(s.rows) = {r \in Range(journal'[s.of]) : r.day = s.day}
    BY <2>1
  <2>3. file'[d][i].day = d /\ Whole(file'[d][i])
    <3>1. \A k \in DOMAIN file[d] : file[d][k].day = d /\ Whole(file[d][k])
      BY DEF JournalInv, SaverInv, FilesWhole
    <3>2. CASE d = e /\ i = l
      BY <1>6, <1>8, <3>2 DEF e
    <3>3. CASE i \in DOMAIN file[d] /\ file'[d][i] = file[d][i]
      BY <3>1, <3>3
    <3> QED
      BY <1>8, <3>2, <3>3
  <2> QED
    BY <2>2, <2>3 DEF Whole, InOrder
<1>13. OnceEach'
  <2> SUFFICES ASSUME NEW k \in Recorder \ torn, NEW d \in 1..Day,
                      NEW m \in DOMAIN file'[d], NEW n \in DOMAIN file'[d],
                      file'[d][m].of = k, file'[d][n].of = k
               PROVE  m = n
    BY <1>1 DEF OnceEach
  <2>1. \A x, y \in DOMAIN file[d] : file[d][x].of = k /\ file[d][y].of = k => x = y
    BY DEF JournalInv, SaverInv, OnceEach
  <2>2. CASE d # e
    BY <1>8, <2>1, <2>2
  <2>3. CASE d = e /\ k # j
    BY <1>6, <1>8, <2>1, <2>3
  <2>4. CASE d = e /\ k = j
    <3>1. ~Filed(j, e)
      <4> SUFFICES ASSUME Filed(j, e) PROVE FALSE
        OBVIOUS
      <4>1. Past(p, e)
        BY <1>2, <1>4, <2>4, OnlyTarget
      <4>2. w[1].day = e
        BY <1>4 DEF e
      <4> QED
        BY <1>1, <1>4, <4>1, <4>2 DEF Past, w
    <3>2. \A x \in DOMAIN file[e] : file[e][x].of # j
      BY <3>1 DEF Filed
    <3> QED
      BY <1>8, <2>4, <3>2
  <2> QED
    BY <2>2, <2>3, <2>4
<1>14. InProgress'
  <2> SUFFICES ASSUME NEW k \in linked \ torn, NEW d \in 1..Day, Filed(k, d)'
               PROVE  target[p] = k /\ Past(p, d)'
    BY <1>1 DEF InProgress
  <2>0. k \in Recorder
    BY DEF JournalInv, TypeInv, SaverOK
  <2>1. k = j
    <3> SUFFICES ASSUME k # j PROVE FALSE
      OBVIOUS
    <3>1. Filed(k, d)
      BY <1>10, <2>0
    <3> QED
      BY <1>2, <3>1, OnlyTarget
  <2>2. \A i \in DOMAIN w : w[i].day = d => i = 1
    <3>1. CASE d = e
      BY <1>4, <1>5, <3>1 DEF DaysApart, e
    <3>2. CASE d # e
      <4>1. Filed(k, d)
        BY <1>10, <2>0, <3>2
      <4>2. Past(p, d)
        BY <1>2, <4>1, OnlyTarget
      <4> QED
        BY <4>2 DEF Past, w
    <3> QED
      BY <3>1, <3>2
  <2> QED
    BY <1>1, <1>2, <2>1, <2>2 DEF Past, Saving, w
<1>15. SaverInv'
  BY <1>2, <1>3, <1>11, <1>12, <1>13, <1>14, OthersRest DEF SaverInv
<1>16. \A k \in Recorder, d \in 1..Day : Filed(k, d)' => Filed(k, d) \/ k \in linked
  BY <1>2, <1>10
<1>17. \A k \in Recorder : Written(k)'
  BY <1>1, <1>2, <1>16, WrittenWhileSaving DEF Reconciling
<1> QED
  BY <1>15, <1>17

\* Every action of a saver keeps the invariant.
LEMMA SavesStep ==
    ASSUME JournalInv, NEW p \in Proc, Saves(p)
    PROVE  SaverInv' /\ \A j \in Recorder : Written(j)'
<1>1. CASE Read(p)
  <2> DEFINE j == target[p]
             sessions == IF j \in linked THEN SessionsOf(j) ELSE <<>>
  <2>1. /\ pc[p] = "reconcile" /\ work' = [work EXCEPT ![p] = sessions]
        /\ pc' = [pc EXCEPT ![p] = IF sessions = <<>> THEN Through(p) ELSE "load"]
        /\ linked' = IF sessions = <<>> THEN linked \ {j} ELSE linked
        /\ UNCHANGED <<today, buffer, journal, file, orphans, target, copy, discarded, torn>>
    BY <1>1 DEF Read, recorderVars, history
  <2>2. j \in linked
    BY <2>1 DEF Reconciling, JournalInv, SaverInv, Listed
  <2>3. CASE sessions = <<>>
    BY <2>1, <2>3, UnlinkStep
  <2>4. CASE sessions # <<>>
    BY <2>1, <2>2, <2>4, BuildStep
  <2> QED
    BY <2>3, <2>4
<1>2. CASE Load(p)
  BY <1>2, LoadedStep DEF Load, Go, recorderVars, history
<1>3. CASE Replace(p)
  BY <1>3, FileStep
<1>4. CASE Annotate(p)
  <2>1. pc[p] = "annotate" /\ UNCHANGED <<today, buffer, journal, linked, file, orphans, target,
                                          discarded, torn>>
    BY <1>4 DEF Annotate, recorderVars, history
  <2>2. CASE Saved(p)
    BY <2>1, <2>2, SavedStep
  <2>3. CASE /\ pc' = [pc EXCEPT ![p] = "rewrite"]
             /\ copy' = [copy EXCEPT ![p] = file[Head(work[p]).day]]
             /\ work' = work
    BY <2>1, <2>3, LoadedStep
  <2> QED
    BY <1>4, <2>2, <2>3 DEF Annotate
<1>5. CASE Rewrite(p)
  <2>1. /\ pc[p] = "rewrite" /\ Saved(p) /\ file' = [file EXCEPT ![Head(work[p]).day] = copy[p]]
        /\ UNCHANGED <<today, buffer, journal, linked, orphans, target, discarded, torn>>
    BY <1>5 DEF Rewrite, recorderVars, history
  <2>2. copy[p] = file[Head(work[p]).day]
    BY <2>1 DEF JournalInv, SaverInv, Kept
  <2>3. file' = file
    BY <2>1, <2>2 DEF JournalInv, TypeInv, SaverOK
  <2> QED
    BY <2>1, <2>3, SavedStep
<1>6. CASE Unlink(p)
  BY <1>6, UnlinkStep DEF Unlink, Go, recorderVars, saverVars, history
<1>7. CASE SaveFails(p)
  <2> DEFINE x == IF p \in Recoverer THEN "list" ELSE "dead"
  <2>1. /\ pc[p] \in Reconciling /\ pc' = [pc EXCEPT ![p] = x] /\ orphans' = orphans
        /\ torn' = torn \cup {target[p]}
        /\ UNCHANGED <<today, buffer, journal, linked, file, target, discarded>>
    BY <1>7 DEF SaveFails, recorderVars, Reconciling
  <2>2. p \notin Recoverer => orphans[p] = {}
    BY DEF JournalInv, SaverInv, Listed
  <2>3. CASE x = "list"
    BY <2>1, <2>3, CutShortStep
  <2>4. CASE x = "dead"
    BY <2>1, <2>2, <2>4, CutShortStep
  <2> QED
    BY <2>3, <2>4
<1> QED
  BY <1>1, <1>2, <1>3, <1>4, <1>5, <1>6, <1>7 DEF Saves

\* So does a crash at any point of it.
LEMMA CrashStep ==
    ASSUME JournalInv, NEW p \in Proc, Crash(p)
    PROVE  SaverInv' /\ \A j \in Recorder : Written(j)'
<1>1. /\ Busy(p) /\ pc' = [pc EXCEPT ![p] = "dead"]
      /\ orphans' = [orphans EXCEPT ![p] = {}]
      /\ UNCHANGED <<today, journal, linked, file, target, discarded>>
  BY DEF Crash
<1>2. /\ pc \in [Proc -> Phases] /\ orphans \in [Proc -> SUBSET Recorder]
      /\ buffer \in [Recorder -> Seq(Row)]
  BY DEF JournalInv, TypeInv, SaverOK, RowsOK
<1>3. /\ orphans'[p] = {} /\ pc'[p] = "dead"
      /\ \A q \in Proc \ {p} : orphans'[q] = orphans[q] /\ pc'[q] = pc[q]
  BY <1>1, <1>2
<1>4. \A j \in Recorder : Written(j) /\ j \in Proc
  BY DEF JournalInv, Proc
<1>5. CASE pc[p] \in Reconciling
  <2>1. buffer' = buffer
    <3>1. CASE p \in Recorder
      <4>1. buffer[p] = <<>> /\ buffer' = [buffer EXCEPT ![p] = <<>>]
        BY <1>4, <1>5, <3>1 DEF Crash, Written, Reconciling
      <4> QED
        BY <1>2, <4>1
    <3>2. CASE p \notin Recorder
      BY <3>2 DEF Crash
    <3> QED
      BY <3>1, <3>2
  <2>2. torn' = torn \cup {target[p]}
    BY <1>5 DEF Crash
  <2> QED
    BY <1>1, <1>3, <1>5, <2>1, <2>2, CutShortStep
<1>6. CASE pc[p] \notin Reconciling
  <2>1. torn' = torn
    BY <1>6 DEF Crash
  <2>2. Acts(p)
    BY <1>1, <1>3 DEF Acts, Phases
  <2>3. pc[p] \notin Saving /\ pc'[p] \notin Saving
    BY <1>3, <1>6 DEF Saving, Reconciling
  <2>4. Listed(p)'
    BY <1>3 DEF Listed, Reconciling
  <2>5. SaverInv'
    BY <1>1, <2>1, <2>2, <2>3, <2>4, AsideFromSaving
  <2>6. ASSUME NEW j \in Recorder, j # p PROVE Written(j)'
    <3>1. buffer'[j] = buffer[j]
      BY <1>2, <2>6 DEF Crash
    <3> QED
      BY <1>1, <1>3, <1>4, <2>1, <2>6, <3>1, WrittenFrame
  <2>7. ASSUME p \in Recorder PROVE Written(p)'
    <3>1. buffer'[p] = <<>>
      BY <1>2, <2>7 DEF Crash
    <3>2. p \in discarded' => p \notin linked'
      BY <1>1, <1>4, <2>7 DEF Written
    <3> QED
      BY <1>3, <3>1, <3>2 DEF Written
  <2> QED
    BY <2>5, <2>6, <2>7
<1> QED
  BY <1>5, <1>6

\* The invariant holds at the start.
LEMMA JournalInit == Init => JournalInv
<1> SUFFICES ASSUME Init PROVE JournalInv
  OBVIOUS
<1>1. TypeInv
  BY TypeInit
<1>2. \A p \in Proc : pc[p] = "idle" /\ orphans[p] = {}
  BY DEF Init
<1>3. \A p \in Proc : Listed(p) /\ Kept(p)
  BY <1>2 DEF Listed, Kept, Saving, Reconciling
<1>4. \A d \in 1..Day : DOMAIN file[d] = {}
  BY DEF Init
<1>5. OneAtATime /\ OnceEach /\ InProgress /\ FilesWhole
  <2>1. OneAtATime
    BY <1>2 DEF OneAtATime, Busy
  <2>2. OnceEach
    BY <1>4 DEF OnceEach
  <2>3. InProgress
    BY DEF Init, InProgress
  <2>4. FilesWhole
    BY <1>4 DEF FilesWhole
  <2> QED
    BY <2>1, <2>2, <2>3, <2>4
<1>6. ASSUME NEW j \in Recorder PROVE Written(j)
  <2>1. /\ pc[j] = "idle" /\ journal[j] = <<>> /\ buffer[j] = <<>>
        /\ linked = {} /\ torn = {} /\ discarded = {}
    BY DEF Init, Proc
  <2>2. \A d \in 1..Day : ~Filed(j, d)
    BY <1>4 DEF Filed
  <2> QED
    BY <2>1, <2>2 DEF Written
<1> QED
  BY <1>1, <1>3, <1>5, <1>6 DEF JournalInv, SaverInv

\* The invariant is inductive while one command runs at a time.
LEMMA JournalStep ==
    ASSUME ~Overlap
    PROVE  JournalInv /\ [Next]_vars => JournalInv'
<1> SUFFICES ASSUME JournalInv, [Next]_vars PROVE JournalInv'
  OBVIOUS
<1>1. TypeInv'
  BY TypeStep DEF JournalInv
<1> SUFFICES SaverInv' /\ \A j \in Recorder : Written(j)'
  BY <1>1 DEF JournalInv
<1>2. ASSUME NEW p \in Recorder, Records(p)
      PROVE  SaverInv' /\ \A j \in Recorder : Written(j)'
  BY <1>1, <1>2, OpenStep, RecordingStep, ClosingStep DEF Records
<1>3. CASE Midnight \/ UNCHANGED vars
  <2>1. UNCHANGED <<pc, buffer, journal, linked, file, orphans, target, work, copy,
                    discarded, torn>>
    BY <1>3 DEF Midnight, vars, recorderVars, saverVars, history
  <2> QED
    BY <2>1, StillStep
<1> QED
  BY <1>1, <1>2, <1>3, RecoveryStep, SavesStep, CrashStep DEF Next

\* While one command runs at a time: what a saver has in hand and what is in the
\* files make up its journal, the files are whole, and nothing is saved twice.
THEOREM JournalInvariant ==
    ASSUME ~Overlap
    PROVE  Spec => []JournalInv
BY JournalInit, JournalStep, PTL DEF Spec

\* A stored session is its recording's whole day, in the order it was read, in that
\* day's file, whatever crashes, errors, recoveries and midnights there were.
THEOREM WholeSessions ==
    ASSUME ~Overlap
    PROVE  Spec => []SessionsAreWhole
<1>1. JournalInv => SessionsAreWhole
  <2> SUFFICES ASSUME JournalInv, NEW d \in 1..Day, NEW s \in Range(file[d])
               PROVE  /\ s.day = d /\ InOrder(s.rows)
                      /\ Range(s.rows) = {r \in Range(journal[s.of]) : r.day = d}
    BY DEF SessionsAreWhole
  <2>1. PICK i \in DOMAIN file[d] : s = file[d][i]
    BY DEF Range
  <2>2. s.day = d /\ Whole(s)
    BY <2>1 DEF JournalInv, SaverInv, FilesWhole
  <2> QED
    BY <2>2 DEF Whole
<1> QED
  BY <1>1, JournalInvariant, PTL

\* A recording whose reconcile was not cut short is at most once in a day's file.
THEOREM StoredAtMostOnce ==
    ASSUME ~Overlap
    PROVE  Spec => []StoredOnce
<1>1. JournalInv => StoredOnce
  <2> SUFFICES ASSUME JournalInv, NEW j \in Recorder \ torn, NEW d \in 1..Day
               PROVE  Cardinality({i \in DOMAIN file[d] : file[d][i].of = j}) <= 1
    BY DEF StoredOnce
  <2> DEFINE I == {i \in DOMAIN file[d] : file[d][i].of = j}
  <2>1. \A x, y \in I : x = y
    BY DEF JournalInv, SaverInv, OnceEach
  <2> HIDE DEF I
  <2>2. CASE I = {}
    <3>1. Cardinality(I) = 0
      BY <2>2, FS_EmptySet
    <3> QED
      BY <3>1 DEF I
  <2>3. CASE I # {}
    <3>1. PICK x \in I : I = {x}
      BY <2>1, <2>3
    <3>2. Cardinality(I) = 1
      BY <3>1, FS_Singleton
    <3> QED
      BY <3>2 DEF I
  <2> QED
    BY <2>2, <2>3
<1> QED
  BY <1>1, JournalInvariant, PTL

-----------------------------------------------------------------------------
\* No row that reached the disk is lost: its journal is still there, or it is in
\* a file, or its recording was thrown away on purpose.

NothingLost ==
    \A j \in Recorder \ (discarded \cup linked) : \A r \in Range(journal[j]) : Filed(j, r.day)

\* Rows on the disk are rows.
LEMMA RowsTyped ==
    ASSUME RowsOK, NEW j \in Recorder
    PROVE  /\ \A r \in Range(journal[j]) : r \in Row /\ r.of = j /\ r.n <= Len(journal[j])
                                           /\ r.day \in 1..Day
           /\ \A r \in Range(buffer[j]) : r \in Row /\ r.of = j /\ r.n > Len(journal[j])
                                          /\ r.n <= Len(journal[j]) + Len(buffer[j])
<1> DEFINE a == journal[j]
           b == buffer[j]
<1>1. /\ NumberedRows(a, j) /\ NumberedFrom(b, Len(a), j)
      /\ a \in Seq(Row) /\ b \in Seq(Row) /\ Len(a) \in Nat /\ Len(b) \in Nat
  BY DEF RowsOK
<1> HIDE DEF a, b
<1>2. ASSUME NEW r \in Range(a)
      PROVE  r \in Row /\ r.of = j /\ r.n <= Len(a) /\ r.day \in 1..Day
  <2>1. PICK i \in DOMAIN a : r = a[i]
    BY DEF Range
  <2>2. r \in Row /\ r.of = j /\ r.n = i /\ i <= Len(a)
    BY <1>1, <2>1 DEF NumberedRows
  <2> QED
    BY <2>2 DEF Row
<1>3. ASSUME NEW r \in Range(b)
      PROVE  r \in Row /\ r.of = j /\ r.n > Len(a) /\ r.n <= Len(a) + Len(b)
  <2>1. PICK i \in DOMAIN b : r = b[i]
    BY DEF Range
  <2>2. r \in Row /\ r.of = j /\ r.n = Len(a) + i
    BY <1>1, <2>1 DEF NumberedFrom
  <2>3. i \in Nat /\ i > 0 /\ i <= Len(b)
    BY <1>1
  <2> QED
    BY <1>1, <2>2, <2>3
<1> QED
  BY <1>2, <1>3 DEF a, b

\* What is filed stays filed: no save replaces what another one saved.
LEMMA FiledStays ==
    ASSUME JournalInv, [Next]_vars
    PROVE  \A j \in Recorder, d \in 1..Day : Filed(j, d) => Filed(j, d)'
<1>1. ASSUME file' = file PROVE \A j \in Recorder, d \in 1..Day : Filed(j, d) => Filed(j, d)'
  BY <1>1 DEF Filed
<1>2. ASSUME NEW p \in Proc, Replace(p)
      PROVE  \A j \in Recorder, d \in 1..Day : Filed(j, d) => Filed(j, d)'
  <2> DEFINE h == Head(work[p])
             e == h.day
  <2>1. pc[p] = "replace" /\ file' = [file EXCEPT ![e] = Append(copy[p], h)]
    BY <1>2 DEF Replace, Go
  <2>2. copy[p] = file[e]
    BY <2>1 DEF JournalInv, SaverInv, Kept
  <2>3. h \in Session /\ e \in 1..Day /\ file[e] \in Seq(Session)
    BY <2>1, InHand DEF Saving, JournalInv, TypeInv
  <2> HIDE DEF h
  <2>4. \A i \in DOMAIN file[e] : /\ i \in DOMAIN Append(file[e], h)
                                  /\ Append(file[e], h)[i] = file[e][i]
    BY <2>3
  <2> HIDE DEF e
  <2>5. \A d \in 1..Day : \A i \in DOMAIN file[d] : i \in DOMAIN file'[d] /\ file'[d][i] = file[d][i]
    <3> SUFFICES ASSUME NEW d \in 1..Day, NEW i \in DOMAIN file[d]
                 PROVE  i \in DOMAIN file'[d] /\ file'[d][i] = file[d][i]
      OBVIOUS
    <3>1. file \in [1..Day -> Seq(Session)]
      BY DEF JournalInv, TypeInv, SaverOK
    <3>2. CASE d = e
      <4>1. file'[d] = Append(file[e], h)
        BY <2>1, <2>2, <2>3, <3>1, <3>2
      <4> QED
        BY <2>4, <3>2, <4>1
    <3>3. CASE d # e
      <4>1. file'[d] = file[d]
        BY <2>1, <3>1, <3>3
      <4> QED
        BY <4>1
    <3> QED
      BY <3>2, <3>3
  <2> QED
    BY <2>5 DEF Filed
<1>3. ASSUME NEW p \in Proc, Rewrite(p) PROVE file' = file
  <2>1. pc[p] = "rewrite" /\ file' = [file EXCEPT ![Head(work[p]).day] = copy[p]]
    BY <1>3 DEF Rewrite
  <2>2. copy[p] = file[Head(work[p]).day]
    BY <2>1 DEF JournalInv, SaverInv, Kept
  <2> QED
    BY <2>1, <2>2 DEF JournalInv, TypeInv, SaverOK
<1>4. ASSUME NEW p \in Proc, Saves(p)
      PROVE  \A j \in Recorder, d \in 1..Day : Filed(j, d) => Filed(j, d)'
  <2>1. CASE Read(p) \/ Load(p) \/ Annotate(p) \/ Unlink(p) \/ SaveFails(p)
    BY <1>1, <2>1 DEF Read, Load, Annotate, Unlink, SaveFails, saverVars
  <2>2. CASE Rewrite(p)
    BY <1>1, <1>3, <2>2
  <2> QED
    BY <1>2, <1>4, <2>1, <2>2 DEF Saves
<1>5. ASSUME NEW p \in Recorder, Records(p) PROVE file' = file
  BY <1>5 DEF Records, Open, Append1, Flush, Reconcile, Abandon, Discard, saverVars
<1>6. ASSUME NEW p \in Recoverer, ListOrphans(p) \/ Recover(p) \/ DiscardOrphan(p) PROVE file' = file
  BY <1>6 DEF ListOrphans, Recover, DiscardOrphan
<1>7. ASSUME NEW p \in Proc, Crash(p) PROVE file' = file
  BY <1>7 DEF Crash
<1>8. CASE Midnight \/ UNCHANGED vars
  BY <1>1, <1>8 DEF Midnight, vars, saverVars
<1> QED
  BY <1>1, <1>4, <1>5, <1>6, <1>7, <1>8 DEF Next

\* A journal goes only when it is discarded or all its rows are filed.
LEMMA UnlinkedIsFiled ==
    ASSUME JournalInv, NEW p \in Proc, Saves(p)
    PROVE  /\ journal' = journal /\ buffer' = buffer /\ discarded' = discarded
           /\ \A j \in linked \ linked' : \A r \in Range(journal[j]) : Filed(j, r.day)
<1>1. journal' = journal /\ buffer' = buffer /\ discarded' = discarded
  BY DEF Saves, Read, Load, Replace, Annotate, Rewrite, Unlink, SaveFails, recorderVars, history
<1>2. CASE Read(p)
  <2> DEFINE j == target[p]
             sessions == IF j \in linked THEN SessionsOf(j) ELSE <<>>
  <2>1. pc[p] = "reconcile" /\ linked' = IF sessions = <<>> THEN linked \ {j} ELSE linked
    BY <1>2 DEF Read
  <2>2. j \in linked /\ j \in Recorder /\ RowsOK
    BY <2>1 DEF Reconciling, JournalInv, SaverInv, Listed, TypeInv, SaverOK
  <2>3. sessions = <<>> => Range(journal[j]) = {}
    <3>1. \A r \in Range(journal[j]) : \E i \in DOMAIN SessionsOf(j) : SessionsOf(j)[i].day = r.day
      BY <2>2, BuiltWhole
    <3> QED
      BY <2>2, <3>1
  <2> QED
    BY <1>1, <2>1, <2>3
<1>3. CASE Unlink(p)
  <2>1. pc[p] = "unlink" /\ linked' = linked \ {target[p]}
    BY <1>3 DEF Unlink, Go
  <2>2. work[p] = <<>> /\ \A r \in Range(journal[target[p]]) :
           Filed(target[p], r.day) \/ \E i \in DOMAIN work[p] : work[p][i].day = r.day
    BY <2>1 DEF JournalInv, SaverInv, Kept, Saving
  <2>3. DOMAIN work[p] = {}
    BY <2>2
  <2> QED
    BY <1>1, <2>1, <2>2, <2>3
<1>4. CASE Load(p) \/ Replace(p) \/ Annotate(p) \/ Rewrite(p) \/ SaveFails(p)
  <2>1. linked' = linked
    BY <1>4 DEF Load, Replace, Annotate, Rewrite, SaveFails
  <2> QED
    BY <1>1, <2>1
<1> QED
  BY <1>2, <1>3, <1>4 DEF Saves

\* No step loses a row that has reached the disk.
LEMMA LostStep == JournalInv /\ NothingLost /\ [Next]_vars => NothingLost'
<1> SUFFICES ASSUME JournalInv, NothingLost, [Next]_vars PROVE NothingLost'
  OBVIOUS
<1>1. RowsOK /\ linked \subseteq Recorder
  BY DEF JournalInv, TypeInv, SaverOK
\* Where the journals are what they were, only those that go need a look.
<1>2. ASSUME journal' = journal, discarded \subseteq discarded',
             \A j \in linked \ (linked' \cup discarded') :
                \A r \in Range(journal[j]) : Filed(j, r.day)
      PROVE  NothingLost'
  <2> SUFFICES ASSUME NEW j \in Recorder, j \notin discarded', j \notin linked',
                      NEW r \in Range(journal[j])
               PROVE  Filed(j, r.day)'
    BY <1>2 DEF NothingLost
  <2>1. Filed(j, r.day)
    BY <1>2 DEF NothingLost
  <2>2. r.day \in 1..Day
    BY <1>1, RowsTyped
  <2> QED
    BY <2>1, <2>2, FiledStays
<1>3. ASSUME NEW p \in Recorder, Records(p) PROVE NothingLost'
  <2>1. CASE Open(p)
    BY <1>2, <2>1 DEF Open, recorderVars, history
  <2>2. CASE ~Open(p)
    <3>1. pc[p] = "record" /\ file' = file
      BY <1>3, <2>2 DEF Records, Append1, Flush, Reconcile, Abandon, Discard, Go, saverVars
    <3>2. p \in linked
      BY <3>1 DEF JournalInv, Written
    <3>3. /\ p \in linked' \cup discarded'
          /\ \A j \in Recorder \ {p} : /\ j \in linked' <=> j \in linked
                                       /\ j \in discarded' <=> j \in discarded
      BY <1>3, <2>2, <3>2 DEF Records, Append1, Flush, Reconcile, Abandon, Discard, history
    <3>4. \A j \in Recorder \ {p} : journal'[j] = journal[j]
      <4>1. CASE Append1(p)
        BY <4>1 DEF Append1
      <4>2. CASE Flush(p)
        BY <1>1, <4>2, FlushRows
      <4>3. CASE CloseFile(p)
        BY <1>1, <4>3, CloseRows
      <4> QED
        BY <1>3, <2>2, <4>1, <4>2, <4>3 DEF Records, Reconcile, Abandon, Discard
    <3> QED
      BY <3>1, <3>3, <3>4 DEF NothingLost, Filed
  <2> QED
    BY <2>1, <2>2
<1>4. ASSUME NEW p \in Recoverer, ListOrphans(p) \/ Recover(p) \/ DiscardOrphan(p) PROVE NothingLost'
  <2>1. CASE ListOrphans(p) \/ Recover(p)
    BY <1>2, <2>1 DEF ListOrphans, Recover, recorderVars, history
  <2>2. CASE DiscardOrphan(p)
    BY <1>2, <2>2 DEF DiscardOrphan, recorderVars
  <2> QED
    BY <1>4, <2>1, <2>2
<1>5. ASSUME NEW p \in Proc, Saves(p) PROVE NothingLost'
  BY <1>2, <1>5, UnlinkedIsFiled
<1>6. ASSUME NEW p \in Proc, Crash(p) PROVE NothingLost'
  BY <1>2, <1>6 DEF Crash
<1>7. CASE Midnight \/ UNCHANGED vars
  BY <1>2, <1>7 DEF Midnight, vars, recorderVars, history
<1> QED
  BY <1>3, <1>4, <1>5, <1>6, <1>7 DEF Next

-----------------------------------------------------------------------------
\* The journal and the files implement the store.

PendingRows == {r \in UNION {Range(buffer[j]) : j \in Recorder} : r.of \notin discarded}
KeptRows == {r \in Retrievable : r.of \notin discarded}
DroppedRows == UNION {Range(journal[j]) : j \in discarded}

\* What is retrievable is all that reached the disk and was not thrown away.
Mapped ==
    /\ PendingRows = UNION {Range(buffer[j]) : j \in Recorder}
    /\ KeptRows = UNION {Range(journal[j]) : j \in Recorder \ discarded}

\* The abstract store's variables, in terms of the recordings.
LEMMA StoreMapped == JournalInv /\ NothingLost => Mapped
<1> SUFFICES ASSUME JournalInv, NothingLost PROVE Mapped
  OBVIOUS
<1>1. RowsOK /\ SaverOK /\ linked \subseteq Recorder /\ discarded \subseteq Recorder
  BY DEF JournalInv, TypeInv, SaverOK
<1>2. \A j \in discarded : j \notin linked /\ buffer[j] = <<>>
  <2> SUFFICES ASSUME NEW j \in discarded PROVE j \notin linked /\ buffer[j] = <<>>
    OBVIOUS
  <2> QED
    BY <1>1 DEF JournalInv, Written
<1>3. PendingRows = UNION {Range(buffer[j]) : j \in Recorder}
  <2> SUFFICES ASSUME NEW j \in Recorder, NEW r \in Range(buffer[j]) PROVE r.of \notin discarded
    BY DEF PendingRows
  <2>1. r.of = j
    BY <1>1, RowsTyped
  <2>2. buffer[j] # <<>>
    BY DEF Range
  <2> QED
    BY <1>2, <2>1, <2>2
<1>4. ASSUME NEW r \in KeptRows
      PROVE  \E j \in Recorder \ discarded : r \in Range(journal[j])
  <2>1. CASE \E j \in linked : r \in Range(journal[j])
    BY <1>1, <1>2, <2>1
  <2>2. CASE r \in AllStored
    <3>1. PICK d \in 1..Day : r \in Stored(d)
      BY <2>2 DEF AllStored
    <3>2. PICK i \in DOMAIN file[d] : r \in Range(file[d][i].rows)
      BY <3>1 DEF Stored, Range
    <3> DEFINE s == file[d][i]
    <3>3. s.of \in Recorder /\ Whole(s)
      BY <1>1, FiledTyped DEF JournalInv, SaverInv, FilesWhole
    <3>4. r \in Range(journal[s.of])
      BY <3>2, <3>3 DEF Whole
    <3>5. r.of = s.of
      BY <1>1, <3>3, <3>4, RowsTyped
    <3>6. r.of \notin discarded
      BY DEF KeptRows
    <3> QED
      BY <3>3, <3>4, <3>5, <3>6
  <2> QED
    BY <2>1, <2>2 DEF KeptRows, Retrievable
<1>5. ASSUME NEW j \in Recorder \ discarded, NEW r \in Range(journal[j])
      PROVE  r \in KeptRows
  <2>1. r.of = j /\ r.day \in 1..Day
    BY <1>1, RowsTyped
  <2>2. CASE j \in linked
    BY <2>1, <2>2 DEF KeptRows, Retrievable
  <2>3. CASE j \notin linked
    <3>1. PICK i \in DOMAIN file[r.day] : file[r.day][i].of = j
      BY <2>3 DEF NothingLost, Filed
    <3>2. file[r.day][i].day = r.day /\ Whole(file[r.day][i])
      BY <2>1 DEF JournalInv, SaverInv, FilesWhole
    <3>3. r \in Range(file[r.day][i].rows)
      BY <3>1, <3>2 DEF Whole
    <3>4. r \in AllStored
      BY <2>1, <3>3 DEF AllStored, Stored, Range
    <3> QED
      BY <2>1, <3>4 DEF KeptRows, Retrievable
  <2> QED
    BY <2>2, <2>3
<1> QED
  BY <1>3, <1>4, <1>5 DEF Mapped

\* A row is in one place: a buffer or a journal, and of one recording.
Apart ==
    \A j, k \in Recorder :
        /\ Range(buffer[j]) \cap Range(journal[k]) = {}
        /\ j # k => Range(buffer[j]) \cap Range(buffer[k]) = {}
        /\ j # k => Range(journal[j]) \cap Range(journal[k]) = {}

\* A row is in one journal or one buffer, once.
LEMMA RowsApart == RowsOK => Apart
<1> SUFFICES ASSUME RowsOK, NEW j \in Recorder, NEW k \in Recorder
             PROVE  /\ Range(buffer[j]) \cap Range(journal[k]) = {}
                    /\ j # k => Range(buffer[j]) \cap Range(buffer[k]) = {}
                    /\ j # k => Range(journal[j]) \cap Range(journal[k]) = {}
  BY DEF Apart
<1>1. Len(journal[j]) \in Nat /\ Len(buffer[j]) \in Nat
  BY DEF RowsOK
<1>2. ASSUME NEW r \in Range(buffer[j]), r \in Range(journal[k]) PROVE FALSE
  <2>1. r.of = j /\ r.of = k /\ r.n > Len(journal[j]) /\ r.n <= Len(journal[k]) /\ r \in Row
    BY <1>2, RowsTyped
  <2>2. r.n \in Nat
    BY <2>1 DEF Row
  <2> QED
    BY <1>1, <2>1, <2>2
<1>3. ASSUME j # k, NEW r \in Range(buffer[j]), r \in Range(buffer[k]) PROVE FALSE
  <2>1. r.of = j /\ r.of = k
    BY <1>3, RowsTyped
  <2> QED
    BY <1>3, <2>1
<1>4. ASSUME j # k, NEW r \in Range(journal[j]), r \in Range(journal[k]) PROVE FALSE
  <2>1. r.of = j /\ r.of = k
    BY <1>4, RowsTyped
  <2> QED
    BY <1>4, <2>1
<1> QED
  BY <1>2, <1>3, <1>4

Pend == UNION {Range(buffer[j]) : j \in Recorder}
Safe == UNION {Range(journal[j]) : j \in Recorder \ discarded}
Gone == UNION {Range(journal[j]) : j \in discarded}

\* Rows that move from the buffer of p to its journal are kept.
LEMMA MovingKeeps ==
    ASSUME Apart', NEW p \in Recorder, p \notin discarded, discarded' = discarded,
           discarded \subseteq Recorder, NEW S,
           Range(buffer[p]) = S \cup Range(buffer'[p]),
           Range(journal'[p]) = Range(journal[p]) \cup S,
           \A j \in Recorder \ {p} : journal'[j] = journal[j] /\ buffer'[j] = buffer[j]
    PROVE  /\ S \subseteq Pend /\ Pend' = Pend \ S /\ Safe' = Safe \cup S
           /\ Gone' = Gone
<1>1. Pend = Pend' \cup S
  BY DEF Pend
<1>2. \A j \in Recorder : Range(buffer'[j]) \cap Range(journal'[p]) = {}
  BY DEF Apart
<1>3. Pend' \cap S = {}
  BY <1>2 DEF Pend
<1>4. Safe' = Safe \cup S
  BY DEF Safe
<1>5. Gone' = Gone
  BY DEF Gone
<1> QED
  BY <1>1, <1>3, <1>4, <1>5

\* Every step on the rows is one of the abstract store, or changes nothing of it.
StoreStep ==
    \/ /\ \E r \in Row \ (Pend \cup Safe \cup Gone) : Pend' = Pend \cup {r}
       /\ Safe' = Safe /\ Gone' = Gone
    \/ /\ \E S \in SUBSET Pend : Pend' = Pend \ S /\ Safe' = Safe \cup S
       /\ Gone' = Gone
    \/ Pend' \subseteq Pend /\ Safe' = Safe /\ Gone' = Gone
    \/ \E S \in SUBSET Safe, T \in SUBSET Pend :
          Safe' = Safe \ S /\ Pend' = Pend \ T /\ Gone' = Gone \cup S \cup T

\* The recorder's actions write, flush, lose or discard rows of the store.
LEMMA RecordsStore ==
    ASSUME JournalInv, Apart, Apart', NEW p \in Recorder, Records(p)
    PROVE  StoreStep
<1>1. RowsOK /\ discarded \subseteq Recorder /\ today \in 1..Day
  BY DEF JournalInv, TypeInv, SaverOK
<1>2. CASE Open(p)
  <2>1. journal' = journal /\ buffer' = buffer /\ discarded' = discarded
    BY <1>2 DEF Open, recorderVars, history
  <2> QED
    BY <2>1 DEF StoreStep, Pend, Safe, Gone
<1>3. CASE ~Open(p)
  <2>1. pc[p] = "record"
    BY <1>3 DEF Records, Append1, Flush, Reconcile, Abandon, Discard, Go
  <2>2. p \notin discarded
    BY <2>1 DEF JournalInv, Written
  <2>3. CASE Append1(p)
    <3>1. PICK r \in Row : /\ r.of = p /\ r.n = Len(journal[p]) + Len(buffer[p]) + 1
                           /\ buffer' = [buffer EXCEPT ![p] = Append(@, r)]
                           /\ Range(buffer'[p]) = Range(buffer[p]) \cup {r}
      BY <1>1, <2>3, Append1Rows
    <3>2. journal' = journal /\ discarded' = discarded
      BY <2>3 DEF Append1, history
    <3>3. \A j \in Recorder : r \notin Range(journal[j]) /\ r \notin Range(buffer[j])
      <4> SUFFICES ASSUME NEW j \in Recorder, r \in Range(journal[j]) \/ r \in Range(buffer[j])
                   PROVE  FALSE
        OBVIOUS
      <4>1. Len(journal[j]) \in Nat /\ Len(buffer[j]) \in Nat
        BY <1>1 DEF RowsOK
      <4>2. r.of = j /\ (r.n <= Len(journal[j]) \/ r.n <= Len(journal[j]) + Len(buffer[j]))
        BY <1>1, RowsTyped
      <4>3. p = j
        BY <3>1, <4>2
      <4> DEFINE a == Len(journal[j])
                 b == Len(buffer[j])
                 n == r.n
      <4>4. a \in Nat /\ b \in Nat /\ n = a + b + 1 /\ (n <= a \/ n <= a + b)
        BY <3>1, <4>1, <4>2, <4>3
      <4> HIDE DEF a, b, n
      <4> QED
        BY <4>4
    <3>4. r \notin Pend \cup Safe \cup Gone
      BY <1>1, <3>3 DEF Pend, Safe, Gone
    <3>5. \A j \in Recorder \ {p} : buffer'[j] = buffer[j]
      BY <1>1, <3>1 DEF RowsOK
    <3>6. Pend' = Pend \cup {r} /\ Safe' = Safe /\ Gone' = Gone
      BY <3>1, <3>2, <3>5 DEF Pend, Safe, Gone
    <3> QED
      BY <3>4, <3>6 DEF StoreStep
  <2>4. CASE Flush(p)
    <3>1. PICK S : /\ Range(buffer[p]) = S \cup Range(buffer'[p])
                   /\ Range(journal'[p]) = Range(journal[p]) \cup S
      BY <1>1, <2>4, FlushRows
    <3>2. \A j \in Recorder \ {p} : journal'[j] = journal[j] /\ buffer'[j] = buffer[j]
      BY <1>1, <2>4, FlushRows
    <3>3. discarded' = discarded
      BY <2>4 DEF Flush, history
    <3>4. S \subseteq Pend /\ Pend' = Pend \ S /\ Safe' = Safe \cup S /\ Gone' = Gone
      BY <1>1, <2>2, <3>1, <3>2, <3>3, MovingKeeps
    <3> QED
      BY <3>4 DEF StoreStep
  <2>5. ASSUME CloseFile(p)
        PROVE  /\ buffer'[p] = <<>> /\ Range(buffer'[p]) = {}
               /\ Range(journal'[p]) = Range(journal[p]) \cup Range(buffer[p])
               /\ \A j \in Recorder \ {p} : journal'[j] = journal[j] /\ buffer'[j] = buffer[j]
    <3>1. Range(<<>>) = {}
      BY DEF Range
    <3> QED
      BY <1>1, <2>5, <3>1, CloseRows
  <2>6. CASE Reconcile(p) \/ Abandon(p)
    <3>1. CloseFile(p) /\ discarded' = discarded
      BY <2>6 DEF Reconcile, Abandon, history
    <3>2. /\ Range(buffer[p]) = Range(buffer[p]) \cup Range(buffer'[p])
          /\ Range(journal'[p]) = Range(journal[p]) \cup Range(buffer[p])
          /\ \A j \in Recorder \ {p} : journal'[j] = journal[j] /\ buffer'[j] = buffer[j]
      BY <2>5, <3>1
    <3> DEFINE S == Range(buffer[p])
    <3>3. S \subseteq Pend /\ Pend' = Pend \ S /\ Safe' = Safe \cup S /\ Gone' = Gone
      BY <1>1, <2>2, <3>1, <3>2, MovingKeeps
    <3> QED
      BY <3>3 DEF StoreStep
  <2>7. CASE Discard(p)
    <3> DEFINE S == Range(journal[p])
               T == Range(buffer[p])
    <3>1. CloseFile(p) /\ discarded' = discarded \cup {p}
      BY <2>7 DEF Discard
    <3>2. /\ Range(buffer'[p]) = {} /\ Range(journal'[p]) = S \cup T
          /\ \A j \in Recorder \ {p} : journal'[j] = journal[j] /\ buffer'[j] = buffer[j]
      BY <2>5, <3>1
    <3>3. S \subseteq Safe /\ T \subseteq Pend
      BY <2>2 DEF Safe, Pend
    <3>4. Gone' = Gone \cup S \cup T
      BY <1>1, <2>2, <3>1, <3>2 DEF Gone
    <3>5. Safe' = Safe \ S
      <4>1. Safe' = UNION {Range(journal[j]) : j \in Recorder \ (discarded \cup {p})}
        BY <3>1, <3>2 DEF Safe
      <4>2. \A j \in Recorder \ {p} : Range(journal[j]) \cap S = {}
        BY DEF Apart
      <4> QED
        BY <2>2, <4>1, <4>2 DEF Safe
    <3>6. Pend' = Pend \ T
      <4>1. Pend' = UNION {Range(buffer[j]) : j \in Recorder \ {p}}
        BY <3>2 DEF Pend
      <4>2. \A j \in Recorder \ {p} : Range(buffer[j]) \cap T = {}
        BY DEF Apart
      <4> QED
        BY <4>1, <4>2 DEF Pend
    <3> HIDE DEF S, T
    <3> QED
      BY <3>3, <3>4, <3>5, <3>6 DEF StoreStep
  <2> QED
    BY <1>3, <2>3, <2>4, <2>6, <2>7 DEF Records
<1> QED
  BY <1>2, <1>3

\* A recovery discards rows of the store or leaves it alone.
LEMMA RecoversStore ==
    ASSUME JournalInv, Apart, NEW p \in Recoverer,
           ListOrphans(p) \/ Recover(p) \/ DiscardOrphan(p)
    PROVE  StoreStep
<1>1. journal' = journal /\ buffer' = buffer
  BY DEF ListOrphans, Recover, DiscardOrphan, recorderVars
<1>2. CASE ListOrphans(p) \/ Recover(p)
  <2>1. discarded' = discarded
    BY <1>2 DEF ListOrphans, Recover, history
  <2> QED
    BY <1>1, <2>1 DEF StoreStep, Pend, Safe, Gone
<1>3. CASE DiscardOrphan(p)
  <2>1. PICK k \in orphans[p] : discarded' = discarded \cup {k}
    BY <1>3 DEF DiscardOrphan
  <2>2. k \in linked /\ k \in Recorder /\ k \notin discarded
    BY DEF JournalInv, SaverInv, Listed, Written, TypeInv, SaverOK, Proc
  <2> DEFINE S == Range(journal[k])
  <2>3. S \subseteq Safe
    BY <2>2 DEF Safe
  <2>4. Gone' = Gone \cup S
    BY <1>1, <2>1 DEF Gone
  <2>5. Safe' = Safe \ S
    <3>1. Safe' = UNION {Range(journal[j]) : j \in Recorder \ (discarded \cup {k})}
      BY <1>1, <2>1 DEF Safe
    <3>2. \A j \in Recorder \ {k} : Range(journal[j]) \cap S = {}
      BY <2>2 DEF Apart
    <3> QED
      BY <2>2, <3>1, <3>2 DEF Safe
  <2>6. Pend' = Pend
    BY <1>1 DEF Pend
  <2> HIDE DEF S
  <2>7. Pend' = Pend \ {} /\ {} \in SUBSET Pend /\ Gone' = Gone \cup S \cup {}
    BY <2>4, <2>6
  <2> QED
    BY <2>3, <2>5, <2>7 DEF StoreStep
<1> QED
  BY <1>2, <1>3

\* Every step is one of the store's, or a stutter.
LEMMA StepStores ==
    ASSUME JournalInv, Apart, Apart', [Next]_vars
    PROVE  StoreStep
<1>1. ASSUME journal' = journal, buffer' = buffer, discarded' = discarded PROVE StoreStep
  BY <1>1 DEF StoreStep, Pend, Safe, Gone
<1>2. ASSUME NEW p \in Proc, Saves(p) PROVE StoreStep
  BY <1>1, <1>2, UnlinkedIsFiled
<1>3. ASSUME NEW p \in Proc, Crash(p) PROVE StoreStep
  <2>1. journal' = journal /\ discarded' = discarded
    BY <1>3 DEF Crash
  <2>2. \A j \in Recorder : Range(buffer'[j]) \subseteq Range(buffer[j])
    <3>1. Range(<<>>) = {}
      BY DEF Range
    <3>2. \A j \in Recorder : buffer'[j] = buffer[j] \/ buffer'[j] = <<>>
      BY <1>3 DEF Crash, JournalInv, TypeInv, RowsOK
    <3> QED
      BY <3>1, <3>2
  <2>3. Pend' \subseteq Pend
    BY <2>2 DEF Pend
  <2> QED
    BY <2>1, <2>3 DEF StoreStep, Safe, Gone
<1>4. CASE Midnight \/ UNCHANGED vars
  BY <1>1, <1>4 DEF Midnight, vars, recorderVars, history
<1> QED
  BY <1>2, <1>3, <1>4, RecordsStore, RecoversStore DEF Next

\* What reached the disk stays retrievable through crashes at any point of a
\* recording, a save or a recovery, until its recording is thrown away on purpose:
\* every step of the journal and the files is one of RecordingStore.
THEOREM StoreImplemented ==
    ASSUME ~Overlap
    PROVE  Spec => ImplementsStore
<1>1. Init => Store!Init /\ NothingLost
  <2> SUFFICES ASSUME Init PROVE Store!Init /\ NothingLost
    OBVIOUS
  <2>1. \A j \in Recorder : Range(journal[j]) = {} /\ Range(buffer[j]) = {}
    BY DEF Init, Range
  <2>2. AllStored = {}
    BY DEF Init, AllStored, Stored, Range
  <2> QED
    BY <2>1, <2>2 DEF Init, Store!Init, NothingLost, Retrievable
<1>2. JournalInv => Apart
  BY RowsApart DEF JournalInv, TypeInv
<1>3. /\ JournalInv /\ Mapped /\ Apart /\ Mapped' /\ Apart'
      /\ [Next]_vars
      => [Store!Next]_(Store!vars)
  <2> SUFFICES ASSUME JournalInv, Mapped, Apart, Mapped', Apart', [Next]_vars
               PROVE  Store!Next
    OBVIOUS
  <2>1. StoreStep
    BY StepStores
  <2>2. /\ PendingRows = Pend /\ PendingRows' = Pend' /\ KeptRows = Safe /\ KeptRows' = Safe'
        /\ DroppedRows = Gone /\ DroppedRows' = Gone'
    BY DEF Mapped, Pend, Safe, Gone, DroppedRows
  <2> QED
    BY <2>1, <2>2 DEF StoreStep, PendingRows, KeptRows, DroppedRows, Store!Next, Store!Take,
       Store!Keep, Store!Lose, Store!Drop
<1>4. Spec => [](JournalInv /\ NothingLost)
  BY <1>1, JournalInvariant, LostStep, PTL DEF Spec
<1> QED
  BY <1>1, <1>2, <1>3, <1>4, StoreMapped, PTL DEF Spec, ImplementsStore, Store!Spec
=============================================================================
