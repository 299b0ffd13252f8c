----------------------------- MODULE PagingProofs -----------------------------
(***************************************************************************)
(* What holds of Paging for lists and pages of any size: the links, the    *)
(* "start-end of total" line, and a walk along "next".                     *)
(*                                                                         *)
(* The arithmetic is that of num_pages, a ceiling that is written with     *)
(* Python's floor division.  The walk has always shown the first rows of   *)
(* the list, as many as the pages before the one that is asked for.        *)
(***************************************************************************)
EXTENDS Paging, TLAPS

PageState == [items : Seq(Int), total : Nat, number : Nat \ {0}, size : 1..MAX_PAGE_SIZE]

Requests ==
  [at : {"idle", "asked", "counted"}, number : Nat \ {0}, size : 1..MAX_PAGE_SIZE,
   total : Nat, next : BOOLEAN]

Types ==
  /\ rows \in 0..MaxRows
  /\ req \in Requests
  /\ page \in PageState \cup {NoPage}

(* The rows a walk has shown: the first n of the list. *)
First(n) == [i \in 1..n |-> i]

Walked(number, size) == Lesser(number * size, rows)

WalkInv ==
  walk # NoWalk =>
    /\ page # NoPage => page.total = rows /\ walk = First(Walked(page.number, page.size))
    /\ req.at # "idle" /\ req.next => walk = First(Walked(req.number - 1, req.size))

IInv == Types /\ (TieBroken => WalkInv)

-----------------------------------------------------------------------------
(* Floor division, and the number of pages. *)
LEMMA Floor ==
  ASSUME NEW a \in Int, NEW b \in Nat \ {0}
  PROVE  (a \div b) \in Int /\ (a \div b) * b <= a /\ a < (a \div b) * b + b
BY SMT

LEMMA Times ==
  ASSUME NEW a \in Int, NEW b \in Int, NEW c \in Nat
  PROVE  /\ a * c \in Int /\ (a - 1) * c = a * c - c
         /\ a <= b => a * c <= b * c
BY SMT

LEMMA Ceiling ==
  ASSUME NEW t \in Nat, NEW size \in Nat \ {0}
  PROVE  LET n == Greater(1, -((-t) \div size))
         IN  /\ n \in Nat \ {0} /\ t <= n * size
             /\ t > 0 => (n - 1) * size < t
<1>1. PICK floor \in Int : floor = (-t) \div size
  BY Floor
<1>2. floor * size \in Int /\ floor * size <= -t /\ -t < floor * size + size
  BY <1>1, Floor, Times
<1>3. (-floor) * size = -(floor * size)
  BY SMT
<1>4. (-floor - 1) * size = (-floor) * size - size
  BY Times
<1>5. CASE t > 0
  <2>1. ASSUME floor >= 0 PROVE FALSE
    <3>1. floor * size >= 0
      BY <2>1
    <3>2. QED
      BY <1>2, <1>5, <3>1
  <2>2. -floor >= 1 /\ Greater(1, -floor) = -floor
    BY <2>1 DEF Greater
  <2>3. QED
    BY <1>1, <1>2, <1>3, <1>4, <2>2
<1>6. CASE t = 0
  <2>1. Greater(1, -floor) \in Nat \ {0}
    BY DEF Greater
  <2>2. Greater(1, -floor) * size >= 0
    BY <2>1
  <2>3. QED
    BY <1>1, <1>6, <2>1, <2>2
<1>7. QED
  BY <1>5, <1>6

LEMMA Pages ==
  ASSUME NEW p \in PageState
  PROVE  /\ NumPages(p) \in Nat \ {0} /\ p.total <= NumPages(p) * p.size
         /\ p.total > 0 => (NumPages(p) - 1) * p.size < p.total
<1>1. p.total \in Nat /\ p.size \in Nat \ {0}
  BY DEF PageState
<1>2. QED
  BY <1>1, Ceiling DEF NumPages

-----------------------------------------------------------------------------
(* Five sequences end to end. *)
Chain(a, b, c, d, e) == a \o b \o c \o d \o e

EndToEnd(s, a, b, c, d, e) ==
  /\ Len(s) = Len(a) + Len(b) + Len(c) + Len(d) + Len(e)
  /\ \A i \in 1..Len(a) : s[i] = a[i]
  /\ \A i \in 1..Len(b) : s[Len(a) + i] = b[i]
  /\ \A i \in 1..Len(c) : s[Len(a) + Len(b) + i] = c[i]
  /\ \A i \in 1..Len(d) : s[Len(a) + Len(b) + Len(c) + i] = d[i]
  /\ \A i \in 1..Len(e) : s[Len(a) + Len(b) + Len(c) + Len(d) + i] = e[i]

LEMMA Joined ==
  ASSUME NEW S, NEW a \in Seq(S), NEW b \in Seq(S), NEW c \in Seq(S), NEW d \in Seq(S),
         NEW e \in Seq(S)
  PROVE  EndToEnd(Chain(a, b, c, d, e), a, b, c, d, e)
<1> DEFINE s == Chain(a, b, c, d, e)
<1>1. ASSUME NEW x \in Seq(S), NEW y \in Seq(S)
      PROVE  /\ x \o y \in Seq(S) /\ Len(x \o y) = Len(x) + Len(y)
             /\ \A i \in 1..Len(x) : (x \o y)[i] = x[i]
             /\ \A i \in 1..Len(y) : (x \o y)[Len(x) + i] = y[i]
  OBVIOUS
<1> DEFINE ab == a \o b  abc == ab \o c  abcd == abc \o d
<1>2. /\ ab \in Seq(S) /\ Len(ab) = Len(a) + Len(b)
      /\ \A i \in 1..Len(a) : ab[i] = a[i]
      /\ \A i \in 1..Len(b) : ab[Len(a) + i] = b[i]
  BY <1>1
<1> HIDE DEF ab
<1>3. /\ abc \in Seq(S) /\ Len(abc) = Len(ab) + Len(c)
      /\ \A i \in 1..Len(ab) : abc[i] = ab[i]
      /\ \A i \in 1..Len(c) : abc[Len(ab) + i] = c[i]
  BY <1>1, <1>2
<1> HIDE DEF abc
<1>4. /\ abcd \in Seq(S) /\ Len(abcd) = Len(abc) + Len(d)
      /\ \A i \in 1..Len(abc) : abcd[i] = abc[i]
      /\ \A i \in 1..Len(d) : abcd[Len(abc) + i] = d[i]
  BY <1>1, <1>3
<1> HIDE DEF abcd
<1>5. /\ s \in Seq(S) /\ Len(s) = Len(abcd) + Len(e)
      /\ \A i \in 1..Len(abcd) : s[i] = abcd[i]
      /\ \A i \in 1..Len(e) : s[Len(abcd) + i] = e[i]
  BY <1>1, <1>4 DEF Chain, abcd, abc, ab
<1> HIDE DEF s
<1>6. /\ Len(a) \in Nat /\ Len(b) \in Nat /\ Len(c) \in Nat /\ Len(d) \in Nat
      /\ Len(e) \in Nat
  OBVIOUS
<1>7. \A i \in 1..Len(abcd) : s[i] = abcd[i]
  BY <1>5
<1>8. \A i \in 1..Len(abc) : s[i] = abc[i]
  <2>1. Len(abc) \in Nat /\ Len(abcd) = Len(abc) + Len(d)
    BY <1>2, <1>3, <1>4, <1>6
  <2>2. \A i \in 1..Len(abc) : i \in 1..Len(abcd)
    BY <1>6, <2>1
  <2>3. \A i \in 1..Len(abc) : abcd[i] = abc[i]
    BY <1>4
  <2>4. QED
    BY <1>7, <2>2, <2>3
<1>9. \A i \in 1..Len(ab) : s[i] = ab[i]
  BY <1>2, <1>3, <1>6, <1>8
<1>10. \A i \in 1..Len(a) : s[i] = a[i]
  BY <1>2, <1>6, <1>9
<1>11. \A i \in 1..Len(b) : s[Len(a) + i] = b[i]
  BY <1>2, <1>6, <1>9
<1>12. \A i \in 1..Len(c) : s[Len(a) + Len(b) + i] = c[i]
  BY <1>2, <1>3, <1>6, <1>8
<1>13. \A i \in 1..Len(d) : s[Len(a) + Len(b) + Len(c) + i] = d[i]
  BY <1>2, <1>3, <1>4, <1>6, <1>7
<1>14. Len(abcd) = Len(a) + Len(b) + Len(c) + Len(d)
  BY <1>2, <1>3, <1>4, <1>6
<1>15. Len(s) = Len(a) + Len(b) + Len(c) + Len(d) + Len(e)
  BY <1>5, <1>14
<1>16. \A i \in 1..Len(e) : s[Len(a) + Len(b) + Len(c) + Len(d) + i] = e[i]
  BY <1>5, <1>14
<1>17. QED
  BY <1>10, <1>11, <1>12, <1>13, <1>15, <1>16 DEF EndToEnd, s

LEMMA NumbersAre ==
  ASSUME NEW a \in Int, NEW b \in Int, a <= b + 1
  PROVE  /\ Numbers(a, b) \in Seq(Int) /\ Len(Numbers(a, b)) = b - a + 1
         /\ \A i \in 1..(b - a + 1) : Numbers(a, b)[i] = a + i - 1
BY DEF Numbers

(* The links of a page: the first, at most three around the page, and the last, with
   gaps where something is left out between them. *)
LEMMA Links ==
  ASSUME NEW p \in PageState
  PROVE  LET n == NumPages(p)
             s == PageRange(p)
         IN  /\ Len(s) \in Nat \ {0} /\ DOMAIN s = 1..Len(s) /\ s[1] = 1 /\ s[Len(s)] = n
             /\ \A i \in 1..Len(s) : s[i] # Gap => s[i] \in 1..n
             /\ \A i \in 2..Len(s) :
                   IF s[i] = Gap THEN Gap # s[i - 1] /\ s[i - 1] + 1 < s[i + 1]
                   ELSE Gap = s[i - 1] \/ s[i - 1] + 1 = s[i]
<1> DEFINE n == NumPages(p)
           from == Greater(2, p.number - 1)
           to == Lesser(n - 1, p.number + 1)
           before == IF from > 2 THEN <<Gap>> ELSE <<>>
           middle == IF to < from THEN <<>> ELSE Numbers(from, to)
           after == IF to < n - 1 THEN <<Gap>> ELSE <<>>
           s == PageRange(p)
<1>1. n \in Nat \ {0} /\ p.number \in Nat \ {0}
  BY Pages DEF PageState
<1>2. CASE n <= 7
  <2>1. s = Numbers(1, n)
    BY <1>2 DEF PageRange
  <2> HIDE DEF s, n
  <2>2. Len(s) = n /\ \A i \in 1..n : s[i] = i
    <3>1. /\ Len(Numbers(1, n)) = n - 1 + 1
          /\ \A i \in 1..(n - 1 + 1) : Numbers(1, n)[i] = 1 + i - 1
      <4>1. 1 \in Int /\ n \in Int /\ 1 <= n + 1
        BY <1>1
      <4>2. QED
        BY <4>1, NumbersAre
    <3>2. n - 1 + 1 = n
      BY <1>1
    <3>3. QED
      BY <2>1, <3>1, <3>2
  <2>3. QED
    BY <1>1, <2>2, GapIsNoNumber DEF s, n
<1>3. CASE n > 7
  <2>0. ~(n <= 7)
    BY <1>1, <1>3
  <2>1. s = <<1>> \o before \o middle \o after \o <<n>>
    BY <2>0, Zenon DEF PageRange
  <2>2. /\ from \in Nat /\ to \in Nat /\ from >= 2 /\ to <= n - 1
        /\ to < from => from > 2 /\ to = n - 1
        /\ from <= n - 1 \/ to < from
    BY <1>1, <1>3 DEF Greater, Lesser
  <2> HIDE DEF n, from, to, s
  <2> DEFINE m == IF to < from THEN 0 ELSE to - from + 1
             x == IF from > 2 THEN 1 ELSE 0
             y == IF to < n - 1 THEN 1 ELSE 0
  <2>3. /\ middle \in Seq(Int \cup {Gap}) /\ Len(middle) = m
        /\ \A i \in 1..m : middle[i] = from + i - 1
    <3>1. CASE to < from
      BY <3>1
    <3>2. CASE ~(to < from)
      <4>1. /\ Numbers(from, to) \in Seq(Int) /\ Len(Numbers(from, to)) = to - from + 1
            /\ \A i \in 1..(to - from + 1) : Numbers(from, to)[i] = from + i - 1
        BY <2>2, <3>2, NumbersAre
      <4>2. QED
        BY <2>2, <3>2, <4>1
    <3>3. QED
      BY <3>1, <3>2
  <2>4. /\ before \in Seq(Int \cup {Gap}) /\ Len(before) = x /\ (x = 1 => before[1] = Gap)
        /\ after \in Seq(Int \cup {Gap}) /\ Len(after) = y /\ (y = 1 => after[1] = Gap)
    <3>1. /\ <<Gap>> \in Seq(Int \cup {Gap}) /\ Len(<<Gap>>) = 1 /\ <<Gap>>[1] = Gap
          /\ <<>> \in Seq(Int \cup {Gap}) /\ Len(<<>>) = 0
      OBVIOUS
    <3>2. before \in Seq(Int \cup {Gap}) /\ Len(before) = x /\ (x = 1 => before[1] = Gap)
      <4>1. CASE from > 2
        BY <3>1, <4>1
      <4>2. CASE ~(from > 2)
        BY <3>1, <4>2
      <4>3. QED
        BY <4>1, <4>2
    <3>3. after \in Seq(Int \cup {Gap}) /\ Len(after) = y /\ (y = 1 => after[1] = Gap)
      <4>1. CASE to < n - 1
        BY <3>1, <4>1
      <4>2. CASE ~(to < n - 1)
        BY <3>1, <4>2
      <4>3. QED
        BY <4>1, <4>2
    <3>4. QED
      BY <3>2, <3>3
  <2>5. /\ <<1>> \in Seq(Int \cup {Gap}) /\ Len(<<1>>) = 1 /\ <<1>>[1] = 1
        /\ <<n>> \in Seq(Int \cup {Gap}) /\ Len(<<n>>) = 1 /\ <<n>>[1] = n
    BY <1>1
  <2> HIDE DEF before, middle, after
  <2>6. /\ Len(s) = x + m + y + 2 /\ s[1] = 1
        /\ x = 1 => s[2] = Gap
        /\ \A i \in 1..m : s[1 + x + i] = from + i - 1
        /\ y = 1 => s[2 + x + m] = Gap
        /\ s[x + m + y + 2] = n
    <3> DEFINE first == <<1>>
               final == <<n>>
    <3>1. first \in Seq(Int \cup {Gap}) /\ Len(first) = 1 /\ first[1] = 1
      BY <2>5
    <3>2. final \in Seq(Int \cup {Gap}) /\ Len(final) = 1 /\ final[1] = n
      BY <2>5
    <3>3. s = Chain(first, before, middle, after, final)
      BY <2>1 DEF Chain
    <3>4. m \in Nat /\ x \in 0..1 /\ y \in 0..1
      BY <2>2
    <3> HIDE DEF first, final, m, x, y
    <3>5. /\ Len(s) = Len(first) + Len(before) + Len(middle) + Len(after) + Len(final)
          /\ \A i \in 1..Len(first) : s[i] = first[i]
          /\ \A i \in 1..Len(before) : s[Len(first) + i] = before[i]
          /\ \A i \in 1..Len(middle) : s[Len(first) + Len(before) + i] = middle[i]
          /\ \A i \in 1..Len(after) :
                s[Len(first) + Len(before) + Len(middle) + i] = after[i]
          /\ \A i \in 1..Len(final) :
                s[Len(first) + Len(before) + Len(middle) + Len(after) + i] = final[i]
      <4>1. EndToEnd(s, first, before, middle, after, final)
        BY <2>3, <2>4, <3>1, <3>2, <3>3, Joined
      <4>2. QED
        BY <4>1 DEF EndToEnd
    <3>6. Len(s) = x + m + y + 2
      BY <2>3, <2>4, <3>1, <3>2, <3>4, <3>5
    <3>7. s[1] = 1
      BY <3>1, <3>5
    <3>8. x = 1 => s[2] = Gap
      BY <2>4, <3>1, <3>5
    <3>9. ASSUME NEW i \in 1..m PROVE s[1 + x + i] = from + i - 1
      BY <2>3, <2>4, <3>1, <3>5
    <3>10. y = 1 => s[2 + x + m] = Gap
      BY <2>3, <2>4, <3>1, <3>4, <3>5
    <3>11. s[x + m + y + 2] = n
      <4>1. s[1 + x + m + y + 1] = n
        BY <2>3, <2>4, <3>1, <3>2, <3>5
      <4>2. QED
        BY <3>4, <4>1
    <3>12. QED
      BY <3>6, <3>7, <3>8, <3>9, <3>10, <3>11
  <2>7. /\ m \in Nat /\ x \in 0..1 /\ y \in 0..1
        /\ x = 0 => from = 2
        /\ x = 1 => from > 2
        /\ m > 0 => from + m - 1 = to /\ to <= n - 1
        /\ m = 0 => x = 1 /\ y = 0
        /\ m > 0 /\ y = 0 => to = n - 1
        /\ m > 0 /\ y = 1 => to < n - 1
    BY <1>1, <2>2
  <2> HIDE DEF m, x, y
  <2>8. \A i \in 2..Len(s) :
           \/ x = 1 /\ i = 2
           \/ \E j \in 1..m : i = 1 + x + j
           \/ y = 1 /\ i = 2 + x + m
           \/ i = x + m + y + 2
    <3> SUFFICES ASSUME NEW i \in 2..Len(s), ~(x = 1 /\ i = 2), ~(y = 1 /\ i = 2 + x + m),
                        i # x + m + y + 2
                 PROVE  \E j \in 1..m : i = 1 + x + j
      OBVIOUS
    <3>1. i - 1 - x \in 1..m /\ i = 1 + x + (i - 1 - x)
      BY <2>6, <2>7
    <3>2. QED
      BY <3>1
  <2>9. \A i \in 1..Len(s) : s[i] # Gap => s[i] \in 1..n
    <3>1. 1 \in 1..n /\ n \in 1..n /\ \A j \in 1..m : from + j - 1 \in 1..n
      BY <1>1, <2>2, <2>7
    <3>2. \A i \in 1..Len(s) : i = 1 \/ i \in 2..Len(s)
      BY <2>6, <2>7
    <3>3. QED
      BY <2>6, <2>8, <3>1, <3>2
  <2>10. ASSUME NEW i \in 2..Len(s)
         PROVE  IF s[i] = Gap THEN Gap # s[i - 1] /\ s[i - 1] + 1 < s[i + 1]
                ELSE Gap = s[i - 1] \/ s[i - 1] + 1 = s[i]
    <3> USE GapIsNoNumber
    <3>0. n \in Nat /\ n > 7 /\ from \in Nat /\ to \in Nat /\ from >= 2
      BY <1>1, <1>3, <2>2 DEF n
    <3>1. CASE x = 1 /\ i = 2
      <4>1. s[3] = IF m > 0 THEN from ELSE n
        BY <2>6, <2>7, <3>0, <3>1
      <4>2. QED
        BY <2>6, <2>7, <3>0, <3>1, <4>1
    <3>2. ASSUME NEW j \in 1..m, i = 1 + x + j
          PROVE  s[i] # Gap /\ (Gap = s[i - 1] \/ s[i - 1] + 1 = s[i])
      <4>1. s[i] = from + j - 1
        BY <2>6, <3>2
      <4>2. CASE j = 1
        BY <2>6, <2>7, <3>0, <3>2, <4>1, <4>2
      <4>3. CASE j > 1
        <5>1. j - 1 \in 1..m /\ i - 1 = 1 + x + (j - 1)
          BY <2>7, <3>2, <4>3
        <5>2. s[i - 1] = from + (j - 1) - 1
          BY <2>6, <5>1
        <5>3. QED
          BY <3>0, <4>1, <5>1, <5>2
      <4>4. QED
        BY <4>2, <4>3
    <3>3. ASSUME m > 0 PROVE s[1 + x + m] = to
      BY <2>6, <2>7, <3>0, <3>3
    <3>4. CASE y = 1 /\ i = 2 + x + m
      <4>1. m > 0 /\ i - 1 = 1 + x + m /\ i + 1 = x + m + y + 2
        BY <2>7, <3>4
      <4>2. s[i] = Gap /\ s[i - 1] = to /\ s[i + 1] = n /\ to < n - 1
        BY <2>6, <2>7, <3>3, <3>4, <4>1
      <4>3. QED
        BY <3>0, <4>2
    <3>5. CASE i = x + m + y + 2
      <4>1. s[i] = n
        BY <2>6, <3>5
      <4>2. CASE y = 1
        BY <2>6, <2>7, <3>0, <3>5, <4>1, <4>2
      <4>3. CASE y = 0 /\ m > 0
        <5>1. s[i - 1] = to /\ to = n - 1
          BY <2>7, <3>3, <3>5, <4>3
        <5>2. QED
          BY <3>0, <4>1, <5>1
      <4>4. CASE m = 0
        BY <2>6, <2>7, <3>0, <3>5, <4>1, <4>4
      <4>5. QED
        BY <2>7, <4>2, <4>3, <4>4
    <3>6. QED
      BY <2>8, <3>1, <3>2, <3>4, <3>5
  <2>11. QED
    BY <2>6, <2>7, <2>9, <2>10 DEF n, s
<1>4. QED
  BY <1>1, <1>2, <1>3
-----------------------------------------------------------------------------
(* What one page shows, and a walk before and after it. *)
LEMMA OrdersAre ==
  ASSUME NEW n \in Nat, NEW order \in Orders(n)
  PROVE  /\ order \in Seq(Int) /\ Len(order) = n
         /\ TieBroken => order = First(n)
<1>1. [i \in 1..n |-> i] \in Seq(Int) /\ Len([i \in 1..n |-> i]) = n
  OBVIOUS
<1>2. ASSUME NEW k \in Int
      PROVE  LET swapped == [i \in 1..n |-> IF i = k THEN k + 1 ELSE IF i = k + 1 THEN k ELSE i]
             IN  swapped \in Seq(Int) /\ Len(swapped) = n
  OBVIOUS
<1>3. QED
  BY <1>1, <1>2 DEF Orders, Orders_Ties, First

RowsOf(order, from, size) == SubSeq(order, from + 1, Lesser(from + size, Len(order)))

AreRowsOf(items, order, from, size) ==
  /\ items \in Seq(Int)
  /\ Len(items) = Greater(0, Lesser(from + size, Len(order)) - from)
  /\ \A i \in 1..Len(items) : items[i] = order[from + i]

LEMMA Slices ==
  ASSUME NEW order \in Seq(Int), NEW from \in Nat, NEW size \in Nat \ {0}
  PROVE  AreRowsOf(RowsOf(order, from, size), order, from, size)
BY DEF AreRowsOf, RowsOf, Lesser, Greater

LEMMA Joins ==
  ASSUME NEW k \in Nat, NEW items \in Seq(Int),
         \A i \in 1..Len(items) : items[i] = k + i
  PROVE  First(k) \o items = First(k + Len(items))
BY DEF First

-----------------------------------------------------------------------------
LEMMA InitInv == Init => IInv
BY SizesPositive, ParametersKnown
   DEF Init, IInv, Types, WalkInv, NoRequest, Requests

LEMMA Sends ==
  ASSUME IInv, NEW number \in Nat \ {0}, NEW size \in 1..MAX_PAGE_SIZE, NEW next \in BOOLEAN,
         Send(number, size, next),
         next /\ TieBroken /\ walk # NoWalk => walk = First(Walked(number - 1, size))
  PROVE  IInv'
<1>1. Types'
  BY DEF IInv, Types, Send, Requests
<1>2. TieBroken => WalkInv'
  BY DEF Send, WalkInv, Walked
<1>3. QED
  BY <1>1, <1>2 DEF IInv

LEMMA Parses ==
  /\ \A raw \in RawNumbers : ParseNumber(raw) \in Nat \ {0}
  /\ \A raw \in RawSizes \cup PAGE_SIZE_CHOICES : ParseSize(raw) \in 1..MAX_PAGE_SIZE
BY ParametersKnown, SizesPositive DEF ParseNumber, ParseSize, Greater, Lesser

(* Counting on from an offset for as many rows as a slice holds never leaves the rows. *)
LEMMA StaysWithin ==
  ASSUME NEW from \in Nat, NEW size \in Nat, NEW count \in Nat,
         NEW n, n = Greater(0, Lesser(from + size, count) - from)
  PROVE  n \in Nat /\ \A i \in 1..n : from + i \in 1..count
<1>1. n \in Nat /\ (n = 0 \/ from + n <= count)
  BY DEF Greater, Lesser
<1>2. ASSUME NEW i \in 1..n
      PROVE  from + i \in 1..count
  BY <1>1
<1>3. QED
  BY <1>1, <1>2

LEMMA SliceStep ==
  ASSUME IInv, Slice
  PROVE  IInv'
<1>1. req \in Requests /\ rows \in Nat /\ rows' = rows /\ rows \in 0..MaxRows
      /\ MAX_PAGE_SIZE \in Nat
  BY MaxRowsNat, ParametersKnown DEF IInv, Types, Slice
<1> DEFINE from == (req.number - 1) * req.size
           items(order) == SubSeq(order, from + 1, Lesser(from + req.size, rows))
<1>2. PICK order \in Orders(rows) :
        /\ page' = [items |-> items(order), total |-> req.total,
                    number |-> req.number, size |-> req.size]
        /\ walk' = IF req.total # rows THEN NoWalk
                   ELSE IF req.number = 1 THEN items(order)
                   ELSE IF req.next /\ walk # NoWalk THEN walk \o items(order) ELSE NoWalk
  BY DEF Slice, Offset
<1>3. /\ req.number \in Nat \ {0} /\ req.size \in Nat \ {0} /\ req.size \in 1..MAX_PAGE_SIZE
      /\ req.total \in Nat
  BY <1>1 DEF Requests
<1>4. from \in Nat /\ req.number * req.size = from + req.size
  BY <1>3, Times
<1>5. /\ order \in Seq(Int) /\ Len(order) = rows
      /\ TieBroken => order = First(rows)
  BY <1>1, OrdersAre
<1> DEFINE shown == items(order)
<1>6. /\ shown \in Seq(Int)
      /\ Len(shown) = Greater(0, Lesser(from + req.size, rows) - from)
      /\ \A i \in 1..Len(shown) : shown[i] = order[from + i]
  <2> HIDE DEF from
  <2>1. AreRowsOf(RowsOf(order, from, req.size), order, from, req.size)
    BY <1>3, <1>4, <1>5, Slices
  <2>2. shown = RowsOf(order, from, req.size)
    BY <1>5 DEF RowsOf
  <2> HIDE DEF shown
  <2>3. QED
    BY <1>5, <2>1, <2>2 DEF AreRowsOf
<1>7. /\ page' = [items |-> shown, total |-> req.total, number |-> req.number, size |-> req.size]
      /\ walk' = IF req.total # rows THEN NoWalk
                 ELSE IF req.number = 1 THEN shown
                 ELSE IF req.next /\ walk # NoWalk THEN walk \o shown ELSE NoWalk
  BY <1>2
<1>8. from = 0 <=> req.number = 1
  BY <1>3
<1> HIDE DEF from, items, shown
<1>9. Types'
  <2>1. page' \in PageState
    BY <1>3, <1>6, <1>7 DEF PageState
  <2>2. req' \in Requests
    BY SizesPositive, <1>1 DEF Slice, NoRequest, Requests
  <2>3. QED
    BY <1>1, <2>1, <2>2 DEF Types
<1>10. ASSUME TieBroken, walk' # NoWalk
       PROVE  req.total = rows /\ walk' = First(Lesser(from + req.size, rows))
  <2>1. req.total = rows
    BY <1>7, <1>10
  <2>2. \A i \in 1..Len(shown) : shown[i] = from + i
    <3>1. \A i \in 1..Len(shown) : from + i \in 1..rows
      <4>1. req.size \in Nat /\ rows \in Nat /\ from \in Nat
        BY <1>1, <1>3, <1>4
      <4>2. Len(shown) = Greater(0, Lesser(from + req.size, rows) - from)
        BY <1>6
      <4>3. QED
        BY <4>1, <4>2, StaysWithin
    <3>2. QED
      BY <1>5, <1>6, <1>10, <3>1 DEF First
  <2>3. CASE req.number = 1
    <3>1. from = 0 /\ walk' = shown
      BY <1>7, <1>8, <2>1, <2>3
    <3>2. First(0) \o shown = First(0 + Len(shown)) /\ First(0) \o shown = shown
      <4>1. First(0) = <<>>
        BY DEF First
      <4>2. QED
        BY <1>6, <2>2, <3>1, <4>1, Joins
    <3>3. Len(shown) = Lesser(from + req.size, rows)
      BY <1>1, <1>3, <1>6, <3>1 DEF Greater, Lesser
    <3>4. QED
      BY <1>6, <2>1, <3>1, <3>2, <3>3
  <2>4. CASE req.number # 1
    <3>1. req.next /\ walk # NoWalk /\ walk' = walk \o shown
      BY <1>7, <1>10, <2>1, <2>4
    <3>2. walk = First(Lesser(from, rows))
      BY <1>10, <3>1 DEF IInv, WalkInv, Walked, Slice, from
    <3>3. CASE from <= rows
      <4>1. walk' = First(from + Len(shown))
        <5>1. First(from) \o shown = First(from + Len(shown))
          BY <1>4, <1>6, <2>2, Joins
        <5>2. walk = First(from)
          BY <1>1, <1>4, <3>2, <3>3 DEF Lesser
        <5>3. QED
          BY <3>1, <5>1, <5>2
      <4>2. from + Len(shown) = Lesser(from + req.size, rows)
        BY <1>1, <1>3, <1>4, <1>6, <3>3 DEF Greater, Lesser
      <4>3. QED
        BY <2>1, <4>1, <4>2
    <3>4. CASE from > rows
      <4>1. Len(shown) = 0 /\ walk = First(rows)
        BY <1>1, <1>3, <1>4, <1>6, <3>2, <3>4 DEF Greater, Lesser
      <4>2. walk' = First(rows + Len(shown))
        <5>1. First(rows) \o shown = First(rows + Len(shown))
          <6>1. \A i \in 1..Len(shown) : shown[i] = rows + i
            BY <4>1
          <6>2. QED
            BY <1>1, <1>6, <6>1, Joins
        <5>2. QED
          BY <3>1, <4>1, <5>1
      <4>3. rows + Len(shown) = Lesser(from + req.size, rows)
        BY <1>1, <1>3, <1>4, <3>4, <4>1 DEF Lesser
      <4>4. QED
        BY <2>1, <4>2, <4>3
    <3>5. QED
      BY <1>1, <1>4, <3>3, <3>4
  <2>5. QED
    BY <2>3, <2>4
<1>11. TieBroken => WalkInv'
  <2>1. /\ page'.total = req.total /\ page'.number = req.number /\ page'.size = req.size
        /\ req'.at = "idle"
    BY <1>7 DEF Slice, NoRequest
  <2>2. QED
    BY <1>1, <1>4, <1>10, <2>1 DEF WalkInv, Walked
<1>12. QED
  BY <1>9, <1>11 DEF IInv

LEMMA Step == IInv /\ [Next]_vars => IInv'
<1> SUFFICES ASSUME IInv, [Next]_vars PROVE IInv'
  OBVIOUS
<1>0. Types /\ MAX_PAGE_SIZE \in Nat
  BY ParametersKnown DEF IInv
<1>a. ASSUME NEW number \in Nat \ {0}, NEW size \in 1..MAX_PAGE_SIZE,
             Send(number, size, FALSE)
      PROVE  IInv'
  BY <1>a, Sends
<1>1. CASE OpenUrl
  BY <1>1, <1>a, Parses DEF OpenUrl
<1>2. CASE FollowNext
  <2>1. page \in PageState /\ page.number < NumPages(page)
    BY <1>0, <1>2 DEF FollowNext, HasNext, Types
  <2>2. /\ page.number \in Nat \ {0} /\ page.size \in 1..MAX_PAGE_SIZE
        /\ NextNumber(page) = page.number + 1
    BY <2>1, Pages DEF PageState, NextNumber, Lesser
  <2>3. Send(page.number + 1, page.size, TRUE)
    BY <1>2, <2>2 DEF FollowNext
  <2>4. TieBroken /\ walk # NoWalk => walk = First(Walked(page.number + 1 - 1, page.size))
    <3>1. page.number + 1 - 1 = page.number
      BY <2>2
    <3>2. TieBroken /\ walk # NoWalk => walk = First(Walked(page.number, page.size))
      BY <1>2 DEF IInv, WalkInv, FollowNext
    <3>3. QED
      BY <3>1, <3>2
  <2>5. page.number + 1 \in Nat \ {0}
    BY <2>2
  <2>6. QED
    <3>1. PICK next \in BOOLEAN : next = TRUE
      OBVIOUS
    <3>2. Send(page.number + 1, page.size, next)
      BY <2>3, <3>1
    <3>3. QED
      BY <2>2, <2>4, <2>5, <3>2, Sends
<1>3. CASE FollowPrevious
  <2>1. page.number \in Nat \ {0} /\ page.size \in 1..MAX_PAGE_SIZE
    BY <1>0, <1>3 DEF FollowPrevious, Types, PageState
  <2>2. PreviousNumber(page) \in Nat \ {0}
    BY <2>1 DEF PreviousNumber, Greater
  <2>3. QED
    <3>1. PICK n \in {1, PreviousNumber(page)} : Send(n, page.size, FALSE)
      BY <1>3 DEF FollowPrevious
    <3>2. n \in Nat \ {0}
      BY <2>2
    <3>3. QED
      BY <1>a, <2>1, <3>1, <3>2
<1>4. CASE FollowNumber
  <2>1. page \in PageState /\ page.size \in 1..MAX_PAGE_SIZE
    BY <1>0, <1>4 DEF FollowNumber, Types, PageState
  <2>2. \A n \in ToSet(PageRange(page)) \ {Gap} : n \in Nat \ {0}
    BY <2>1, Links, Pages DEF ToSet
  <2>3. QED
    BY <1>4, <1>a, <2>1, <2>2 DEF FollowNumber
<1>5. CASE ChooseSize
  <2>1. PICK size \in PAGE_SIZE_CHOICES : Send(1, ParseSize(size), FALSE)
    BY <1>5 DEF ChooseSize
  <2>2. ParseSize(size) \in 1..MAX_PAGE_SIZE /\ 1 \in Nat \ {0}
    BY Parses
  <2>3. QED
    BY <1>a, <2>1, <2>2
<1>6. CASE Count
  <2>1. Types'
    <3>1. req \in Requests /\ rows \in Nat
      BY <1>0, MaxRowsNat DEF Types
    <3>2. [req EXCEPT !.at = "counted", !.total = rows] \in Requests
      BY <3>1 DEF Requests
    <3>3. QED
      BY <1>0, <1>6, <3>2 DEF Count, Types
  <2>2. req'.number = req.number /\ req'.size = req.size /\ req'.next = req.next
    BY <1>0, <1>6 DEF Count, Types, Requests
  <2>3. TieBroken => WalkInv'
    BY <1>6, <2>2 DEF IInv, Count, WalkInv, Walked
  <2>4. QED
    BY <2>1, <2>3 DEF IInv
<1>7. CASE Slice
  BY <1>7, SliceStep
<1>8. CASE Change
  BY <1>0, <1>8, MaxRowsNat DEF IInv, Change, Types, WalkInv
<1>9. CASE UNCHANGED vars
  BY <1>9 DEF vars, IInv, Types, WalkInv, Walked
<1>10. QED
  BY <1>1, <1>2, <1>3, <1>4, <1>5, <1>6, <1>7, <1>8, <1>9 DEF Next

(* views that paginate: the invariant, for lists, pages and parameters of any size. *)
THEOREM Invariant == Spec => []IInv
<1>1. QED
  BY InitInv, Step, PTL DEF Spec

(* pagination.py:61-79.  Wherever the browser is, also past the end, every numbered link
   leads to a page with rows, the last row is on the last of them, and a gap stands
   exactly where numbers are left out. *)
THEOREM Leads == Spec => []LinksLead
<1>1. IInv => LinksLead
  <2> SUFFICES ASSUME IInv, Shown, page.total > 0 PROVE LinksLead
    BY DEF LinksLead
  <2> DEFINE s == PageRange(page)  n == NumPages(page)
  <2>1. page \in PageState
    BY DEF IInv, Types, Shown
  <2>2. page.size \in Nat /\ page.total \in Nat
    BY <2>1, ParametersKnown DEF PageState
  <2>3. n \in Nat \ {0} /\ page.total <= n * page.size /\ (n - 1) * page.size < page.total
    BY <2>1, Pages
  <2>4. /\ Len(s) \in Nat \ {0} /\ s[1] = 1 /\ s[Len(s)] = n
        /\ \A i \in 1..Len(s) : s[i] # Gap => s[i] \in 1..n
        /\ \A i \in 2..Len(s) :
              IF s[i] = Gap THEN Gap # s[i - 1] /\ s[i - 1] + 1 < s[i + 1]
              ELSE Gap = s[i - 1] \/ s[i - 1] + 1 = s[i]
    BY <2>1, Links
  <2> HIDE DEF s, n
  <2>5. page.total <= Offset(n, page.size) + page.size
    BY <2>2, <2>3, Times DEF Offset
  <2>6. \A k \in 1..n : Offset(k, page.size) < page.total
    <3>1. ASSUME NEW k \in 1..n PROVE (k - 1) * page.size <= (n - 1) * page.size
      BY <2>2, <2>3, Times
    <3>2. \A k \in 1..n : (k - 1) * page.size \in Int
      BY <2>2, <2>3, Times
    <3>3. (n - 1) * page.size \in Int
      BY <2>2, <2>3, Times
    <3>4. QED
      BY <2>2, <2>3, <3>1, <3>2, <3>3 DEF Offset
  <2>7. s[Len(s)] # Gap
    BY <2>3, <2>4, GapIsNoNumber
  <2>8. QED
    BY <2>4, <2>5, <2>6, <2>7 DEF LinksLead, s
<1>2. QED
  BY <1>1, Invariant, PTL

(* pagination.py:23-43, selectors.py:45.  Following "next" from the first page of a list
   that stays as it is shows every row exactly once, in order: provided the order ends
   in a unique column, as that of the code does. *)
THEOREM SeesAll == ASSUME TieBroken PROVE Spec => []WalkSeesAll
<1>1. IInv => WalkSeesAll
  <2> SUFFICES ASSUME IInv, Shown, walk # NoWalk, ~HasNext(page) PROVE WalkSeesAll
    BY DEF WalkSeesAll
  <2>1. /\ page \in PageState /\ page.total = rows
        /\ walk = First(Walked(page.number, page.size))
    BY DEF IInv, Types, WalkInv, Shown
  <2>2. page.number \in Nat /\ page.size \in Nat /\ rows \in Nat
    BY <2>1, ParametersKnown DEF PageState
  <2>3. NumPages(page) \in Nat /\ rows <= NumPages(page) * page.size
    BY <2>1, Pages
  <2>4. NumPages(page) <= page.number
    BY <2>2, <2>3 DEF HasNext
  <2>5. NumPages(page) * page.size <= page.number * page.size
    BY <2>2, <2>3, <2>4, Times
  <2>6. page.number * page.size \in Int /\ NumPages(page) * page.size \in Int
    BY <2>2, <2>3, Times
  <2>7. Walked(page.number, page.size) = rows
    BY <2>2, <2>3, <2>5, <2>6 DEF Walked, Lesser
  <2>8. walk = [i \in 1..rows |-> i]
    BY <2>1, <2>7 DEF First
  <2>9. QED
    BY <2>2, <2>8 DEF WalkSeesAll, ToSet
<1>2. QED
  BY <1>1, Invariant, PTL

-----------------------------------------------------------------------------
(* The rows that "start-end of total" speaks of. *)
LEMMA AnnouncedAre ==
  ASSUME NEW p \in PageState, NEW from \in Nat, from = Offset(p.number, p.size)
  PROVE  /\ Announced(p) = Greater(0, Lesser(from + p.size, p.total) - from)
         /\ p.total > 0 => StartIndex(p) = from + 1
<1>1. /\ p.number \in Nat \ {0} /\ p.size \in Nat \ {0} /\ p.total \in Nat
      /\ p.number * p.size = from + p.size
  <2>1. p.number \in Nat \ {0} /\ p.size \in Nat \ {0} /\ p.total \in Nat
    BY DEF PageState
  <2>2. QED
    BY <2>1, Times DEF Offset
<1>2. EndIndex(p) = Lesser(from + p.size, p.total)
  BY <1>1 DEF EndIndex
<1>3. StartIndex(p) = IF p.total = 0 THEN 0 ELSE from + 1
  BY DEF StartIndex, Offset
<1>4. CASE p.total = 0
  <2>1. Greater(0, Lesser(from + p.size, 0) - from) = 0
    BY <1>1 DEF Greater, Lesser
  <2>2. QED
    BY <1>4, <2>1 DEF Announced
<1>5. CASE p.total > 0
  <2>1. EndIndex(p) - StartIndex(p) + 1 = Lesser(from + p.size, p.total) - from
    BY <1>1, <1>2, <1>3, <1>5 DEF Lesser
  <2>2. QED
    BY <1>3, <1>5, <2>1 DEF Announced
<1>6. QED
  BY <1>1, <1>4, <1>5

(* Counting and reading differ by no more than the list did. *)
LEMMA Drift ==
  ASSUME NEW a \in Nat, NEW s \in Nat, NEW t \in Nat, NEW r \in Nat
  PROVE  LET gap == Greater(0, Lesser(a + s, t) - a) - Greater(0, Lesser(a + s, r) - a)
             drift == t - r
         IN  Greater(gap, -gap) <= Greater(drift, -drift)
BY DEF Greater, Lesser

LEMMA SliceTells ==
  ASSUME IInv, TieBroken, Slice
  PROVE  LET gap == Announced(page') - Len(page'.items)
             drift == req.total - rows
         IN  /\ Greater(gap, -gap) <= Greater(drift, -drift)
             /\ drift = 0 /\ page'.number <= NumPages(page') /\ rows > 0
                  => \A i \in 1..Len(page'.items) : page'.items[i] = StartIndex(page') + i - 1
<1>1. req \in Requests /\ rows \in Nat
  BY MaxRowsNat DEF IInv, Types
<1>2. /\ req.number \in Nat \ {0} /\ req.size \in Nat \ {0} /\ req.size \in 1..MAX_PAGE_SIZE
      /\ req.total \in Nat
  BY <1>1, ParametersKnown DEF Requests
<1> DEFINE from == Offset(req.number, req.size)
<1>3. from \in Nat
  BY <1>2 DEF Offset
<1>4. PICK order, items :
        /\ order \in Orders(rows)
        /\ items = SubSeq(order, from + 1, Lesser(from + req.size, rows))
        /\ page' = [items |-> items, total |-> req.total,
                    number |-> req.number, size |-> req.size]
  BY DEF Slice
<1>5. order \in Seq(Int) /\ Len(order) = rows /\ order = First(rows)
  BY <1>1, <1>4, OrdersAre
<1> HIDE DEF from
<1>6. /\ items \in Seq(Int)
      /\ Len(items) = Greater(0, Lesser(from + req.size, rows) - from)
      /\ \A i \in 1..Len(items) : items[i] = order[from + i]
  <2>1. AreRowsOf(RowsOf(order, from, req.size), order, from, req.size)
    BY <1>2, <1>3, <1>5, Slices
  <2>2. items = RowsOf(order, from, req.size)
    BY <1>4, <1>5 DEF RowsOf
  <2>3. QED
    BY <1>5, <2>1, <2>2 DEF AreRowsOf
<1>7. \A i \in 1..Len(items) : items[i] = from + i
  <2>1. \A i \in 1..Len(items) : from + i \in 1..rows
    <3>1. req.size \in Nat /\ rows \in Nat /\ from \in Nat
      BY <1>1, <1>2, <1>3
    <3>2. Len(items) = Greater(0, Lesser(from + req.size, rows) - from)
      BY <1>6
    <3>3. QED
      BY <3>1, <3>2, StaysWithin
  <2>2. QED
    BY <1>5, <1>6, <2>1 DEF First
<1>8. PICK p \in PageState : p = page'
  BY <1>2, <1>4, <1>6 DEF PageState
<1>9. /\ p.items = items /\ p.total = req.total /\ p.number = req.number
      /\ p.size = req.size
  BY <1>4, <1>8
<1>10. /\ Announced(p) = Greater(0, Lesser(from + req.size, req.total) - from)
       /\ req.total > 0 => StartIndex(p) = from + 1
  BY <1>3, <1>9, AnnouncedAre DEF from
<1> DEFINE gap == Announced(p) - Len(p.items)
           drift == req.total - rows
<1>11. Greater(gap, -gap) <= Greater(drift, -drift)
  BY <1>1, <1>2, <1>3, <1>6, <1>9, <1>10, Drift
<1>12. drift = 0 /\ rows > 0 => \A i \in 1..Len(p.items) : p.items[i] = StartIndex(p) + i - 1
  BY <1>1, <1>2, <1>3, <1>7, <1>9, <1>10
<1>13. QED
  BY <1>8, <1>11, <1>12

(* pagination.py:46-55, admin_views.py:48-54.  "start-end of total" is off by no more rows
   than came or went between counting and reading; if none did it names the very rows
   below it. *)
THEOREM IndexLine == ASSUME TieBroken PROVE Spec => IndexesTell
<1> DEFINE Told ==
      Slice =>
        LET gap == Announced(page') - Len(page'.items)
            drift == req.total - rows
        IN  /\ Greater(gap, -gap) <= Greater(drift, -drift)
            /\ drift = 0 /\ page'.number <= NumPages(page') /\ rows > 0
                 => \A i \in 1..Len(page'.items) :
                       page'.items[i] = StartIndex(page') + i - 1
<1>1. IInv /\ [Next]_vars => [Told]_vars
  BY SliceTells
<1>2. QED
  BY <1>1, Invariant, PTL DEF Spec, IndexesTell
=============================================================================
