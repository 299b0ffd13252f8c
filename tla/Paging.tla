------------------------------- MODULE Paging -------------------------------
(***************************************************************************)
(* A browser paging through a list: apps/common/pagination.py, the list    *)
(* views that use it, and the links of templates/partials/pagination.html. *)
(*                                                                         *)
(* A view counts the rows that match and then reads one slice of them; the *)
(* list may change between the two, and between two pages.  Rows are       *)
(* numbered by their place in the order the view asks for.                 *)
(*                                                                         *)
(* Left out: searches and filters, which only decide what the list is.     *)
(***************************************************************************)
EXTENDS Integers, Sequences, SequencesExt

CONSTANTS
  MaxRows,            \* bound: rows the list ever has
  RawNumbers,         \* bound: what ?page= may hold
  RawSizes,           \* bound: what ?size= may hold
  Malformed,          \* a parameter that int() refuses
  DEFAULT_PAGE_SIZE, MAX_PAGE_SIZE,
  PAGE_SIZE_CHOICES,  \* what the selector offers
  Key,                \* Key[i]: the sort key of row i
  TieBroken,          \* order_by ends in a unique column
  Gap, NoPage, NoWalk

ASSUME MaxRowsNat == MaxRows \in Nat
ASSUME SizesPositive ==
  /\ DEFAULT_PAGE_SIZE \in 1..MAX_PAGE_SIZE
  /\ PAGE_SIZE_CHOICES \subseteq 1..MAX_PAGE_SIZE
ASSUME KeyOrdered == \A i, j \in 1..MaxRows : i < j => Key[i] <= Key[j]
ASSUME ParametersKnown ==
  /\ RawNumbers \subseteq Int \cup {Malformed} /\ RawSizes \subseteq Int \cup {Malformed}
  /\ MAX_PAGE_SIZE \in Nat
ASSUME GapIsNoNumber == Gap \notin Int

VARIABLES
  rows,  \* the number of rows that match
  req,   \* the request in progress
  page,  \* the Page the browser shows
  walk   \* history: the rows shown since page one by following "next"

vars == <<rows, req, page, walk>>

-----------------------------------------------------------------------------
(* Page and parse_page_request. *)

Lesser(a, b) == IF a < b THEN a ELSE b
Greater(a, b) == IF a > b THEN a ELSE b

(* num_pages: the ceiling, written with Python's floor division. *)
NumPages(p) == Greater(1, -((-p.total) \div p.size))

HasNext(p) == p.number < NumPages(p)
HasPrevious(p) == p.number > 1
NextNumber(p) == Lesser(NumPages(p), p.number + 1)
PreviousNumber(p) == Greater(1, p.number - 1)

StartIndex(p) == IF p.total = 0 THEN 0 ELSE (p.number - 1) * p.size + 1
EndIndex(p) == Lesser(p.number * p.size, p.total)

(* Mutant: the first page counts as page nought. *)
Offset_FromZero(number, size) == number * size

Offset(number, size) == (number - 1) * size

Numbers(from, to) == [i \in 1..(to - from + 1) |-> from + i - 1]

(* Mutant: a gap is always drawn after the first page. *)
PageRange_Gaps(p) ==
  LET last == NumPages(p)
      from == Greater(2, p.number - 1)
      to == Lesser(last - 1, p.number + 1)
  IN  IF last <= 7 THEN Numbers(1, last)
      ELSE <<1, Gap>> \o (IF to < from THEN <<>> ELSE Numbers(from, to))
           \o (IF to < last - 1 THEN <<Gap>> ELSE <<>>) \o <<last>>

(* page_range: the first, the last and the neighbours, gaps between them. *)
PageRange(p) ==
  LET last == NumPages(p)
      from == Greater(2, p.number - 1)
      to == Lesser(last - 1, p.number + 1)
  IN  IF last <= 7 THEN Numbers(1, last)
      ELSE <<1>> \o (IF from > 2 THEN <<Gap>> ELSE <<>>)
           \o (IF to < from THEN <<>> ELSE Numbers(from, to))
           \o (IF to < last - 1 THEN <<Gap>> ELSE <<>>) \o <<last>>

ParseNumber(raw) == IF raw = Malformed THEN 1 ELSE Greater(1, raw)
ParseSize(raw) ==
  IF raw = Malformed THEN DEFAULT_PAGE_SIZE ELSE Greater(1, Lesser(raw, MAX_PAGE_SIZE))

-----------------------------------------------------------------------------
(* Mutant: order_by on the key alone. *)
Orders_Ties(n) ==
  {[i \in 1..n |-> i]} \cup
  {[i \in 1..n |-> IF i = k THEN k + 1 ELSE IF i = k + 1 THEN k ELSE i] :
      k \in {j \in 1..(n - 1) : Key[j] = Key[j + 1]}}

(* The orders in which the store may return n rows.  Without a unique last column
   rows with equal keys come as they like; here, one pair of neighbours swaps. *)
Orders(n) == IF TieBroken THEN {[i \in 1..n |-> i]} ELSE Orders_Ties(n)

NoRequest == [at |-> "idle", number |-> 1, size |-> DEFAULT_PAGE_SIZE, total |-> 0,
              next |-> FALSE]

Init ==
  /\ rows \in 0..MaxRows
  /\ req = NoRequest
  /\ page = NoPage
  /\ walk = NoWalk

(* A request for a page; the browser leaves the one it shows. *)
Send(number, size, next) ==
  /\ req.at = "idle"
  /\ req' = [at |-> "asked", number |-> number, size |-> size, total |-> 0, next |-> next]
  /\ page' = NoPage
  /\ UNCHANGED <<rows, walk>>

OpenUrl == \E n \in RawNumbers, s \in RawSizes : Send(ParseNumber(n), ParseSize(s), FALSE)

(* The links exist while the list is not empty. *)
FollowNext ==
  /\ page # NoPage /\ page.total > 0 /\ HasNext(page)
  /\ Send(NextNumber(page), page.size, TRUE)

FollowPrevious ==
  /\ page # NoPage /\ page.total > 0 /\ HasPrevious(page)
  /\ \E n \in {1, PreviousNumber(page)} : Send(n, page.size, FALSE)

FollowNumber ==
  /\ page # NoPage /\ page.total > 0
  /\ \E n \in ToSet(PageRange(page)) \ {Gap, page.number} : Send(n, page.size, FALSE)

ChooseSize ==
  /\ page # NoPage /\ page.total > 0
  /\ \E s \in PAGE_SIZE_CHOICES : Send(1, ParseSize(s), FALSE)

(* queryset.count() *)
Count ==
  /\ req.at = "asked"
  /\ req' = [req EXCEPT !.at = "counted", !.total = rows]
  /\ UNCHANGED <<rows, page, walk>>

(* queryset[offset : offset + limit], then PageRequest.build. *)
Slice ==
  /\ req.at = "counted"
  /\ \E order \in Orders(rows) :
       LET from == Offset(req.number, req.size)
           items == SubSeq(order, from + 1, Lesser(from + req.size, rows))
       IN  /\ page' = [items |-> items, total |-> req.total,
                       number |-> req.number, size |-> req.size]
           /\ walk' = IF req.total # rows THEN NoWalk
                      ELSE IF req.number = 1 THEN items
                      ELSE IF req.next /\ walk # NoWalk THEN walk \o items ELSE NoWalk
  /\ req' = NoRequest
  /\ UNCHANGED rows

(* Somebody adds or removes a row: what the walk has seen no longer counts. *)
Change ==
  /\ rows' \in {rows - 1, rows + 1} \cap 0..MaxRows
  /\ walk' = NoWalk
  /\ UNCHANGED <<req, page>>

Next ==
  \/ OpenUrl \/ FollowNext \/ FollowPrevious \/ FollowNumber \/ ChooseSize
  \/ Count \/ Slice
  \/ Change

Spec == Init /\ [][Next]_vars

-----------------------------------------------------------------------------
Shown == page # NoPage

(* pagination.py:61-79.  Wherever the browser is, even past the end, every numbered
   link leads to a page that has rows, the last row is on the last of them, and a
   gap stands exactly where page numbers are left out. *)
LinksLead ==
  Shown /\ page.total > 0 =>
    LET links == PageRange(page)
        last == Len(links)
    IN  /\ links[1] = 1
        /\ links[last] # Gap /\ page.total <= Offset(links[last], page.size) + page.size
        /\ \A i \in 1..last : links[i] # Gap => Offset(links[i], page.size) < page.total
        /\ \A i \in 2..last :
              IF links[i] = Gap THEN Gap # links[i - 1] /\ links[i - 1] + 1 < links[i + 1]
              ELSE Gap = links[i - 1] \/ links[i - 1] + 1 = links[i]

(* "start-end of total" speaks of so many rows. *)
Announced(p) == IF p.total = 0 THEN 0 ELSE Greater(0, EndIndex(p) - StartIndex(p) + 1)

(* pagination.py:46-55, admin_views.py:48-54.  "start-end of total" is off by no more
   rows than came or went between counting and reading; and on any page up to the last,
   if none did, it names the very rows below it. *)
IndexesTell ==
  [][Slice =>
       LET gap == Announced(page') - Len(page'.items)
           drift == req.total - rows
       IN  /\ Greater(gap, -gap) <= Greater(drift, -drift)
           /\ drift = 0 /\ page'.number <= NumPages(page') /\ rows > 0
                => \A i \in 1..Len(page'.items) : page'.items[i] = StartIndex(page') + i - 1]_vars

(* pagination.py:23-43, selectors.py:45.  Following "next" from the first page of a
   list that stays as it is shows every row exactly once. *)
WalkSeesAll ==
  Shown /\ walk # NoWalk /\ ~HasNext(page) =>
    Len(walk) = rows /\ ToSet(walk) = 1..rows
=============================================================================
