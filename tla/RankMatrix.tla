----------------------------- MODULE RankMatrix -----------------------------
(***************************************************************************)
(* The ranking matrix of one ASIN: project_ranks of projects/views.py,     *)
(* common/dates.py, rankings/repositories.py and selectors.py,             *)
(* common/heatmap.py.                                                      *)
(*                                                                         *)
(* A request resolves a window of days, pulls it back to the newest        *)
(* observation (cached for CACHE_TTL_LONG), lists one page of keywords,    *)
(* fetches their ranks in the window, folds them into one cell per keyword *)
(* and bucket, in whatever order they come, and asks on which days         *)
(* anything was checked.  The warehouse goes on importing in between.      *)
(*                                                                         *)
(* A day is an integer, 0 a Monday.  Left out: labels, sales figures, the  *)
(* overview under the matrix and its charts.                               *)
(***************************************************************************)
EXTENDS Integers, FiniteSets

CONSTANTS
  Keywords,          \* of the ASIN
  MonthStarts,       \* the first days of months
  Today,
  ObservedDays,      \* bound: the days on which ranks are imported
  Ranks,             \* bound: the organic ranks imported, 0 for none
  MaxRows,           \* bound: observations in the warehouse
  Presets,           \* bound: what ?range= may hold
  PresetDays,        \* the days of each preset of DATE_RANGE_PRESETS
  DEFAULT_DATE_RANGE,
  CustomRanges,      \* bound: pairs of days that ?start= and ?end= may hold
  MaxSpan,           \* 730 days in the code
  MAX_MATRIX_COLUMNS,
  Intervals,         \* bound: what ?interval= may hold
  NoDates, NoDay, NotCached, NoRank

INTERVALS == {"daily", "weekly", "monthly"}

ASSUME DaysAreIntegers == Today \in Int /\ ObservedDays \subseteq Int /\ MonthStarts \subseteq Int
ASSUME RanksNat == Ranks \subseteq Nat
ASSUME PresetsOK ==
  /\ PresetDays \in [DOMAIN PresetDays -> Nat]
  /\ DEFAULT_DATE_RANGE \in DOMAIN PresetDays /\ PresetDays[DEFAULT_DATE_RANGE] > 0
ASSUME CustomDays == CustomRanges \subseteq Int \X Int
ASSUME SpanNat == MaxSpan \in Nat
ASSUME ColumnsPositive == MAX_MATRIX_COLUMNS \in Nat \ {0}
ASSUME NoDayIsNoDay == NoDay \notin Int
ASSUME NoRankIsNoRank == NoRank \notin Int

VARIABLES
  ranks,    \* the observations in the warehouse
  range,    \* the newest observation as available_range has it cached
  at,       \* how far the request in progress has got
  window,   \* its DateWindow
  asked,    \* the end of that window before it was pulled back
  newest,   \* what available_range answered
  page,     \* the keywords listed
  fetched,  \* the rows matrix_rows fetched
  todo,     \* those it has not folded yet
  grid,     \* the cells so far, by keyword and bucket
  checked   \* the days tracked_dates answered

warehouse == <<ranks, range>>
dates == <<window, asked, newest>>
matrix == <<page, fetched, todo, grid, checked>>
vars == <<warehouse, at, dates, matrix>>

Observation == [kw : Keywords, day : ObservedDays, rank : Ranks, badge : BOOLEAN]

-----------------------------------------------------------------------------
(* DateWindow. *)

Monday(d) == d - (d % 7)
FirstOfMonth(d) == CHOOSE m \in MonthStarts : m <= d /\ \A n \in MonthStarts : n <= d => n <= m

BucketFor(interval, d) ==
  CASE interval = "weekly" -> Monday(d)
    [] interval = "monthly" -> FirstOfMonth(d)
    [] OTHER -> d

AllBuckets(w) == {BucketFor(w.interval, d) : d \in w.start..w.end}

(* Mutant: the oldest columns are kept. *)
Buckets_Oldest(w) ==
  {b \in AllBuckets(w) : Cardinality({c \in AllBuckets(w) : c < b}) < MAX_MATRIX_COLUMNS}

(* buckets: the newest ones, so many. *)
Buckets(w) ==
  {b \in AllBuckets(w) : Cardinality({c \in AllBuckets(w) : c > b}) < MAX_MATRIX_COLUMNS}

(* resolve_window. *)
Resolved(interval, preset, custom) ==
  LET days == IF preset \in DOMAIN PresetDays /\ PresetDays[preset] > 0
                THEN PresetDays[preset] ELSE PresetDays[DEFAULT_DATE_RANGE]
      low == IF custom = NoDates THEN Today - (days - 1)
             ELSE IF custom[1] < custom[2] THEN custom[1] ELSE custom[2]
      high == IF custom = NoDates THEN Today
              ELSE IF custom[1] < custom[2] THEN custom[2] ELSE custom[1]
  IN  [start |-> IF high - low > MaxSpan THEN high - MaxSpan ELSE low, end |-> high,
       interval |-> IF interval \in INTERVALS THEN interval ELSE "daily"]

(* Mutant: the start is pulled back, the end is not. *)
PulledBack_Start(w, known) ==
  IF known # NoDay /\ known < w.end
    THEN [w EXCEPT !.start = known - (w.end - w.start)] ELSE w

(* _clamped_window, once the newest observation is known. *)
PulledBack(w, known) ==
  IF known # NoDay /\ known < w.end
    THEN [w EXCEPT !.start = known - (w.end - w.start), !.end = known] ELSE w

-----------------------------------------------------------------------------
(* The fold of matrix_rows. *)

(* Mutant: any rank replaces the one before. *)
IsBetter_Any(candidate, current) == TRUE

(* _is_better. *)
IsBetter(candidate, current) == candidate > 0 /\ (current <= 0 \/ candidate < current)

Stored(rank) == IF rank > 0 THEN rank ELSE -1

(* Mutant: the badge of the first observation decides. *)
Folded_FirstBadge(cells, key, o) ==
  [k \in DOMAIN cells \cup {key} |->
     IF k # key THEN cells[k]
     ELSE IF key \notin DOMAIN cells THEN [rank |-> Stored(o.rank), badge |-> o.badge]
     ELSE IF IsBetter(Stored(o.rank), cells[key].rank)
       THEN [rank |-> Stored(o.rank), badge |-> cells[key].badge]
     ELSE cells[key]]

(* One observation goes into its cell. *)
Folded(cells, key, o) ==
  [k \in DOMAIN cells \cup {key} |->
     IF k # key THEN cells[k]
     ELSE IF key \notin DOMAIN cells \/ IsBetter(Stored(o.rank), cells[key].rank)
       THEN [rank |-> Stored(o.rank), badge |-> o.badge]
     ELSE [cells[key] EXCEPT !.badge = @ \/ o.badge]]

(* rank_tone; RANK_TONE_STOPS are the worst ranks of the tones but the last. *)
RankToneStops == <<3, 5, 8, 10, 15, 20, 30, 50, 100>>
RankTones == <<"r1", "r2", "r3", "r4", "r5", "r6", "r7", "r8", "r9", "r10">>
RankTone(rank) ==
  IF rank = NoRank THEN "untracked"
  ELSE IF rank = -2 THEN "checking"
  ELSE IF rank <= 0 THEN "unranked"
  ELSE RankTones[1 + Cardinality({i \in 1..9 : rank > RankToneStops[i]})]

BuildCell(rank, badge) ==
  [tone |-> RankTone(rank), rank |-> rank,
   badge |-> badge /\ RankTone(rank) \notin {"untracked", "unranked", "checking"}]

-----------------------------------------------------------------------------
(* The request. *)

NoWindow == [start |-> Today, end |-> Today, interval |-> "daily"]

Init ==
  /\ ranks = {} /\ range = NotCached
  /\ at = "idle"
  /\ window = NoWindow /\ asked = Today /\ newest = NoDay
  /\ page = {} /\ fetched = {} /\ todo = {} /\ grid = <<>> /\ checked = {}

InWindow(o) == o.day \in window.start..window.end

Newest ==
  LET days == {o.day : o \in ranks}
  IN  IF days = {} THEN NoDay ELSE CHOOSE d \in days : \A e \in days : e <= d

Resolve(interval, preset, custom) ==
  /\ at = "idle" /\ at' = "resolved"
  /\ window' = Resolved(interval, preset, custom)
  /\ asked' = window'.end
  /\ UNCHANGED <<warehouse, newest, matrix>>

(* available_range, from the cache or from the warehouse, then _clamped_window. *)
Clamp ==
  /\ at = "resolved" /\ at' = "clamped"
  /\ newest' = IF range = NotCached THEN Newest ELSE range
  /\ range' = newest'
  /\ window' = PulledBack(window, newest')
  /\ UNCHANGED <<ranks, asked, matrix>>

(* _keyword_page; an empty page needs no ranks. *)
ListKeywords(keywords) ==
  /\ at = "clamped"
  /\ at' = IF keywords = {} THEN "built" ELSE "listed"
  /\ page' = keywords
  /\ UNCHANGED <<warehouse, dates, fetched, todo, grid, checked>>

FetchRanks ==
  /\ at = "listed" /\ at' = "folding"
  /\ fetched' = {o \in ranks : o.kw \in page /\ InWindow(o)}
  /\ todo' = fetched'
  /\ UNCHANGED <<warehouse, dates, page, grid, checked>>

FoldRow(o) ==
  /\ at = "folding" /\ o \in todo
  /\ todo' = todo \ {o}
  /\ grid' = Folded(grid, <<o.kw, BucketFor(window.interval, o.day)>>, o)
  /\ UNCHANGED <<warehouse, at, dates, page, fetched, checked>>

(* tracked_dates, after which build_matrix reads nothing more. *)
FetchChecked ==
  /\ at = "folding" /\ todo = {} /\ at' = "built"
  /\ checked' = {o.day : o \in {x \in ranks : InWindow(x)}}
  /\ UNCHANGED <<warehouse, dates, page, fetched, todo, grid>>

(* The page is rendered, or the warehouse failed and an error page is. *)
Finish ==
  /\ at # "idle" /\ at' = "idle"
  /\ window' = NoWindow /\ asked' = Today /\ newest' = NoDay
  /\ page' = {} /\ fetched' = {} /\ todo' = {} /\ grid' = <<>> /\ checked' = {}
  /\ UNCHANGED warehouse

Import(o) ==
  /\ o \notin ranks /\ Cardinality(ranks) < MaxRows
  /\ ranks' = ranks \cup {o}
  /\ UNCHANGED <<range, at, dates, matrix>>

Expire ==
  /\ range' = NotCached
  /\ UNCHANGED <<ranks, at, dates, matrix>>

Next ==
  \/ \E i \in Intervals, p \in Presets, c \in CustomRanges \cup {NoDates} : Resolve(i, p, c)
  \/ Clamp
  \/ \E keywords \in SUBSET Keywords : ListKeywords(keywords)
  \/ FetchRanks
  \/ \E o \in todo : FoldRow(o)
  \/ FetchChecked
  \/ Finish
  \/ \E o \in Observation : Import(o)
  \/ Expire

Spec == Init /\ [][Next]_vars

-----------------------------------------------------------------------------
(* The matrix that build_matrix returns. *)

(* Mutant: the checked days are compared as they are. *)
CheckedBuckets_Days == checked

CheckedBuckets == {BucketFor(window.interval, d) : d \in checked}

Cell(kw, column) ==
  IF <<kw, column>> \in DOMAIN grid
    THEN BuildCell(grid[<<kw, column>>].rank, grid[<<kw, column>>].badge)
    ELSE BuildCell(IF column \in CheckedBuckets THEN -1 ELSE NoRank, FALSE)

Built == at = "built" /\ page # {}

(* What was fetched for a cell. *)
Seen(kw, column) ==
  {o \in fetched : o.kw = kw /\ BucketFor(window.interval, o.day) = column}

(* repositories.py:61: "the best (lowest positive) rank wins", in whatever order the
   rows come, and a cell without a rank says so. *)
BestRankWins ==
  Built => \A kw \in page, column \in Buckets(window) :
    LET ranked == {o.rank : o \in Seen(kw, column)} \ {0}
        cell == Cell(kw, column)
    IN  IF ranked = {} THEN cell.tone \in {"unranked", "untracked"}
        ELSE cell.rank \in ranked /\ \A r \in ranked : cell.rank <= r

(* selectors.py:80-82: a column that was checked "means not ranked", one that never
   was "means not tracked", also while observations arrive between the queries. *)
MissingToldApart ==
  Built => \A kw \in page, column \in Buckets(window) :
    Cell(kw, column).tone = "untracked"
      <=> \A d \in checked : BucketFor(window.interval, d) # column

(* heatmap.py:104.  The badge is shown when one of the best observations of the cell
   held it, and never when no observation did or none is ranked. *)
BadgeOfTheBest ==
  Built => \A kw \in page, column \in Buckets(window) :
    LET cell == Cell(kw, column)
        best == {o \in Seen(kw, column) : o.rank > 0 /\ o.rank = cell.rank}
    IN  /\ (\E o \in best : o.badge) => cell.badge
        /\ cell.badge => best # {} /\ \E o \in Seen(kw, column) : o.badge

(* dates.py:71-95.  Every observation that was fetched belongs to a column, unless
   it is older than as many columns as there may be. *)
ColumnsCover ==
  Built => \A o \in fetched :
    LET bucket == BucketFor(window.interval, o.day)
    IN  \/ bucket \in Buckets(window)
        \/ Cardinality({c \in Buckets(window) : c > bucket}) = MAX_MATRIX_COLUMNS

(* views.py:50-61: pulled back, or "the right-most matrix columns render empty": when
   the window was asked to reach the newest known observation, its newest column
   was checked, however old the cached range is. *)
NewestColumnChecked ==
  Built /\ newest # NoDay /\ newest <= asked =>
    \E column \in CheckedBuckets : \A c \in Buckets(window) : c <= column
=============================================================================
