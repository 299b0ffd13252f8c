-------------------------- MODULE RankMatrixProofs --------------------------
(***************************************************************************)
(* What holds of RankMatrix for any calendar, any number of keywords and   *)
(* observations, and any order in which the rows of a query arrive.        *)
(*                                                                         *)
(* A cell holds the best of the observations folded so far (GridBest), the *)
(* grid has a cell for those and no others (GridDomain), and what was      *)
(* fetched is still in the warehouse when the checked days are asked for   *)
(* (Fetched, AllChecked): the import only adds.                            *)
(*                                                                         *)
(* A badge of a best observation is shown, and one that is shown was on an *)
(* observation of the cell (GridBadge).  The columns are followed through  *)
(* the steps that decide them (DInv); that they reach a day needs every    *)
(* day to be in some month (Calendar), as it is in the real calendar.      *)
(***************************************************************************)
EXTENDS RankMatrix, FiniteSetTheorems, WellFoundedInduction, TLAPS

KeyOf(o) == <<o.kw, BucketFor(window.interval, o.day)>>

Done == fetched \ todo

RankedAt(k) == {o \in Done : KeyOf(o) = k /\ o.rank > 0}

Best(rank, ranked) ==
  \/ ranked = {} /\ rank = -1
  \/ (\E o \in ranked : o.rank = rank) /\ \A o \in ranked : rank <= o.rank

Types == ranks \subseteq Observation /\ fetched \subseteq ranks /\ todo \subseteq fetched

Fresh == at \notin {"folding", "built"} => fetched = {} /\ todo = {} /\ DOMAIN grid = {}

Fetched == \A o \in fetched : InWindow(o)

GridDomain == DOMAIN grid = {KeyOf(o) : o \in Done}

GridBest == \A k \in DOMAIN grid : Best(grid[k].rank, RankedAt(k))

GridCells == \A k \in DOMAIN grid : grid[k] \in [rank : Int, badge : BOOLEAN]

(* The best observations decide about the badge, and somebody held it. *)
GridBadge == \A k \in DOMAIN grid :
  /\ \A o \in RankedAt(k) : o.rank = grid[k].rank /\ o.badge => grid[k].badge
  /\ grid[k].badge => \E o \in Done : KeyOf(o) = k /\ o.badge

AllFolded == at = "built" => todo = {}

AllChecked == at = "built" => \A o \in fetched : o.day \in checked

IInv ==
  /\ Types
  /\ Fresh
  /\ Fetched
  /\ GridDomain
  /\ GridCells
  /\ GridBest
  /\ GridBadge
  /\ AllFolded
  /\ AllChecked

-----------------------------------------------------------------------------
LEMMA StoredRank ==
  ASSUME NEW r \in Nat
  PROVE  Stored(r) \in Int /\ (r > 0 => Stored(r) = r) /\ (r = 0 => Stored(r) = -1)
BY DEF Stored

(* The nine stops of the tone scale are finitely many. *)
LEMMA NineStops == IsFiniteSet(1..9) /\ Cardinality(1..9) = 9
<1>1. 1 \in Int /\ 9 \in Int
  OBVIOUS
<1>2. IsFiniteSet(1..9) /\ Cardinality(1..9) = IF 1 > 9 THEN 0 ELSE 9 - 1 + 1
  BY <1>1, FS_Interval, Zenon
<1>3. QED
  BY <1>2

(* Every tone of a ranked cell is one of the ten, hence none of the other names. *)
LEMMA ToneOfRank ==
  ASSUME NEW r \in Int
  PROVE  /\ RankTone(r) # "untracked"
         /\ r = -1 => RankTone(r) = "unranked"
         /\ r > 0 => RankTone(r) \notin {"untracked", "unranked", "checking"}
<1> DEFINE worse == {i \in 1..9 : r > RankToneStops[i]}
<1>1. Cardinality(worse) \in 0..9
  <2>1. IsFiniteSet(1..9) /\ Cardinality(1..9) = 9
    BY NineStops
  <2>2. worse \in SUBSET (1..9)
    OBVIOUS
  <2> HIDE DEF worse
  <2>3. IsFiniteSet(worse) /\ Cardinality(worse) <= Cardinality(1..9)
    BY <2>1, <2>2, FS_Subset
  <2>4. Cardinality(worse) \in Nat
    BY <2>3, FS_CardinalityType
  <2>5. QED
    BY <2>1, <2>3, <2>4
<1>2. r # NoRank
  BY NoRankIsNoRank
<1>3. CASE r <= 0
  BY <1>2, <1>3 DEF RankTone
<1>4. CASE r > 0
  <2> HIDE DEF worse
  <2>1. RankTone(r) = RankTones[1 + Cardinality(worse)]
    BY <1>2, <1>4 DEF RankTone, worse
  <2>2. \A n \in 1..10 : RankTones[n] \notin {"untracked", "unranked", "checking"}
    BY DEF RankTones
  <2>3. QED
    BY <1>1, <1>4, <2>1, <2>2
<1>5. QED
  BY <1>3, <1>4

LEMMA ToneOfMissing == RankTone(NoRank) = "untracked" /\ RankTone(-1) = "unranked"
<1>1. RankTone(NoRank) = "untracked"
  BY DEF RankTone
<1>2. RankTone(-1) = "unranked"
  <2>1. -1 \in Int
    OBVIOUS
  <2>2. QED
    BY <2>1, ToneOfRank
<1>3. QED
  BY <1>1, <1>2

LEMMA FoldKeepsCells ==
  ASSUME IInv, NEW o \in todo, FoldRow(o)
  PROVE  GridCells'
<1> DEFINE key == KeyOf(o)
<1>1. grid' = Folded(grid, key, o)
  BY DEF FoldRow, KeyOf
<1>2. Stored(o.rank) \in Int /\ o.badge \in BOOLEAN
  BY RanksNat, StoredRank DEF IInv, Types, Observation
<1> HIDE DEF key
<1>3. DOMAIN grid' = DOMAIN grid \cup {key}
  BY <1>1 DEF Folded
<1>4. ASSUME NEW k \in DOMAIN grid' PROVE grid'[k] \in [rank : Int, badge : BOOLEAN]
  <2>1. CASE k # key
    BY <1>1, <1>3, <2>1 DEF Folded, IInv, GridCells
  <2>2. CASE k = key /\ (key \notin DOMAIN grid \/ IsBetter(Stored(o.rank), grid[key].rank))
    <3>1. grid'[k] = [rank |-> Stored(o.rank), badge |-> o.badge]
      BY <1>1, <1>3, <2>2 DEF Folded
    <3>2. QED
      BY <1>2, <3>1
  <2>3. CASE k = key /\ key \in DOMAIN grid /\ ~IsBetter(Stored(o.rank), grid[key].rank)
    <3>1. grid'[k] = [grid[key] EXCEPT !.badge = grid[key].badge \/ o.badge]
      BY <1>1, <1>3, <2>3 DEF Folded
    <3>2. grid[key] \in [rank : Int, badge : BOOLEAN]
      BY <2>3 DEF IInv, GridCells
    <3>3. QED
      BY <3>1, <3>2
  <2>4. QED
    BY <2>1, <2>2, <2>3
<1>5. QED
  BY <1>4 DEF GridCells

(* Folding one more observation keeps every cell the best of what it has seen. *)
LEMMA FoldKeepsBest ==
  ASSUME IInv, NEW o \in todo, FoldRow(o)
  PROVE  GridDomain' /\ GridBest'
<1> DEFINE key == KeyOf(o)
<1>1. /\ todo' = todo \ {o} /\ UNCHANGED <<fetched, window>>
      /\ grid' = Folded(grid, key, o)
  BY DEF FoldRow, dates, KeyOf
<1>2. Done' = Done \cup {o} /\ o \notin Done
  BY <1>1 DEF Done, IInv, Types
<1>3. \A x : KeyOf(x)' = KeyOf(x)
  BY <1>1 DEF KeyOf
<1>4. o.rank \in Nat /\ \A x \in Done : x.rank \in Nat
  BY RanksNat DEF IInv, Types, Observation, Done
<1> HIDE DEF key
<1>5. DOMAIN grid' = DOMAIN grid \cup {key}
  BY <1>1 DEF Folded
<1>6. GridDomain'
  BY <1>2, <1>3, <1>5 DEF IInv, GridDomain, key
<1>7. ASSUME NEW k \in DOMAIN grid' PROVE Best(grid'[k].rank, RankedAt(k)')
  <2>1. CASE k # key
    <3>1. grid'[k] = grid[k] /\ k \in DOMAIN grid
      BY <1>1, <1>5, <2>1 DEF Folded
    <3>2. RankedAt(k)' = RankedAt(k)
      BY <1>2, <1>3, <2>1 DEF RankedAt, key
    <3>3. QED
      BY <3>1, <3>2 DEF IInv, GridBest
  <2>2. CASE k = key /\ key \notin DOMAIN grid
    <3>1. grid'[k].rank = Stored(o.rank)
      BY <1>1, <2>2 DEF Folded
    <3>2. RankedAt(k) = {}
      BY <2>2 DEF IInv, GridDomain, RankedAt
    <3>3. RankedAt(k)' = IF o.rank > 0 THEN {o} ELSE {}
      BY <1>2, <1>3, <2>2, <3>2 DEF RankedAt, key
    <3>4. QED
      BY <1>4, <3>1, <3>3, StoredRank DEF Best
  <2>3. CASE k = key /\ key \in DOMAIN grid
    <3>1. Best(grid[k].rank, RankedAt(k))
      BY <2>3 DEF IInv, GridBest
    <3>2. RankedAt(k)' = RankedAt(k) \cup (IF o.rank > 0 THEN {o} ELSE {})
      BY <1>2, <1>3, <2>3 DEF RankedAt, key
    <3>3. grid'[k].rank = IF IsBetter(Stored(o.rank), grid[k].rank)
                            THEN Stored(o.rank) ELSE grid[k].rank
      BY <1>1, <2>3 DEF Folded
    <3>4. \A x \in RankedAt(k) : x.rank \in Nat /\ x.rank > 0
      BY <1>4 DEF RankedAt
    <3>5. grid[k].rank \in Int
      BY <3>1, <3>4 DEF Best
    <3>6. QED
      BY <1>4, <3>1, <3>2, <3>3, <3>4, <3>5, StoredRank DEF Best, IsBetter
  <2>4. QED
    BY <2>1, <2>2, <2>3
<1>8. QED
  BY <1>6, <1>7 DEF GridBest

(* A better observation brings its own badge, any other can only add one. *)
LEMMA FoldKeepsBadge ==
  ASSUME IInv, NEW o \in todo, FoldRow(o)
  PROVE  GridBadge'
<1> DEFINE key == KeyOf(o)
<1>1. /\ todo' = todo \ {o} /\ UNCHANGED <<fetched, window>>
      /\ grid' = Folded(grid, key, o)
  BY DEF FoldRow, dates, KeyOf
<1>2. Done' = Done \cup {o} /\ o \notin Done
  BY <1>1 DEF Done, IInv, Types
<1>3. \A x : KeyOf(x)' = KeyOf(x)
  BY <1>1 DEF KeyOf
<1>4. o.rank \in Nat /\ \A x \in Done : x.rank \in Nat
  BY RanksNat DEF IInv, Types, Observation, Done
<1>5. \A k : RankedAt(k)' \subseteq RankedAt(k) \cup {o}
  BY <1>2, <1>3 DEF RankedAt
<1>k. KeyOf(o) = key
  OBVIOUS
<1> HIDE DEF key
<1>6. DOMAIN grid' = DOMAIN grid \cup {key}
  BY <1>1 DEF Folded
<1>7. ASSUME NEW k \in DOMAIN grid'
      PROVE  /\ \A x \in RankedAt(k)' : x.rank = grid'[k].rank /\ x.badge => grid'[k].badge
             /\ grid'[k].badge => \E x \in Done' : KeyOf(x) = k /\ x.badge
  <2>1. CASE k # key
    <3>1. grid'[k] = grid[k] /\ k \in DOMAIN grid
      BY <1>1, <1>6, <2>1 DEF Folded
    <3>2. RankedAt(k)' = RankedAt(k)
      BY <1>2, <1>3, <1>k, <2>1 DEF RankedAt
    <3>3. QED
      BY <1>2, <3>1, <3>2 DEF IInv, GridBadge
  <2>2. CASE k = key /\ (key \notin DOMAIN grid \/ IsBetter(Stored(o.rank), grid[key].rank))
    <3>1. grid'[k] = [rank |-> Stored(o.rank), badge |-> o.badge]
      BY <1>1, <1>6, <2>2 DEF Folded
    <3>2. grid'[k].rank = Stored(o.rank) /\ (grid'[k].badge <=> o.badge)
      BY <3>1
    <3>3. \A x \in RankedAt(k) : x.rank > 0 /\ x.rank \in Nat /\ x.rank # Stored(o.rank)
      <4>1. CASE key \notin DOMAIN grid
        BY <2>2, <4>1 DEF IInv, GridDomain, RankedAt
      <4>2. CASE key \in DOMAIN grid /\ IsBetter(Stored(o.rank), grid[key].rank)
        <5>1. Best(grid[key].rank, RankedAt(key))
          BY <4>2 DEF IInv, GridBest
        <5>2. \A x \in RankedAt(key) : x.rank > 0 /\ x.rank \in Nat
          BY <1>4 DEF RankedAt
        <5>3. QED
          BY <2>2, <4>2, <5>1, <5>2, <1>4, StoredRank DEF Best, IsBetter
      <4>3. QED
        BY <2>2, <4>1, <4>2
    <3>4. ASSUME NEW x \in RankedAt(k)', x.rank = grid'[k].rank, x.badge PROVE grid'[k].badge
      <4>1. x = o
        BY <1>5, <2>2, <3>2, <3>3, <3>4
      <4>2. QED
        BY <3>2, <3>4, <4>1
    <3>5. o \in Done' /\ KeyOf(o) = k
      BY <1>2, <1>k, <2>2
    <3>6. QED
      BY <3>2, <3>4, <3>5
  <2>3. CASE k = key /\ key \in DOMAIN grid /\ ~IsBetter(Stored(o.rank), grid[key].rank)
    <3>1. grid'[k] = [grid[key] EXCEPT !.badge = grid[key].badge \/ o.badge]
      BY <1>1, <1>6, <2>3 DEF Folded
    <3>2. grid[key] \in [rank : Int, badge : BOOLEAN]
      BY <2>3 DEF IInv, GridCells
    <3>3. grid'[k].rank = grid[k].rank /\ (grid'[k].badge <=> grid[k].badge \/ o.badge)
      BY <3>1, <3>2, <2>3
    <3>4. /\ \A x \in RankedAt(k) : x.rank = grid[k].rank /\ x.badge => grid[k].badge
          /\ grid[k].badge => \E x \in Done : KeyOf(x) = k /\ x.badge
      BY <2>3 DEF IInv, GridBadge
    <3>5. ASSUME NEW x \in RankedAt(k)', x.rank = grid'[k].rank, x.badge PROVE grid'[k].badge
      <4>1. x = o \/ x \in RankedAt(k)
        BY <1>5, <2>3, <3>5
      <4>2. QED
        BY <3>3, <3>4, <3>5, <4>1
    <3>6. ASSUME grid'[k].badge PROVE \E x \in Done' : KeyOf(x) = k /\ x.badge
      BY <1>2, <1>k, <2>3, <3>3, <3>4, <3>6
    <3>7. QED
      BY <3>5, <3>6
  <2>4. QED
    BY <2>1, <2>2, <2>3
<1>8. QED
  BY <1>3, <1>7 DEF GridBadge

-----------------------------------------------------------------------------
LEMMA IInvInit == Init => IInv
BY DEF Init, IInv, Types, Fresh, Fetched, GridDomain, GridCells, GridBest, GridBadge, Done,
       AllFolded, AllChecked

(* Before the ranks are fetched, and after the page is rendered, nothing is there. *)
LEMMA EmptyStep ==
  ASSUME ranks' \subseteq Observation, at' # "folding", at' = "built" => todo' = {},
         fetched' = {}, todo' = {}, DOMAIN grid' = {}
  PROVE  IInv'
BY DEF IInv, Types, Fresh, Fetched, GridDomain, GridCells, GridBest, GridBadge, Done, AllFolded,
       AllChecked

(* What was folded stays as it is while nothing is folded. *)
LEMMA GridStays ==
  ASSUME IInv, UNCHANGED <<fetched, todo, window, grid>>
  PROVE  GridDomain' /\ GridCells' /\ GridBest' /\ GridBadge'
<1>1. Done' = Done /\ \A o : KeyOf(o)' = KeyOf(o)
  BY DEF Done, KeyOf
<1>2. \A k : RankedAt(k)' = RankedAt(k)
  BY <1>1 DEF RankedAt
<1>3. QED
  BY <1>1, <1>2 DEF IInv, GridDomain, GridCells, GridBest, GridBadge

LEMMA IInvStep == IInv /\ [Next]_vars => IInv'
<1> SUFFICES ASSUME IInv, [Next]_vars PROVE IInv'
  OBVIOUS
<1> USE DEF IInv
<1>1. ASSUME NEW i \in Intervals, NEW p \in Presets, NEW c \in CustomRanges \cup {NoDates},
             Resolve(i, p, c)
      PROVE  IInv'
  BY <1>1, EmptyStep DEF Resolve, warehouse, matrix, Types, Fresh
<1>2. CASE Clamp
  BY <1>2, EmptyStep DEF Clamp, matrix, Types, Fresh
<1>3. ASSUME NEW keywords \in SUBSET Keywords, ListKeywords(keywords)
      PROVE  IInv'
  BY <1>3, EmptyStep DEF ListKeywords, warehouse, Types, Fresh
<1>4. CASE FetchRanks
  <2>1. /\ at' = "folding" /\ UNCHANGED <<ranks, window, grid>> /\ DOMAIN grid = {}
        /\ fetched' = {o \in ranks : o.kw \in page /\ InWindow(o)} /\ todo' = fetched'
    BY <1>4 DEF FetchRanks, warehouse, dates, Fresh
  <2>2. Types' /\ Fetched' /\ Done' = {}
    BY <2>1 DEF Types, Fetched, InWindow, Done
  <2>3. QED
    BY <2>1, <2>2 DEF Fresh, GridDomain, GridCells, GridBest, GridBadge, AllFolded, AllChecked
<1>5. ASSUME NEW o \in todo, FoldRow(o)
      PROVE  IInv'
  <2>1. GridDomain' /\ GridCells' /\ GridBest' /\ GridBadge'
    BY <1>5, FoldKeepsCells, FoldKeepsBest, FoldKeepsBadge
  <2>2. /\ UNCHANGED <<ranks, fetched, window, at>> /\ at = "folding" /\ todo' = todo \ {o}
    BY <1>5 DEF FoldRow, warehouse, dates
  <2>3. QED
    BY <2>1, <2>2 DEF Types, Fresh, Fetched, InWindow, AllFolded, AllChecked
<1>6. CASE FetchChecked
  <2>1. /\ UNCHANGED <<ranks, fetched, todo, window, grid>> /\ todo = {} /\ at' = "built"
        /\ checked' = {o.day : o \in {x \in ranks : InWindow(x)}}
    BY <1>6 DEF FetchChecked, warehouse, dates
  <2>2. AllChecked'
    BY <2>1 DEF AllChecked, Fetched, Types
  <2>3. GridDomain' /\ GridCells' /\ GridBest' /\ GridBadge'
    BY <2>1, GridStays
  <2>4. QED
    BY <2>1, <2>2, <2>3 DEF Types, Fresh, Fetched, InWindow, AllFolded
<1>7. CASE Finish
  BY <1>7, EmptyStep DEF Finish, warehouse, Types
<1>8. ASSUME NEW o \in Observation, Import(o)
      PROVE  IInv'
  <2>1. ranks' = ranks \cup {o} /\ UNCHANGED <<fetched, todo, window, grid, at, checked>>
    BY <1>8 DEF Import, dates, matrix
  <2>2. GridDomain' /\ GridCells' /\ GridBest' /\ GridBadge'
    BY <2>1, GridStays
  <2>3. QED
    BY <2>1, <2>2 DEF Types, Fresh, Fetched, InWindow, AllFolded, AllChecked
<1>9. CASE Expire \/ UNCHANGED vars
  <2>1. UNCHANGED <<ranks, fetched, todo, window, grid, at, checked>>
    BY <1>9 DEF Expire, vars, warehouse, dates, matrix
  <2>2. GridDomain' /\ GridCells' /\ GridBest' /\ GridBadge'
    BY <2>1, GridStays
  <2>3. QED
    BY <2>1, <2>2 DEF Types, Fresh, Fetched, InWindow, AllFolded, AllChecked
<1>10. QED
  BY <1>1, <1>2, <1>3, <1>4, <1>5, <1>6, <1>7, <1>8, <1>9 DEF Next

-----------------------------------------------------------------------------
(* repositories.py:50-66.  The invariant holds for every calendar and order of rows. *)
THEOREM Invariant == Spec => []IInv
BY IInvInit, IInvStep, PTL DEF Spec

(* repositories.py:61.  The lowest positive rank of a bucket wins, whatever the order
   in which its rows arrive. *)
THEOREM BestRank == Spec => []BestRankWins
<1>1. ASSUME IInv, Built, NEW kw \in page, NEW column \in Buckets(window)
      PROVE  LET ranked == {o.rank : o \in Seen(kw, column)} \ {0}
                 cell == Cell(kw, column)
             IN  IF ranked = {} THEN cell.tone \in {"unranked", "untracked"}
                 ELSE cell.rank \in ranked /\ \A r \in ranked : cell.rank <= r
  <2> DEFINE k == <<kw, column>>
             ranked == {o.rank : o \in Seen(kw, column)} \ {0}
  <2>1. Done = fetched
    BY <1>1 DEF IInv, AllFolded, Built, Done
  <2>2. Seen(kw, column) = {o \in fetched : KeyOf(o) = k}
    BY DEF Seen, KeyOf
  <2>3. \A o \in fetched : o.rank \in Nat
    BY <1>1, RanksNat DEF IInv, Types, Observation
  <2>4. ranked = {o.rank : o \in RankedAt(k)}
    BY <2>1, <2>2, <2>3 DEF RankedAt
  <2>5. CASE k \in DOMAIN grid
    <3>1. Best(grid[k].rank, RankedAt(k))
      BY <1>1, <2>5 DEF IInv, GridBest
    <3>2. /\ Cell(kw, column).rank = grid[k].rank
          /\ Cell(kw, column).tone = RankTone(grid[k].rank)
      BY <2>5 DEF Cell, BuildCell
    <3>3. CASE RankedAt(k) = {}
      <4>1. grid[k].rank = -1 /\ ranked = {}
        BY <3>1, <3>3, <2>4 DEF Best
      <4>2. QED
        BY <3>2, <4>1, ToneOfRank
    <3>4. CASE RankedAt(k) # {}
      BY <2>4, <3>1, <3>2, <3>4 DEF Best
    <3>5. QED
      BY <3>3, <3>4
  <2>6. CASE k \notin DOMAIN grid
    <3>1. ranked = {}
      BY <1>1, <2>1, <2>2, <2>6 DEF IInv, GridDomain
    <3>2. Cell(kw, column).tone \in {RankTone(-1), RankTone(NoRank)}
      BY <2>6 DEF Cell, BuildCell
    <3>3. RankTone(NoRank) = "untracked" /\ RankTone(-1) = "unranked"
      BY ToneOfMissing
    <3>4. QED
      BY <3>1, <3>2, <3>3
  <2>7. QED
    BY <2>5, <2>6
<1>2. IInv => BestRankWins
  BY <1>1 DEF BestRankWins
<1>3. QED
  BY <1>2, Invariant, PTL

(* selectors.py:80-82.  "Not tracked" is said of exactly the columns in which nothing
   was checked, although the rows and the checked days are separate queries. *)
THEOREM ToldApart == Spec => []MissingToldApart
<1>1. ASSUME IInv, Built, NEW kw \in page, NEW column \in Buckets(window)
      PROVE  Cell(kw, column).tone = "untracked"
               <=> \A d \in checked : BucketFor(window.interval, d) # column
  <2> DEFINE k == <<kw, column>>
  <2>1. Done = fetched /\ \A o \in fetched : o.day \in checked
    BY <1>1 DEF IInv, AllFolded, AllChecked, Built, Done
  <2>2. CASE k \in DOMAIN grid
    <3>1. PICK o \in fetched : KeyOf(o) = k
      BY <1>1, <2>1, <2>2 DEF IInv, GridDomain
    <3>2. BucketFor(window.interval, o.day) = column /\ o.day \in checked
      BY <2>1, <3>1 DEF KeyOf
    <3>3. \A x \in RankedAt(k) : x.rank \in Nat
      BY <1>1, RanksNat DEF IInv, Types, Observation, RankedAt, Done
    <3>4. grid[k].rank \in Int
      BY <1>1, <2>2, <3>3 DEF IInv, GridBest, Best
    <3>5. Cell(kw, column).tone = RankTone(grid[k].rank)
      BY <2>2 DEF Cell, BuildCell
    <3>6. QED
      BY <3>2, <3>4, <3>5, ToneOfRank
  <2>3. CASE k \notin DOMAIN grid
    <3>1. Cell(kw, column).tone =
            RankTone(IF column \in CheckedBuckets THEN -1 ELSE NoRank)
      BY <2>3 DEF Cell, BuildCell
    <3>2. RankTone(NoRank) = "untracked" /\ RankTone(-1) = "unranked"
      BY ToneOfMissing
    <3>3. QED
      BY <3>1, <3>2 DEF CheckedBuckets
  <2>4. QED
    BY <2>2, <2>3
<1>2. IInv => MissingToldApart
  BY <1>1 DEF MissingToldApart
<1>3. QED
  BY <1>2, Invariant, PTL

(* heatmap.py:104, repositories.py:59-65.  A badge that one of the best observations held
   is shown; one that is shown was held by some observation of the cell, perhaps a worse
   one that came later; and a cell without a rank shows none. *)
THEOREM Badge == Spec => []BadgeOfTheBest
<1>1. ASSUME IInv, Built, NEW kw \in page, NEW column \in Buckets(window)
      PROVE  LET cell == Cell(kw, column)
                 best == {o \in Seen(kw, column) : o.rank > 0 /\ o.rank = cell.rank}
             IN  /\ (\E o \in best : o.badge) => cell.badge
                 /\ cell.badge => best # {} /\ \E o \in Seen(kw, column) : o.badge
  <2> DEFINE k == <<kw, column>>
             cell == Cell(kw, column)
             best == {o \in Seen(kw, column) : o.rank > 0 /\ o.rank = cell.rank}
  <2>1. Done = fetched
    BY <1>1 DEF IInv, AllFolded, Built, Done
  <2>2. Seen(kw, column) = {o \in Done : KeyOf(o) = k}
    BY <2>1 DEF Seen, KeyOf
  <2>3. \A o \in Done : o.rank \in Nat
    BY <1>1, <2>1, RanksNat DEF IInv, Types, Observation
  <2>4. best = {o \in RankedAt(k) : o.rank = cell.rank}
    BY <2>2 DEF RankedAt
  <2>5. CASE k \in DOMAIN grid
    <3>1. /\ cell.rank = grid[k].rank
          /\ cell.badge <=> grid[k].badge /\ RankTone(grid[k].rank)
                                               \notin {"untracked", "unranked", "checking"}
      BY <2>5 DEF Cell, BuildCell
    <3>2. Best(grid[k].rank, RankedAt(k))
      BY <1>1, <2>5 DEF IInv, GridBest
    <3>3. /\ \A o \in RankedAt(k) : o.rank = grid[k].rank /\ o.badge => grid[k].badge
          /\ grid[k].badge => \E o \in Done : KeyOf(o) = k /\ o.badge
      BY <1>1, <2>5 DEF IInv, GridBadge
    <3>4. CASE RankedAt(k) = {}
      <4>1. grid[k].rank = -1
        BY <3>2, <3>4 DEF Best
      <4>2. ~cell.badge /\ best = {}
        BY <2>4, <3>1, <3>4, <4>1, ToneOfMissing
      <4>3. QED
        BY <4>2
    <3>5. CASE RankedAt(k) # {}
      <4>1. PICK o \in RankedAt(k) : o.rank = grid[k].rank
        BY <3>2, <3>5 DEF Best
      <4>2. grid[k].rank \in Int /\ grid[k].rank > 0
        BY <2>3, <4>1 DEF RankedAt
      <4>3. RankTone(grid[k].rank) \notin {"untracked", "unranked", "checking"}
        BY <4>2, ToneOfRank
      <4>4. best # {}
        BY <2>4, <3>1, <4>1
      <4>5. QED
        BY <2>2, <2>4, <3>1, <3>3, <4>3, <4>4
    <3>6. QED
      BY <3>4, <3>5
  <2>6. CASE k \notin DOMAIN grid
    <3>1. ~cell.badge
      BY <2>6 DEF Cell, BuildCell
    <3>2. best = {}
      BY <1>1, <2>4, <2>6 DEF IInv, GridDomain, RankedAt
    <3>3. QED
      BY <3>1, <3>2
  <2>7. QED
    BY <2>5, <2>6
<1>2. IInv => BadgeOfTheBest
  BY <1>1 DEF BadgeOfTheBest
<1>3. QED
  BY <1>2, Invariant, PTL

-----------------------------------------------------------------------------
(***************************************************************************)
(* The columns.  They are the newest buckets of the window, and the window *)
(* ends where the newest observation is (Reached), which is therefore      *)
(* among the checked days (Answered).                                      *)
(***************************************************************************)
Known(day) == \E o \in ranks : o.day = day

Windows == window \in [start : Int, end : Int, interval : INTERVALS] /\ window.start <= window.end

DatesKnown ==
  /\ range \in {NotCached, NoDay} \/ Known(range)
  /\ newest = NoDay \/ Known(newest)

Pulled == at \in {"clamped", "listed", "folding", "built"}

AskedFor == newest # NoDay /\ newest <= asked

Reached ==
  /\ at = "resolved" => asked = window.end
  /\ Pulled /\ AskedFor => window.end = newest

Answered == Built /\ AskedFor => newest \in checked

DInv ==
  /\ ranks \subseteq Observation /\ IsFiniteSet(ranks)
  /\ asked \in Int
  /\ Windows
  /\ DatesKnown
  /\ Reached
  /\ Answered

(* Every day is in a month: the calendar of the code has no first month. *)
Calendar == \A d \in Int : \E m \in MonthStarts : m <= d /\ \A n \in MonthStarts : n <= d => n <= m

LEMMA BucketOrder ==
  ASSUME Calendar, NEW i, NEW d \in Int, NEW e \in Int
  PROVE  BucketFor(i, d) \in Int /\ (d <= e => BucketFor(i, d) <= BucketFor(i, e))
<1>1. CASE i = "weekly"
  <2>1. Monday(d) \in Int /\ (d <= e => Monday(d) <= Monday(e))
    <3>1. d % 7 \in 0..6 /\ e % 7 \in 0..6 /\ d \div 7 \in Int /\ e \div 7 \in Int
      OBVIOUS
    <3>2. d = 7 * (d \div 7) + (d % 7) /\ e = 7 * (e \div 7) + (e % 7)
      OBVIOUS
    <3>3. d <= e => d \div 7 <= e \div 7
      BY <3>1, <3>2
    <3>4. Monday(d) = 7 * (d \div 7) /\ Monday(e) = 7 * (e \div 7)
      BY <3>1, <3>2 DEF Monday
    <3>5. QED
      BY <3>1, <3>3, <3>4
  <2>2. QED
    BY <1>1, <2>1 DEF BucketFor
<1>2. CASE i = "monthly"
  <2>m. ASSUME NEW x \in Int
        PROVE  /\ FirstOfMonth(x) \in MonthStarts /\ FirstOfMonth(x) <= x
               /\ \A n \in MonthStarts : n <= x => n <= FirstOfMonth(x)
    BY DEF Calendar, FirstOfMonth
  <2>1. FirstOfMonth(d) \in Int /\ FirstOfMonth(e) \in Int
    BY <2>m, DaysAreIntegers
  <2>2. d <= e => FirstOfMonth(d) <= FirstOfMonth(e)
    BY <2>m, <2>1
  <2>3. QED
    BY <1>2, <2>1, <2>2 DEF BucketFor
<1>3. CASE i \notin {"weekly", "monthly"}
  BY <1>3 DEF BucketFor
<1>4. QED
  BY <1>1, <1>2, <1>3

(* A finite set of integers has a greatest element: a smallest set without one would
   have one as soon as an element is added to a smaller one. *)
LEMMA Greatest ==
  ASSUME NEW S \in SUBSET Int, IsFiniteSet(S), S # {}
  PROVE  \E m \in S : \A x \in S : x <= m
<1> DEFINE HasMax(A) == \E m \in A : \A x \in A : x <= m
           Bad == {A \in FiniteSubsetsOf(S) : A # {} /\ ~HasMax(A)}
<1>1. Bad = {}
  <2>1. SUFFICES ASSUME Bad # {}  PROVE FALSE
    OBVIOUS
  <2>2. IsWellFoundedOn(StrictSubsetOrdering(S), FiniteSubsetsOf(S))
    BY FS_StrictSubsetOrderingWellFounded
  <2>3. Bad \subseteq FiniteSubsetsOf(S)
    OBVIOUS
  <2>4. PICK A \in Bad : \A B \in Bad : <<B, A>> \notin StrictSubsetOrdering(S)
    BY <2>1, <2>2, <2>3, WFMin
  <2>5. A \in SUBSET S /\ IsFiniteSet(A) /\ A # {} /\ ~HasMax(A)
    BY DEF FiniteSubsetsOf
  <2>6. PICK a \in A : TRUE
    BY <2>5
  <2> DEFINE B == A \ {a}
  <2>7. B \in SUBSET S /\ IsFiniteSet(B) /\ B # A /\ B \subseteq A
    BY <2>5, <2>6, FS_RemoveElement
  <2>8. <<B, A>> \in StrictSubsetOrdering(S)
    BY <2>5, <2>7 DEF StrictSubsetOrdering
  <2>9. B \notin Bad
    BY <2>4, <2>8
  <2>10. B = {} \/ HasMax(B)
    BY <2>7, <2>9 DEF FiniteSubsetsOf
  <2>11. HasMax(A)
    <3>1. CASE B = {}
      BY <2>5, <2>6, <3>1
    <3>2. CASE HasMax(B)
      <4>1. PICK m \in B : \A x \in B : x <= m
        BY <3>2
      <4>2. a \in Int /\ m \in Int /\ m \in A /\ \A x \in A : x \in Int /\ (x = a \/ x <= m)
        BY <2>5, <2>6, <4>1
      <4>3. QED
        BY <4>2, <2>6
    <3>3. QED
      BY <2>10, <3>1, <3>2
  <2>12. QED
    BY <2>5, <2>11
<1>2. HasMax(S)
  BY <1>1 DEF FiniteSubsetsOf
<1>3. QED
  BY <1>2

LEMMA ImageFinite ==
  ASSUME NEW S, IsFiniteSet(S), NEW f, DOMAIN f = S
  PROVE  IsFiniteSet({f[x] : x \in S})
<1> DEFINE T == {f[x] : x \in S}
           g == [x \in S |-> f[x]]
<1>1. g \in Surjection(S, T)
  BY DEF Surjection
<1> HIDE DEF T
<1>2. IsFiniteSet(T)
  BY <1>1, FS_Surjection
<1>3. QED
  BY <1>2 DEF T

(* The newest observation is one of the warehouse. *)
LEMMA NewestKnown ==
  ASSUME ranks \subseteq Observation, IsFiniteSet(ranks)
  PROVE  Newest = NoDay \/ Known(Newest)
<1> DEFINE day == [o \in ranks |-> o.day]
           days == {o.day : o \in ranks}
<1>1. days = {day[o] : o \in ranks}
  OBVIOUS
<1>2. DOMAIN day = ranks
  OBVIOUS
<1>3. days \in SUBSET Int
  BY DaysAreIntegers DEF Observation
<1>4. IsFiniteSet(days)
  <2> HIDE DEF day, days
  <2>1. QED
    BY <1>1, <1>2, ImageFinite
<1> HIDE DEF days
<1>5. CASE days = {}
  BY <1>5 DEF Newest, days
<1>6. CASE days # {}
  <2>1. \E d \in days : \A e \in days : e <= d
    BY <1>3, <1>4, <1>6, Greatest
  <2>2. Newest \in days
    BY <1>6, <2>1 DEF Newest, days
  <2>3. QED
    BY <2>2 DEF days, Known
<1>7. QED
  BY <1>5, <1>6

LEMMA ResolvedWindow ==
  ASSUME NEW i, NEW p, NEW c \in CustomRanges \cup {NoDates}
  PROVE  /\ Resolved(i, p, c) \in [start : Int, end : Int, interval : INTERVALS]
         /\ Resolved(i, p, c).start <= Resolved(i, p, c).end
<1> DEFINE days == IF p \in DOMAIN PresetDays /\ PresetDays[p] > 0
                     THEN PresetDays[p] ELSE PresetDays[DEFAULT_DATE_RANGE]
           low == IF c = NoDates THEN Today - (days - 1)
                  ELSE IF c[1] < c[2] THEN c[1] ELSE c[2]
           high == IF c = NoDates THEN Today
                   ELSE IF c[1] < c[2] THEN c[2] ELSE c[1]
<1>1. days \in Nat /\ days > 0
  BY PresetsOK
<1> HIDE DEF days
<1>2. low \in Int /\ high \in Int /\ low <= high
  <2>1. CASE c = NoDates
    BY <1>1, <2>1, DaysAreIntegers
  <2>2. CASE c # NoDates
    <3>1. c \in Int \X Int
      BY <2>2, CustomDays
    <3>2. c[1] \in Int /\ c[2] \in Int
      BY <3>1
    <3>3. QED
      BY <2>2, <3>2
  <2>3. QED
    BY <2>1, <2>2
<1>3. Resolved(i, p, c) = [start |-> IF high - low > MaxSpan THEN high - MaxSpan ELSE low,
                           end |-> high,
                           interval |-> IF i \in INTERVALS THEN i ELSE "daily"]
  BY DEF Resolved, days
<1> HIDE DEF low, high
<1>4. QED
  BY <1>2, <1>3, SpanNat DEF INTERVALS

LEMMA PulledBackWindow ==
  ASSUME Windows, NEW d, d = NoDay \/ d \in Int
  PROVE  /\ PulledBack(window, d) \in [start : Int, end : Int, interval : INTERVALS]
         /\ PulledBack(window, d).start <= PulledBack(window, d).end
         /\ d # NoDay /\ d <= window.end => PulledBack(window, d).end = d
<1>1. CASE d # NoDay /\ d < window.end
  <2>1. PulledBack(window, d)
          = [window EXCEPT !.start = d - (window.end - window.start), !.end = d]
    BY <1>1 DEF PulledBack
  <2> DEFINE w == [window EXCEPT !.start = d - (window.end - window.start), !.end = d]
  <2>2. /\ w \in [start : Int, end : Int, interval : INTERVALS]
        /\ w.start = d - (window.end - window.start) /\ w.end = d
    <3>1. /\ window \in [start : Int, end : Int, interval : INTERVALS]
          /\ d \in Int /\ d - (window.end - window.start) \in Int
      BY <1>1 DEF Windows
    <3>2. QED
      BY <3>1
  <2> HIDE DEF w
  <2>3. w.start <= w.end
    BY <1>1, <2>2 DEF Windows
  <2>4. PulledBack(window, d) = w
    BY <2>1 DEF w
  <2>5. QED
    BY <2>2, <2>3, <2>4
<1>2. CASE ~(d # NoDay /\ d < window.end)
  <2>1. PulledBack(window, d) = window
    BY <1>2 DEF PulledBack
  <2>2. QED
    BY <1>2, <2>1 DEF Windows
<1>3. QED
  BY <1>1, <1>2

LEMMA KnownDays ==
  ASSUME ranks \subseteq Observation, NEW d, d = NoDay \/ Known(d)
  PROVE  d = NoDay \/ d \in Int
BY DaysAreIntegers DEF Known, Observation

LEMMA DInvInit == Init => DInv
<1> SUFFICES ASSUME Init PROVE DInv
  OBVIOUS
<1>1. Windows
  BY DaysAreIntegers DEF Init, Windows, NoWindow, INTERVALS
<1>2. QED
  BY <1>1, FS_EmptySet, DaysAreIntegers
  DEF Init, DInv, DatesKnown, Reached, Pulled, AskedFor, Answered, Built

LEMMA DInvStep == DInv /\ [Next]_vars => DInv'
<1> SUFFICES ASSUME DInv, [Next]_vars PROVE DInv'
  OBVIOUS
<1> USE DEF DInv
<1>1. ASSUME NEW i \in Intervals, NEW p \in Presets, NEW c \in CustomRanges \cup {NoDates},
             Resolve(i, p, c)
      PROVE  DInv'
  <2>1. /\ at' = "resolved" /\ window' = Resolved(i, p, c) /\ asked' = window'.end
        /\ UNCHANGED <<ranks, range, newest>>
    BY <1>1 DEF Resolve, warehouse
  <2>2. Windows'
    BY <2>1, ResolvedWindow DEF Windows
  <2>3. asked' \in Int
    BY <2>1, <2>2 DEF Windows
  <2>4. QED
    BY <2>1, <2>2, <2>3 DEF DatesKnown, Known, Reached, Pulled, Answered, Built
<1>2. CASE Clamp
  <2>1. /\ at = "resolved" /\ at' = "clamped"
        /\ newest' = IF range = NotCached THEN Newest ELSE range
        /\ range' = newest' /\ window' = PulledBack(window, newest')
        /\ UNCHANGED <<ranks, asked>>
    BY <1>2 DEF Clamp
  <2>2. newest' = NoDay \/ Known(newest')
    BY <2>1, NewestKnown DEF DatesKnown
  <2>3. newest' = NoDay \/ newest' \in Int
    BY <2>2, KnownDays
  <2>4. Windows'
    BY <2>1, <2>3, PulledBackWindow DEF Windows
  <2>5. newest' # NoDay /\ newest' <= asked => window'.end = newest'
    BY <2>1, <2>3, PulledBackWindow DEF Reached
  <2>6. QED
    BY <2>1, <2>2, <2>4, <2>5
    DEF DatesKnown, Known, Reached, Pulled, AskedFor, Answered, Built
<1>3. ASSUME NEW keywords \in SUBSET Keywords, ListKeywords(keywords)
      PROVE  DInv'
  <2>1. /\ at = "clamped" /\ at' = IF keywords = {} THEN "built" ELSE "listed"
        /\ page' = keywords /\ UNCHANGED <<ranks, range, window, asked, newest>>
    BY <1>3 DEF ListKeywords, warehouse, dates
  <2>2. QED
    BY <2>1 DEF Windows, DatesKnown, Known, Reached, Pulled, AskedFor, Answered, Built
<1>4. CASE FetchRanks \/ \E o \in todo : FoldRow(o)
  <2>1. /\ Pulled /\ at' = "folding" /\ UNCHANGED <<ranks, range, window, asked, newest>>
    BY <1>4 DEF FetchRanks, FoldRow, warehouse, dates, Pulled
  <2>2. QED
    BY <2>1 DEF Windows, DatesKnown, Known, Reached, Pulled, AskedFor, Answered, Built
<1>5. CASE FetchChecked
  <2>1. /\ Pulled /\ at' = "built" /\ UNCHANGED <<ranks, range, window, asked, newest, page>>
        /\ checked' = {o.day : o \in {x \in ranks : InWindow(x)}}
    BY <1>5 DEF FetchChecked, warehouse, dates, Pulled
  <2>2. ASSUME AskedFor PROVE newest \in checked'
    <3>1. window.end = newest
      BY <2>1, <2>2 DEF Reached
    <3>2. PICK o \in ranks : o.day = newest
      BY <2>2 DEF DatesKnown, Known, AskedFor
    <3>3. InWindow(o)
      BY <3>1, <3>2 DEF InWindow, Windows
    <3>4. QED
      BY <2>1, <3>2, <3>3
  <2>3. QED
    BY <2>1, <2>2 DEF Windows, DatesKnown, Known, Reached, Pulled, AskedFor, Answered, Built
<1>6. CASE Finish
  <2>1. /\ at' = "idle" /\ window' = NoWindow /\ asked' = Today /\ newest' = NoDay
        /\ UNCHANGED <<ranks, range>>
    BY <1>6 DEF Finish, warehouse
  <2>2. Windows'
    BY <2>1, DaysAreIntegers DEF Windows, NoWindow, INTERVALS
  <2>3. QED
    BY <2>1, <2>2, DaysAreIntegers DEF DatesKnown, Known, Reached, Pulled, Answered, Built
<1>7. ASSUME NEW o \in Observation, Import(o)
      PROVE  DInv'
  <2>1. /\ ranks' = ranks \cup {o}
        /\ UNCHANGED <<range, at, window, asked, newest, page, checked>>
    BY <1>7 DEF Import, dates, matrix
  <2>2. IsFiniteSet(ranks')
    BY <2>1, FS_AddElement
  <2>3. QED
    BY <2>1, <2>2 DEF Windows, DatesKnown, Known, Reached, Pulled, AskedFor, Answered, Built
<1>8. CASE Expire \/ UNCHANGED vars
  <2>1. /\ UNCHANGED <<ranks, at, window, asked, newest, page, checked>>
        /\ range' \in {range, NotCached}
    BY <1>8 DEF Expire, vars, warehouse, dates, matrix
  <2>2. QED
    BY <2>1 DEF Windows, DatesKnown, Known, Reached, Pulled, AskedFor, Answered, Built
<1>9. QED
  BY <1>1, <1>2, <1>3, <1>4, <1>5, <1>6, <1>7, <1>8 DEF Next

LEMMA DatesInvariant == Spec => []DInv
BY DInvInit, DInvStep, PTL DEF Spec

(* views.py:50-61.  Whatever the calendar, the imports and the age of the cached range:
   a matrix asked to reach the newest known observation ends in a checked column. *)
THEOREM NewestChecked ==
  ASSUME Calendar
  PROVE  Spec => []NewestColumnChecked
<1>1. ASSUME DInv, Built, newest # NoDay, newest <= asked
      PROVE  \E column \in CheckedBuckets : \A c \in Buckets(window) : c <= column
  <2>1. window.end = newest /\ newest \in checked
    BY <1>1 DEF DInv, Reached, Pulled, AskedFor, Answered, Built
  <2>2. BucketFor(window.interval, newest) \in CheckedBuckets
    BY <2>1 DEF CheckedBuckets
  <2>3. window.start \in Int /\ window.end \in Int
    BY <1>1 DEF DInv, Windows
  <2>4. ASSUME NEW c \in Buckets(window) PROVE c <= BucketFor(window.interval, newest)
    <3>1. PICK d \in window.start..window.end : c = BucketFor(window.interval, d)
      BY DEF Buckets, AllBuckets
    <3>2. d \in Int /\ d <= window.end
      BY <2>3, <3>1
    <3>3. QED
      BY <1>1, <2>1, <2>3, <3>1, <3>2, BucketOrder
  <2>5. QED
    BY <2>2, <2>4
<1>2. DInv => NewestColumnChecked
  BY <1>1 DEF NewestColumnChecked
<1>3. QED
  BY <1>2, DatesInvariant, PTL

-----------------------------------------------------------------------------
LEMMA Least ==
  ASSUME NEW S \in SUBSET Int, IsFiniteSet(S), S # {}
  PROVE  \E m \in S : \A x \in S : m <= x
<1> DEFINE neg == [x \in S |-> -x]
           T == {neg[x] : x \in S}
<1>1. IsFiniteSet(T)
  BY ImageFinite
<1>2. T \in SUBSET Int /\ T # {}
  <2>1. \A x \in S : neg[x] \in Int
    OBVIOUS
  <2>2. QED
    BY <2>1
<1>3. PICK m \in T : \A x \in T : x <= m
  <2> HIDE DEF T
  <2>1. QED
    BY <1>1, <1>2, Greatest
<1>4. PICK l \in S : m = -l
  OBVIOUS
<1>5. \A x \in S : -x <= -l
  BY <1>3, <1>4
<1>6. QED
  BY <1>5

(* The n greatest elements of a set: those that are not greater than b are none, when
   n others are. *)
LEMMA GreatestOnes ==
  ASSUME NEW S \in SUBSET Int, IsFiniteSet(S), NEW n \in Nat \ {0}, NEW b \in S,
         ~(Cardinality({c \in S : c > b}) < n)
  PROVE  LET T == {x \in S : Cardinality({c \in S : c > x}) < n}
         IN  Cardinality({c \in T : c > b}) = n
<1> DEFINE Above(x) == {c \in S : c > x}
           T == {x \in S : Cardinality(Above(x)) < n}
<1>i. \A x \in S : x \in Int
  OBVIOUS
<1>f. ASSUME NEW A \in SUBSET S PROVE IsFiniteSet(A) /\ Cardinality(A) \in Nat
  BY FS_Subset, FS_CardinalityType
<1>a. \A x \in S : Above(x) \in SUBSET S
  OBVIOUS
<1>m. ASSUME NEW x \in S, NEW y \in S, x <= y PROVE Cardinality(Above(y)) <= Cardinality(Above(x))
  <2>1. ASSUME NEW c \in S, c > y PROVE c > x
    BY <1>m, <2>1, <1>i
  <2>2. Above(y) \subseteq Above(x)
    BY <2>1
  <2>3. IsFiniteSet(Above(x))
    BY <1>a, <1>f
  <2> HIDE DEF Above
  <2>4. QED
    BY <2>2, <2>3, FS_Subset
<1>b. b \in S \ T
  OBVIOUS
<1>1. PICK m \in S \ T : \A x \in S \ T : x <= m
  <2>1. S \ T \in SUBSET Int /\ S \ T # {}
    BY <1>b
  <2>2. IsFiniteSet(S \ T)
    BY <1>f
  <2> HIDE DEF T
  <2>3. QED
    BY <2>1, <2>2, Greatest
<1>2. T = Above(m)
  <2>1. ASSUME NEW x \in T PROVE x > m
    <3>1. CASE x <= m
      <4>1. Cardinality(Above(m)) <= Cardinality(Above(x))
        BY <1>m, <3>1
      <4>2. Cardinality(Above(m)) < n
        BY <4>1, <1>a, <1>f
      <4>3. QED
        BY <4>2
    <3>2. QED
      BY <3>1
  <2>2. ASSUME NEW x \in S, x > m PROVE x \in T
    BY <1>1, <2>2
  <2>3. QED
    BY <2>1, <2>2
<1>3. Cardinality(T) >= n /\ Cardinality(T) \in Nat
  <2>1. ~(Cardinality(Above(m)) < n)
    BY <1>1
  <2>2. Cardinality(Above(m)) \in Nat
    BY <1>1, <1>a, <1>f
  <2> HIDE DEF T, Above
  <2>3. QED
    BY <1>2, <2>1, <2>2
<1>4. Cardinality(T) <= n
  <2>1. IsFiniteSet(T) /\ T \in SUBSET Int
    BY <1>f
  <2>2. T # {}
    <3> HIDE DEF T
    <3>1. QED
      BY <1>3, FS_EmptySet
  <2>3. PICK l \in T : \A x \in T : l <= x
    <3> HIDE DEF T
    <3>1. QED
      BY <2>1, <2>2, Least
  <2>4. Above(l) = T \ {l}
    <3>1. l \in Int /\ m \in Int /\ l > m
      BY <1>1, <1>2, <2>3, <1>i
    <3>2. ASSUME NEW c \in S, c > l PROVE c \in T /\ c # l
      BY <1>2, <3>1, <3>2, <1>i
    <3>3. ASSUME NEW c \in T, c # l PROVE c \in S /\ c > l
      BY <2>3, <3>1, <3>3, <1>i
    <3>4. QED
      BY <3>2, <3>3
  <2>5. Cardinality(T \ {l}) = Cardinality(T) - 1
    BY <2>1, <2>3, FS_RemoveElement
  <2>6. Cardinality(Above(l)) < n
    BY <2>3
  <2> HIDE DEF T, Above
  <2>7. QED
    BY <1>3, <2>4, <2>5, <2>6
<1>5. \A c \in T : c > b
  BY <1>1, <1>2, <1>b, <1>i
<1>6. {c \in T : c > b} = T
  <2> HIDE DEF T
  <2>1. QED
    BY <1>5
<1>7. Cardinality(T) = n
  <2> HIDE DEF T
  <2>1. QED
    BY <1>3, <1>4
<1>8. QED
  BY <1>6, <1>7

(* dates.py:71-95.  An observation that was fetched is in a column or older than a full
   set of columns. *)
THEOREM Covered ==
  ASSUME Calendar
  PROVE  Spec => []ColumnsCover
<1>1. ASSUME IInv, DInv, NEW o \in fetched,
             BucketFor(window.interval, o.day) \notin Buckets(window)
      PROVE  LET bucket == BucketFor(window.interval, o.day)
             IN  Cardinality({c \in Buckets(window) : c > bucket}) = MAX_MATRIX_COLUMNS
  <2> DEFINE bucket == BucketFor(window.interval, o.day)
             S == AllBuckets(window)
             days == window.start..window.end
             f == [d \in days |-> BucketFor(window.interval, d)]
  <2>1. window.start \in Int /\ window.end \in Int /\ o.day \in days
    BY <1>1 DEF DInv, Windows, IInv, Fetched, InWindow
  <2>2. bucket \in S
    BY <2>1 DEF AllBuckets
  <2>3. S \in SUBSET Int
    BY <2>1, BucketOrder DEF AllBuckets
  <2>4. IsFiniteSet(S)
    <3>1. IsFiniteSet(days)
      BY <2>1, FS_Interval
    <3>2. S = {f[d] : d \in days}
      BY DEF AllBuckets
    <3>3. DOMAIN f = days
      OBVIOUS
    <3> HIDE DEF days, f, S
    <3>4. QED
      BY <3>1, <3>2, <3>3, ImageFinite
  <2>5. ~(Cardinality({c \in S : c > bucket}) < MAX_MATRIX_COLUMNS)
    BY <1>1, <2>2 DEF Buckets
  <2>6. Buckets(window) = {x \in S : Cardinality({c \in S : c > x}) < MAX_MATRIX_COLUMNS}
    BY DEF Buckets
  <2> HIDE DEF bucket, S
  <2>7. Cardinality({c \in Buckets(window) : c > bucket}) = MAX_MATRIX_COLUMNS
    BY <2>2, <2>3, <2>4, <2>5, <2>6, ColumnsPositive, GreatestOnes
  <2>8. QED
    BY <2>7 DEF bucket
<1>2. IInv /\ DInv => ColumnsCover
  BY <1>1 DEF ColumnsCover
<1>3. QED
  BY <1>2, Invariant, DatesInvariant, PTL

=============================================================================
