---------------------------- MODULE CachedReads ----------------------------
(***************************************************************************)
(* What the screens show of the warehouse, through cached calls that       *)
(* contain one another: the keyword list and the metric strip above it     *)
(* (apps/keywords/repositories.py), the usage counters and the roster      *)
(* (apps/projects/repositories.py, selectors.py, services.py), by way of   *)
(* cached_call (apps/common/cache.py).                                     *)
(*                                                                         *)
(* metric_summary aggregates the snapshot that latest_snapshot names, but  *)
(* its key does not say which; usage_counters caches usage_counts, which   *)
(* is cached itself.  Time passes in ticks: entries run out, and a request *)
(* takes a few ticks at most because queries have a read timeout.          *)
(*                                                                         *)
(* The warehouse is outside the program: a sync adds a newer snapshot.     *)
(* Left out: the other projects and ASINs, which have keys of their own,   *)
(* the filters and pages of the list, and failing queries, which store     *)
(* nothing.                                                                *)
(***************************************************************************)
EXTENDS Integers

CONSTANTS
  CACHE_TTL_SHORT, CACHE_TTL_MEDIUM, CACHE_TTL_LONG,
  MaxDelay,      \* ticks a request may take
  MaxSnapshots,  \* bound: snapshots that are ever taken
  Threads,
  Areas,         \* bound: the screens that are looked at
  NoEntry

ASSUME NoEntryIsNoEntry == NoEntry \notin [snap : Int, left : Int]
ASSUME TtlsOrdered ==
  /\ CACHE_TTL_SHORT \in Nat \ {0} /\ CACHE_TTL_MEDIUM \in Nat /\ CACHE_TTL_LONG \in Nat
  /\ CACHE_TTL_SHORT < CACHE_TTL_MEDIUM /\ CACHE_TTL_MEDIUM < CACHE_TTL_LONG
ASSUME BoundsNat == MaxDelay \in Nat /\ MaxSnapshots \in Nat
ASSUME QueriesEndInTime == MaxDelay <= CACHE_TTL_MEDIUM
ASSUME AreasKnown == Areas \subseteq {"keywords", "projects"}

VARIABLES
  area,    \* one of Areas, the same all the time
  latest,  \* the newest snapshot of the warehouse; 0, there is none
  since,   \* history: since[s], ticks since snapshot s had a successor
  entries, \* the cache: of each key the snapshot its value tells of, and its TTL left
  req      \* the request each thread serves

vars == <<area, latest, since, entries, req>>

Snapshots == 0..MaxSnapshots
Keys == {"snapshot", "summary", "usage", "counters", "roster"}

(* Mutant: the summary is kept as long as the snapshot. *)
Ttl_Long(key) == IF key = "counters" THEN CACHE_TTL_SHORT ELSE CACHE_TTL_LONG

Ttl(key) ==
  CASE key \in {"snapshot", "usage", "roster"} -> CACHE_TTL_LONG
    [] key = "summary" -> CACHE_TTL_MEDIUM
    [] key = "counters" -> CACHE_TTL_SHORT

(* Ages beyond every bound of the properties are not told apart. *)
MaxAge == CACHE_TTL_LONG + CACHE_TTL_MEDIUM + 3 * MaxDelay + 1

(* A request: the operation, the key of the innermost cached call and how far that
   call is, the snapshot its value tells of, the ticks since the request began; left
   is the TTL of the snapshot entry that metric_summary has read. *)
NoRequest == [op |-> "none", at |-> "idle", key |-> "none", snap |-> 0, age |-> 0,
              left |-> 0]

Init ==
  /\ area \in Areas
  /\ latest = 0
  /\ since = [s \in Snapshots |-> 0]
  /\ entries = [k \in Keys |-> NoEntry]
  /\ req = [t \in Threads |-> NoRequest]

Advance(t, r) == req' = [req EXCEPT ![t] = r]

-----------------------------------------------------------------------------
(* cached_call. *)

Start(t, op, key) ==
  /\ req[t] = NoRequest
  /\ Advance(t, [NoRequest EXCEPT !.op = op, !.at = "get", !.key = key])
  /\ UNCHANGED <<area, latest, since, entries>>

(* A call of key returns snap: metric_summary goes on to its own call, usage_counters
   stores what usage_counts returned. *)
Return(t, snap, left) ==
  Advance(t, CASE req[t].key = "snapshot" /\ req[t].op = "metric_summary" ->
                    [req[t] EXCEPT !.at = "get", !.key = "summary", !.snap = snap, !.left = left]
               [] req[t].key = "usage" ->
                    [req[t] EXCEPT !.at = "set", !.key = "counters", !.snap = snap]
               [] OTHER -> NoRequest)

(* Mutant: a hit renews the entry. *)
Hit_Renews(t) ==
  /\ req[t].at = "get" /\ entries[req[t].key] # NoEntry
  /\ LET e == entries[req[t].key] IN
       /\ Return(t, e.snap, e.left)
       /\ entries' = [entries EXCEPT ![req[t].key].left = Ttl(req[t].key)]
  /\ UNCHANGED <<area, latest, since>>

Hit(t) ==
  /\ req[t].at = "get" /\ entries[req[t].key] # NoEntry
  /\ LET e == entries[req[t].key] IN Return(t, e.snap, e.left)
  /\ UNCHANGED <<area, latest, since, entries>>

(* The producer of the counters is another cached call. *)
Miss(t) ==
  /\ req[t].at = "get" /\ entries[req[t].key] = NoEntry
  /\ Advance(t, IF req[t].key = "counters" THEN [req[t] EXCEPT !.key = "usage"]
                ELSE [req[t] EXCEPT !.at = "query"])
  /\ UNCHANGED <<area, latest, since, entries>>

(* The summary is that of the snapshot looked up before. *)
Query(t) ==
  /\ req[t].at = "query"
  /\ Advance(t, [req[t] EXCEPT !.at = "set",
                               !.snap = IF req[t].key = "summary" THEN @ ELSE latest])
  /\ UNCHANGED <<area, latest, since, entries>>

Store(t) ==
  /\ req[t].at = "set"
  /\ entries' = [entries EXCEPT ![req[t].key] = [snap |-> req[t].snap, left |-> Ttl(req[t].key)]]
  /\ Return(t, req[t].snap, Ttl(req[t].key))
  /\ UNCHANGED <<area, latest, since>>

-----------------------------------------------------------------------------
(* services._invalidate: the counters and the roster, not the usage counts. *)
Invalidate ==
  /\ area = "projects"
  /\ entries' = [entries EXCEPT !["counters"] = NoEntry, !["roster"] = NoEntry]
  /\ entries' # entries
  /\ UNCHANGED <<area, latest, since, req>>

Sync ==
  /\ latest < MaxSnapshots
  /\ latest' = latest + 1
  /\ UNCHANGED <<area, since, entries, req>>

Tick ==
  /\ \A t \in Threads : req[t] # NoRequest => req[t].age < MaxDelay
  /\ since' = [s \in Snapshots |->
                 IF s < latest /\ since[s] < MaxAge THEN since[s] + 1 ELSE since[s]]
  /\ entries' = [k \in Keys |->
                   IF entries[k] = NoEntry \/ entries[k].left = 1 THEN NoEntry
                   ELSE [entries[k] EXCEPT !.left = @ - 1]]
  /\ req' = [t \in Threads |->
               IF req[t] = NoRequest THEN NoRequest
               ELSE [req[t] EXCEPT !.age = @ + 1, !.left = IF @ = 0 THEN 0 ELSE @ - 1]]
  /\ UNCHANGED <<area, latest>>

Serve(t) ==
  \/ area = "keywords" /\ \E op \in {"list_keywords", "metric_summary"} : Start(t, op, "snapshot")
  \/ area = "projects" /\ Start(t, "usage_counters", "counters")
  \/ area = "projects" /\ Start(t, "list_projects", "roster")
  \/ Hit(t) \/ Miss(t) \/ Query(t) \/ Store(t)

Next == (\E t \in Threads : Serve(t)) \/ Invalidate \/ Sync \/ Tick

Spec == Init /\ [][Next]_vars

-----------------------------------------------------------------------------
(* Properties. *)

Oldest(key) ==
  CASE key \in {"snapshot", "usage", "roster"} -> CACHE_TTL_LONG + MaxDelay
    [] key = "counters" -> CACHE_TTL_LONG + CACHE_TTL_SHORT + 2 * MaxDelay
    [] key = "summary" -> CACHE_TTL_LONG + CACHE_TTL_MEDIUM + 2 * MaxDelay

(* constants.py:104-106, cache.py:41-49.  Whatever calls overlap, the screens show
   nothing that was out of date for as long as the TTLs of the calls inside one
   another and the time of a request for each of them.  For snapshot 0 it says how
   long after its first import an ASIN is listed without a snapshot. *)
ShownWasCurrent ==
  \A k \in Keys : entries[k] # NoEntry => since[entries[k].snap] < Oldest(k)

(* keywords/repositories.py:153-171.  metric_summary returns aggregates of the
   snapshot it has just looked up, the one the list shows, once that snapshot has been
   cached for CACHE_TTL_MEDIUM and the time of a request; unless the lookup runs out
   while the request is under way. *)
SummaryFollowsSnapshot ==
  \A t \in Threads :
     /\ req[t].key = "summary" /\ req[t].at = "get"
     /\ entries["summary"] # NoEntry
     /\ entries["summary"].snap # req[t].snap
     /\ req[t].left > 0
     => CACHE_TTL_LONG - req[t].left <= CACHE_TTL_MEDIUM + MaxDelay
=============================================================================
