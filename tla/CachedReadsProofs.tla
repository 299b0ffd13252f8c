-------------------------- MODULE CachedReadsProofs --------------------------
(***************************************************************************)
(* What holds of CachedReads for any TTLs in the order of the code's, any  *)
(* number of requests and snapshots.                                       *)
(*                                                                         *)
(* What is out of date grows by a tick where what is left of an entry      *)
(* shrinks by one, so their sum never grows (EntriesFresh), and a request  *)
(* carries what it was told for its own time at most (CarriedFresh).  The  *)
(* snapshot entry is replaced only by a request that missed it, and so     *)
(* soon after it was stored (MissedLately): whoever has looked it up since *)
(* holds the same (LookupsAgree), and so does the summary stored since     *)
(* (SummaryAgrees).                                                        *)
(***************************************************************************)
EXTENDS CachedReads, TLAPS

Entry == [snap : Snapshots, left : 1..CACHE_TTL_LONG]

Request ==
  [op : {"none", "list_keywords", "metric_summary", "usage_counters", "list_projects"},
   at : {"idle", "get", "query", "set"}, key : Keys \cup {"none"}, snap : Snapshots,
   age : 0..MaxDelay, left : 0..CACHE_TTL_LONG]

KeysOf(op) ==
  CASE op = "list_keywords" -> {"snapshot"}
    [] op = "metric_summary" -> {"snapshot", "summary"}
    [] op = "usage_counters" -> {"counters", "usage"}
    [] op = "list_projects" -> {"roster"}

Placed(r) ==
  /\ IF r.op = "none" THEN r = NoRequest ELSE r.key \in KeysOf(r.op) /\ r.at # "idle"
  /\ ~(r.key = "counters" /\ r.at = "query")

TypeOK ==
  /\ area \in Areas /\ latest \in Snapshots
  /\ since \in [Snapshots -> 0..MaxAge]
  /\ \A s \in Snapshots : s >= latest => since[s] = 0
  /\ entries \in [Keys -> Entry \cup {NoEntry}]
  /\ req \in [Threads -> Request]
  /\ \A t \in Threads : Placed(req[t])

EntriesFresh ==
  \A k \in Keys : entries[k] # NoEntry =>
     /\ since[entries[k].snap] + entries[k].left <= Oldest(k)
     /\ entries[k].left <= Ttl(k)

(* What request r was told is no older than the entries it may come from. *)
CarriedFresh(r) ==
  /\ r.at = "set" /\ r.key \in {"snapshot", "usage", "roster"} => since[r.snap] <= r.age
  /\ r.key = "summary" \/ (r.at = "set" /\ r.key = "counters")
       => since[r.snap] <= CACHE_TTL_LONG + MaxDelay + r.age

(* For how long an entry of the snapshot with that TTL left has been there. *)
Cached(left) == CACHE_TTL_LONG - left

MissedLately(r) ==
  r.key = "snapshot" /\ r.at \in {"query", "set"} /\ entries["snapshot"] # NoEntry
    => Cached(entries["snapshot"].left) <= r.age

SameLookup(r) ==
  /\ entries["snapshot"] # NoEntry
  /\ entries["snapshot"].snap = r.snap /\ entries["snapshot"].left = r.left

LookupAgrees(r) ==
  r.key = "summary" =>
    /\ entries["snapshot"] # NoEntry /\ Cached(entries["snapshot"].left) > r.age
         => SameLookup(r)
    /\ r.left > 0 => SameLookup(r) \/ Cached(r.left) <= MaxDelay + r.age

Good(r) == CarriedFresh(r) /\ MissedLately(r) /\ LookupAgrees(r)

SummaryAgrees ==
  /\ entries["summary"] # NoEntry /\ entries["snapshot"] # NoEntry
  /\ Cached(entries["snapshot"].left) > MaxDelay + CACHE_TTL_MEDIUM - entries["summary"].left
  => entries["summary"].snap = entries["snapshot"].snap

IInv == TypeOK /\ EntriesFresh /\ SummaryAgrees /\ \A t \in Threads : Good(req[t])

-----------------------------------------------------------------------------
LEMMA Bounds ==
  /\ CACHE_TTL_SHORT \in Nat /\ CACHE_TTL_MEDIUM \in Nat /\ CACHE_TTL_LONG \in Nat
  /\ 1 <= CACHE_TTL_SHORT /\ CACHE_TTL_SHORT < CACHE_TTL_MEDIUM
  /\ CACHE_TTL_MEDIUM < CACHE_TTL_LONG
  /\ MaxDelay \in Nat /\ MaxSnapshots \in Nat /\ MaxDelay <= CACHE_TTL_MEDIUM
  /\ MaxAge \in Nat
BY TtlsOrdered, BoundsNat, QueriesEndInTime DEF MaxAge

LEMMA Ttls == \A k \in Keys : Ttl(k) \in 1..CACHE_TTL_LONG
BY Bounds DEF Keys, Ttl

LEMMA EntryIsEntry == NoEntry \notin Entry
BY NoEntryIsNoEntry DEF Entry, Snapshots

LEMMA IdleGood == NoRequest \in Request /\ Placed(NoRequest) /\ Good(NoRequest)
BY Bounds DEF NoRequest, Request, Placed, Good, CarriedFresh, MissedLately, LookupAgrees,
   Snapshots, Keys

(* A call returns: the request ends, or goes on to the cached call around it. *)
LEMMA ReturnGood ==
  ASSUME IInv, NEW t \in Threads, NEW snap \in Snapshots, NEW left \in 1..CACHE_TTL_LONG,
         Return(t, snap, left), req[t].key \in Keys
  PROVE  \E r \in Request :
           /\ Placed(r) /\ req' = [req EXCEPT ![t] = r]
           /\ \/ r = NoRequest
              \/ /\ req[t].key = "snapshot" /\ r.key = "summary" /\ r.at = "get"
                 /\ r.snap = snap /\ r.left = left /\ r.age = req[t].age
              \/ /\ req[t].key = "usage" /\ r.key = "counters" /\ r.at = "set"
                 /\ r.snap = snap /\ r.age = req[t].age
<1>1. req[t] \in Request /\ Placed(req[t])
  BY DEF IInv, TypeOK
<1>2. CASE req[t].key = "snapshot" /\ req[t].op = "metric_summary"
  <2> DEFINE r == [req[t] EXCEPT !.at = "get", !.key = "summary", !.snap = snap, !.left = left]
  <2>1. r \in Request
    <3>1. left \in 0..CACHE_TTL_LONG
      BY Bounds
    <3>2. QED
      BY <1>1, <3>1 DEF Request, Keys
  <2>6. req' = [req EXCEPT ![t] = r]
    BY <1>2 DEF Return, Advance
  <2>2. /\ r.op = "metric_summary" /\ r.at = "get" /\ r.key = "summary" /\ r.snap = snap
        /\ r.left = left /\ r.age = req[t].age
    BY <1>1, <1>2 DEF Request
  <2>3. Placed(r)
    BY <2>2 DEF Placed, KeysOf
  <2> HIDE DEF r
  <2>4. QED
    BY <1>2, <2>1, <2>6, <2>2, <2>3
<1>3. CASE req[t].key = "usage"
  <2> DEFINE r == [req[t] EXCEPT !.at = "set", !.key = "counters", !.snap = snap]
  <2>1. r \in Request
    BY <1>1, <1>3, Bounds DEF Request, Keys
  <2>6. req' = [req EXCEPT ![t] = r]
    BY <1>3 DEF Return, Advance
  <2>2. /\ r.op = req[t].op /\ r.at = "set" /\ r.key = "counters" /\ r.snap = snap
        /\ r.age = req[t].age
    BY <1>1, <1>3 DEF Request
  <2>3. req[t].op = "usage_counters"
    BY <1>1, <1>3 DEF Placed, KeysOf, Request, NoRequest
  <2>4. Placed(r)
    BY <2>2, <2>3 DEF Placed, KeysOf
  <2> HIDE DEF r
  <2>5. QED
    BY <1>3, <2>1, <2>6, <2>2, <2>4
<1>4. CASE ~(req[t].key = "snapshot" /\ req[t].op = "metric_summary") /\ req[t].key # "usage"
  BY <1>4, IdleGood DEF Return, Advance
<1>5. QED
  BY <1>2, <1>3, <1>4

(* A step of one request that leaves the cache alone. *)
LEMMA RequestStep ==
  ASSUME IInv, NEW t \in Threads, NEW r \in Request, Placed(r), Good(r),
         UNCHANGED <<area, latest, since, entries>>, req' = [req EXCEPT ![t] = r]
  PROVE  IInv'
<1>1. req \in [Threads -> Request] /\ \A u \in Threads : Placed(req[u]) /\ Good(req[u])
  BY DEF IInv, TypeOK
<1>2. \A u \in Threads : req'[u] \in Request /\ Placed(req'[u]) /\ Good(req'[u])
  BY <1>1
<1>3. TypeOK'
  BY <1>1, <1>2 DEF IInv, TypeOK
<1>4. EntriesFresh' /\ SummaryAgrees'
  BY DEF IInv, EntriesFresh, SummaryAgrees
<1>5. \A u \in Threads : Good(req[u])'
  BY <1>2 DEF Good, CarriedFresh, MissedLately, LookupAgrees, SameLookup
<1>6. QED
  BY <1>3, <1>4, <1>5 DEF IInv

LEMMA StartStep ==
  ASSUME IInv, NEW t \in Threads, NEW op, NEW key, Start(t, op, key),
         \/ op \in {"list_keywords", "metric_summary"} /\ key = "snapshot"
         \/ op = "usage_counters" /\ key = "counters"
         \/ op = "list_projects" /\ key = "roster"
  PROVE  IInv'
<1> DEFINE r == [NoRequest EXCEPT !.op = op, !.at = "get", !.key = key]
<1>1. /\ op \in {"list_keywords", "metric_summary", "usage_counters", "list_projects"}
      /\ key \in Keys
  BY DEF Keys
<1>2. r \in Request
  BY <1>1, IdleGood DEF Request
<1>3. r.op = op /\ r.at = "get" /\ r.key = key
  BY IdleGood DEF Request
<1>4. UNCHANGED <<area, latest, since, entries>> /\ req' = [req EXCEPT ![t] = r]
  BY DEF Start, Advance
<1> HIDE DEF r
<1>5. Placed(r)
  BY <1>3 DEF Placed, KeysOf
<1>6. Good(r)
  BY <1>3 DEF Good, CarriedFresh, MissedLately, LookupAgrees
<1>7. QED
  BY <1>2, <1>4, <1>5, <1>6, RequestStep

LEMMA HitStep ==
  ASSUME IInv, NEW t \in Threads, Hit(t)
  PROVE  IInv'
<1>1. req[t] \in Request /\ Placed(req[t]) /\ req[t].at = "get"
  BY DEF IInv, TypeOK, Hit
<1>2. req[t].key \in Keys
  BY <1>1 DEF Placed, NoRequest, Request, KeysOf, Keys
<1>3. PICK e \in Entry : e = entries[req[t].key] /\ e # NoEntry /\ Return(t, e.snap, e.left)
  BY <1>2 DEF Hit, IInv, TypeOK
<1>4. e.snap \in Snapshots /\ e.left \in 1..CACHE_TTL_LONG
  BY DEF Entry
<1>5. PICK r \in Request :
        /\ Placed(r) /\ req' = [req EXCEPT ![t] = r]
        /\ \/ r = NoRequest
           \/ /\ req[t].key = "snapshot" /\ r.key = "summary" /\ r.at = "get"
              /\ r.snap = e.snap /\ r.left = e.left /\ r.age = req[t].age
           \/ /\ req[t].key = "usage" /\ r.key = "counters" /\ r.at = "set"
              /\ r.snap = e.snap /\ r.age = req[t].age
  BY <1>2, <1>3, <1>4, ReturnGood
<1>6. since[e.snap] \in Nat /\ r.age \in 0..MaxDelay
  BY <1>4, Bounds DEF IInv, TypeOK, Request
<1>7. since[e.snap] + e.left <= Oldest(req[t].key)
  BY <1>2, <1>3 DEF IInv, EntriesFresh
<1>8. Good(r)
  <2>1. CASE r = NoRequest
    BY <2>1, IdleGood
  <2>2. CASE /\ req[t].key = "snapshot" /\ r.key = "summary" /\ r.at = "get"
             /\ r.snap = e.snap /\ r.left = e.left
    BY <2>2, <1>3, <1>4, <1>6, <1>7, Bounds
       DEF Good, CarriedFresh, MissedLately, LookupAgrees, SameLookup, Oldest
  <2>3. CASE /\ req[t].key = "usage" /\ r.key = "counters" /\ r.at = "set"
             /\ r.snap = e.snap
    BY <2>3, <1>4, <1>6, <1>7, Bounds
       DEF Good, CarriedFresh, MissedLately, LookupAgrees, Oldest
  <2>4. QED
    BY <1>5, <2>1, <2>2, <2>3
<1>9. QED
  BY <1>5, <1>8, RequestStep DEF Hit

LEMMA MissStep ==
  ASSUME IInv, NEW t \in Threads, Miss(t)
  PROVE  IInv'
<1>1. req[t] \in Request /\ Placed(req[t]) /\ req[t].at = "get" /\ Good(req[t])
  BY DEF IInv, TypeOK, Miss
<1>2. CASE req[t].key = "counters"
  <2> DEFINE r == [req[t] EXCEPT !.key = "usage"]
  <2>1. r \in Request
    BY <1>1 DEF Request, Keys
  <2>2. r.op = req[t].op /\ r.at = "get" /\ r.key = "usage"
    BY <1>1 DEF Request
  <2>3. req[t].op = "usage_counters"
    BY <1>1, <1>2 DEF Placed, NoRequest, KeysOf, Request
  <2>4. Placed(r) /\ Good(r)
    BY <2>2, <2>3 DEF Placed, KeysOf, Good, CarriedFresh, MissedLately, LookupAgrees
  <2>5. UNCHANGED <<area, latest, since, entries>> /\ req' = [req EXCEPT ![t] = r]
    BY <1>2 DEF Miss, Advance
  <2> HIDE DEF r
  <2>6. QED
    BY <2>1, <2>4, <2>5, RequestStep
<1>3. CASE req[t].key # "counters"
  <2> DEFINE r == [req[t] EXCEPT !.at = "query"]
  <2>1. r \in Request
    BY <1>1 DEF Request
  <2>2. /\ r.op = req[t].op /\ r.at = "query" /\ r.key = req[t].key
        /\ r.snap = req[t].snap /\ r.left = req[t].left /\ r.age = req[t].age
    BY <1>1 DEF Request
  <2>3. Placed(r)
    BY <1>1, <1>3, <2>2 DEF Placed, NoRequest
  <2>4. UNCHANGED <<area, latest, since, entries>> /\ req' = [req EXCEPT ![t] = r]
        /\ entries[req[t].key] = NoEntry
    BY <1>3 DEF Miss, Advance
  <2> HIDE DEF r
  <2>5. Good(r)
    BY <1>1, <1>3, <2>2, <2>4
       DEF Good, CarriedFresh, MissedLately, LookupAgrees, SameLookup
  <2>6. QED
    BY <2>1, <2>3, <2>4, <2>5, RequestStep
<1>4. QED
  BY <1>2, <1>3

LEMMA QueryStep ==
  ASSUME IInv, NEW t \in Threads, Query(t)
  PROVE  IInv'
<1>1. req[t] \in Request /\ Placed(req[t]) /\ req[t].at = "query" /\ Good(req[t])
  BY DEF IInv, TypeOK, Query
<1>2. PICK s \in Snapshots : s = IF req[t].key = "summary" THEN req[t].snap ELSE latest
  BY <1>1 DEF IInv, TypeOK, Request
<1> DEFINE r == [req[t] EXCEPT !.at = "set", !.snap = s]
<1>3. r \in Request
  BY <1>1 DEF Request
<1>4. /\ r.op = req[t].op /\ r.at = "set" /\ r.key = req[t].key
      /\ r.snap = s /\ r.left = req[t].left /\ r.age = req[t].age
  BY <1>1 DEF Request
<1>5. UNCHANGED <<area, latest, since, entries>> /\ req' = [req EXCEPT ![t] = r]
  BY <1>2 DEF Query, Advance
<1> HIDE DEF r
<1>6. Placed(r)
  BY <1>1, <1>4 DEF Placed, NoRequest
<1>7. since[latest] = 0 /\ r.age \in Nat
  BY <1>3, Bounds DEF IInv, TypeOK, Request, Snapshots
<1>8. Good(r)
  <2>1. CASE req[t].key = "summary"
    BY <2>1, <1>1, <1>2, <1>4
       DEF Good, CarriedFresh, MissedLately, LookupAgrees, SameLookup
  <2>2. CASE req[t].key # "summary"
    BY <2>2, <1>1, <1>2, <1>4, <1>7, Bounds
       DEF Good, CarriedFresh, MissedLately, LookupAgrees
  <2>3. QED
    BY <2>1, <2>2
<1>9. QED
  BY <1>3, <1>5, <1>6, <1>8, RequestStep

LEMMA StoreStep ==
  ASSUME IInv, NEW t \in Threads, Store(t)
  PROVE  IInv'
<1> DEFINE k == req[t].key
           s == req[t].snap
           e == [snap |-> s, left |-> Ttl(k)]
<1>1. req[t] \in Request /\ Placed(req[t]) /\ req[t].at = "set" /\ Good(req[t])
  BY DEF IInv, TypeOK, Store
<1>2. k \in Keys /\ s \in Snapshots /\ Ttl(k) \in 1..CACHE_TTL_LONG
  BY <1>1, Ttls DEF Placed, NoRequest, Request, KeysOf, Keys
<1>3. /\ entries' = [entries EXCEPT ![k] = e] /\ Return(t, s, Ttl(k))
      /\ UNCHANGED <<area, latest, since>>
  BY DEF Store
<1>4. e \in Entry /\ e # NoEntry /\ e.snap = s /\ e.left = Ttl(k)
  BY <1>2, EntryIsEntry DEF Entry
<1>5. /\ entries \in [Keys -> Entry \cup {NoEntry}] /\ req \in [Threads -> Request]
      /\ since \in [Snapshots -> 0..MaxAge]
  BY DEF IInv, TypeOK
<1>6. PICK r \in Request :
        /\ Placed(r) /\ req' = [req EXCEPT ![t] = r]
        /\ \/ r = NoRequest
           \/ /\ k = "snapshot" /\ r.key = "summary" /\ r.at = "get"
              /\ r.snap = s /\ r.left = Ttl(k) /\ r.age = req[t].age
           \/ /\ k = "usage" /\ r.key = "counters" /\ r.at = "set"
              /\ r.snap = s /\ r.age = req[t].age
  BY <1>2, <1>3, ReturnGood
<1>7. since[s] \in Nat /\ req[t].age \in 0..MaxDelay
  BY <1>1, <1>2, <1>5, Bounds DEF Request
<1>8. entries'[k] = e /\ \A j \in Keys \ {k} : entries'[j] = entries[j]
  BY <1>2, <1>3, <1>5
<1> HIDE DEF k, s, e
<1>9. TypeOK'
  <2>1. entries' \in [Keys -> Entry \cup {NoEntry}]
    BY <1>2, <1>3, <1>4, <1>5
  <2>2. req' \in [Threads -> Request] /\ \A u \in Threads : Placed(req'[u])
    BY <1>5, <1>6 DEF IInv, TypeOK
  <2>3. QED
    BY <2>1, <2>2, <1>3 DEF IInv, TypeOK
<1>10. EntriesFresh'
  <2>1. since[s] + Ttl(k) <= Oldest(k)
    BY <1>1, <1>2, <1>7, Bounds DEF Good, CarriedFresh, Oldest, Ttl, Keys, k, s
  <2>2. QED
    BY <2>1, <1>2, <1>3, <1>4, <1>8 DEF IInv, EntriesFresh
<1>11. SummaryAgrees'
  <2>1. CASE k = "snapshot"
    <3>1. entries'["snapshot"].left = CACHE_TTL_LONG /\ entries'["summary"] = entries["summary"]
      BY <2>1, <1>4, <1>8 DEF Ttl, Keys
    <3>2. entries["summary"] # NoEntry =>
            entries["summary"].left \in Int /\ entries["summary"].left <= CACHE_TTL_MEDIUM
      BY <1>5, Bounds DEF IInv, EntriesFresh, Ttl, Keys, Entry
    <3>3. QED
      BY <3>1, <3>2, Bounds DEF SummaryAgrees, Cached
  <2>2. CASE k = "summary"
    <3>1. /\ entries'["snapshot"] = entries["snapshot"] /\ entries'["summary"].snap = s
          /\ entries'["summary"].left = CACHE_TTL_MEDIUM
      BY <2>2, <1>4, <1>8 DEF Ttl, Keys
    <3>2. entries["snapshot"] # NoEntry => entries["snapshot"].left \in Int
      BY <1>5, Bounds DEF Entry, Keys
    <3>3. /\ entries["snapshot"] # NoEntry
          /\ Cached(entries["snapshot"].left) > MaxDelay
          => entries["snapshot"].snap = s
      BY <1>1, <1>7, <2>2, <3>2, Bounds DEF Good, LookupAgrees, SameLookup, Cached, k, s
    <3>4. QED
      BY <3>1, <3>2, <3>3, Bounds DEF SummaryAgrees, Cached
  <2>3. CASE k \notin {"snapshot", "summary"}
    <3>1. entries'["snapshot"] = entries["snapshot"] /\ entries'["summary"] = entries["summary"]
      BY <2>3, <1>8 DEF Keys
    <3>2. QED
      BY <3>1 DEF SummaryAgrees, IInv
  <2>4. QED
    BY <2>1, <2>2, <2>3
<1>12. Good(r)'
  <2>1. CASE r = NoRequest
    BY <2>1 DEF Good, CarriedFresh, MissedLately, LookupAgrees, NoRequest
  <2>2. CASE /\ k = "snapshot" /\ r.key = "summary" /\ r.at = "get"
             /\ r.snap = s /\ r.left = Ttl(k) /\ r.age = req[t].age
    <3>1. since[s] <= req[t].age
      BY <1>1, <2>2 DEF Good, CarriedFresh, k, s
    <3>2. QED
      BY <2>2, <3>1, <1>3, <1>4, <1>7, <1>8, Bounds
         DEF Good, CarriedFresh, MissedLately, LookupAgrees, SameLookup
  <2>3. CASE /\ k = "usage" /\ r.key = "counters" /\ r.at = "set"
             /\ r.snap = s /\ r.age = req[t].age
    <3>1. since[s] <= req[t].age
      BY <1>1, <2>3 DEF Good, CarriedFresh, k, s
    <3>2. QED
      BY <2>3, <3>1, <1>3, <1>7, Bounds DEF Good, CarriedFresh, MissedLately, LookupAgrees
  <2>4. QED
    BY <1>6, <2>1, <2>2, <2>3
<1>13. ASSUME NEW u \in Threads \ {t}  PROVE Good(req[u])'
  <2>1. req'[u] = req[u] /\ req[u] \in Request /\ Good(req[u])
    BY <1>5, <1>6 DEF IInv
  <2>2. CarriedFresh(req[u])'
    BY <2>1, <1>3 DEF Good, CarriedFresh
  <2>3. CASE k = "snapshot"
    <3>1. /\ entries'["snapshot"] # NoEntry /\ Cached(entries'["snapshot"].left) = 0
          /\ req[u].age \in Nat /\ req[u].left \in Nat
      BY <2>1, <2>3, <1>4, <1>8, Bounds DEF Ttl, Cached, Request
    <3>2. entries["snapshot"] # NoEntry =>
            Cached(entries["snapshot"].left) <= MaxDelay /\ entries["snapshot"].left \in Int
      BY <2>3, <1>1, <1>5, <1>7, Bounds DEF Good, MissedLately, k, Entry, Keys, Cached
    <3>3. LookupAgrees(req[u])'
      BY <2>1, <3>1, <3>2, Bounds DEF Good, LookupAgrees, SameLookup, Cached
    <3>4. MissedLately(req[u])'
      BY <2>1, <3>1 DEF MissedLately
    <3>5. QED
      BY <2>2, <3>3, <3>4 DEF Good
  <2>4. CASE k # "snapshot"
    <3>1. entries'["snapshot"] = entries["snapshot"]
      BY <2>4, <1>8 DEF Keys
    <3>2. QED
      BY <2>1, <2>2, <3>1 DEF Good, MissedLately, LookupAgrees, SameLookup
  <2>5. QED
    BY <2>3, <2>4
<1>14. \A u \in Threads : Good(req[u])'
  BY <1>5, <1>6, <1>12, <1>13
<1>15. QED
  BY <1>9, <1>10, <1>11, <1>14 DEF IInv

LEMMA InvalidateStep ==
  ASSUME IInv, Invalidate
  PROVE  IInv'
<1>1. entries' \in [Keys -> Entry \cup {NoEntry}]
  BY DEF IInv, TypeOK, Invalidate
<1>2. \A k \in Keys : entries'[k] = IF k \in {"counters", "roster"} THEN NoEntry ELSE entries[k]
  BY DEF IInv, TypeOK, Invalidate
<1>3. UNCHANGED <<area, latest, since, req>>
  BY DEF Invalidate
<1>4. TypeOK'
  BY <1>1, <1>3 DEF IInv, TypeOK
<1>5. EntriesFresh'
  BY <1>2, <1>3 DEF IInv, EntriesFresh
<1>6. UNCHANGED <<entries["snapshot"], entries["summary"]>>
  BY <1>2 DEF Keys
<1>7. SummaryAgrees'
  BY <1>6 DEF IInv, SummaryAgrees
<1>8. \A u \in Threads : Good(req[u])'
  BY <1>3, <1>6 DEF IInv, Good, CarriedFresh, MissedLately, LookupAgrees, SameLookup
<1>9. QED
  BY <1>4, <1>5, <1>7, <1>8 DEF IInv

LEMMA SyncStep ==
  ASSUME IInv, Sync
  PROVE  IInv'
<1>1. UNCHANGED <<area, since, entries, req>> /\ latest' = latest + 1 /\ latest < MaxSnapshots
  BY DEF Sync
<1>2. TypeOK'
  BY <1>1, Bounds DEF IInv, TypeOK, Snapshots
<1>3. QED
  BY <1>1, <1>2 DEF IInv, EntriesFresh, SummaryAgrees, Good, CarriedFresh, MissedLately,
                    LookupAgrees, SameLookup

(* A tick ages snapshots by at most what it takes off the TTLs and adds to requests. *)
LEMMA TickStep ==
  ASSUME IInv, Tick
  PROVE  IInv'
<1>1. /\ entries \in [Keys -> Entry \cup {NoEntry}] /\ req \in [Threads -> Request]
      /\ since \in [Snapshots -> 0..MaxAge]
      /\ \A t \in Threads : Placed(req[t]) /\ Good(req[t])
  BY DEF IInv, TypeOK
<1>2. UNCHANGED <<area, latest>>
  BY DEF Tick
<1>3. /\ since' \in [Snapshots -> 0..MaxAge]
      /\ \A s \in Snapshots : since'[s] \in Nat /\ since[s] \in Nat /\ since'[s] <= since[s] + 1
      /\ \A s \in Snapshots : s >= latest => since'[s] = 0
  <2>1. ASSUME NEW s \in Snapshots
        PROVE  /\ since[s] \in 0..MaxAge
               /\ since'[s] = IF s < latest /\ since[s] < MaxAge THEN since[s] + 1 ELSE since[s]
               /\ s >= latest => since[s] = 0
    BY DEF Tick, IInv, TypeOK
  <2>2. \A s \in Snapshots : since'[s] \in 0..MaxAge /\ since[s] \in 0..MaxAge
    BY <2>1, Bounds
  <2>3. since' \in [Snapshots -> 0..MaxAge]
    BY <2>2 DEF Tick
  <2>4. latest \in Int /\ \A s \in Snapshots : s \in Int
    BY Bounds DEF IInv, TypeOK, Snapshots
  <2>5. QED
    BY <2>1, <2>2, <2>3, <2>4, Bounds
<1>4. ASSUME NEW k \in Keys
      PROVE  /\ entries'[k] \in Entry \cup {NoEntry}
             /\ entries'[k] # NoEntry =>
                  /\ entries[k] # NoEntry /\ entries[k] \in Entry
                  /\ entries'[k].snap = entries[k].snap /\ entries[k].snap \in Snapshots
                  /\ entries'[k].left = entries[k].left - 1 /\ entries[k].left \in Nat
             /\ entries'[k] = NoEntry /\ entries[k] # NoEntry => entries[k].left = 1
  <2>1. CASE entries[k] = NoEntry \/ entries[k].left = 1
    BY <2>1, <1>1 DEF Tick
  <2>2. CASE ~(entries[k] = NoEntry \/ entries[k].left = 1)
    <3> DEFINE e == [entries[k] EXCEPT !.left = @ - 1]
    <3>1. entries[k] \in Entry /\ entries'[k] = e
      BY <2>2, <1>1 DEF Tick
    <3>2. entries[k].left - 1 \in 1..CACHE_TTL_LONG /\ entries[k].left \in Nat
          /\ entries[k].snap \in Snapshots
      BY <3>1, <2>2, Bounds DEF Entry
    <3>3. e \in Entry /\ e.snap = entries[k].snap /\ e.left = entries[k].left - 1
      BY <3>1, <3>2 DEF Entry
    <3> HIDE DEF e
    <3>4. QED
      BY <2>2, <3>1, <3>2, <3>3, EntryIsEntry
  <2>3. QED
    BY <2>1, <2>2
<1>5. ASSUME NEW t \in Threads
      PROVE  /\ req'[t] \in Request /\ Placed(req'[t])
             /\ req[t] = NoRequest => req'[t] = NoRequest
             /\ req[t] # NoRequest =>
                  /\ req'[t].at = req[t].at /\ req'[t].key = req[t].key
                  /\ req'[t].snap = req[t].snap /\ req[t].snap \in Snapshots
                  /\ req[t].age \in Nat /\ req[t].age < MaxDelay /\ req'[t].age = req[t].age + 1
                  /\ req[t].left \in Nat
                  /\ req'[t].left = IF req[t].left = 0 THEN 0 ELSE req[t].left - 1
  <2>1. CASE req[t] = NoRequest
    BY <2>1, IdleGood DEF Tick
  <2>2. CASE req[t] # NoRequest
    <3> DEFINE l == IF req[t].left = 0 THEN 0 ELSE req[t].left - 1
               r == [req[t] EXCEPT !.age = @ + 1, !.left = l]
    <3>1. req'[t] = r /\ req[t] \in Request /\ req[t].age < MaxDelay
      BY <2>2, <1>1 DEF Tick
    <3>2. /\ req[t].age \in Nat /\ req[t].left \in Nat /\ req[t].snap \in Snapshots
          /\ req[t].age + 1 \in 0..MaxDelay /\ l \in 0..CACHE_TTL_LONG
      BY <3>1, Bounds DEF Request
    <3> HIDE DEF l
    <3>3. r \in Request
      BY <3>1, <3>2 DEF Request
    <3>4. /\ r.op = req[t].op /\ r.at = req[t].at /\ r.key = req[t].key
          /\ r.snap = req[t].snap /\ r.age = req[t].age + 1 /\ r.left = l
      BY <3>1 DEF Request
    <3> HIDE DEF r
    <3>5. Placed(r)
      BY <3>4, <2>2, <1>1 DEF Placed
    <3>6. QED
      BY <2>2, <3>1, <3>2, <3>3, <3>4, <3>5 DEF l
  <2>3. QED
    BY <2>1, <2>2
<1>6. TypeOK'
  <2>1. entries' \in [Keys -> Entry \cup {NoEntry}]
    BY <1>4 DEF Tick
  <2>2. req' \in [Threads -> Request]
    BY <1>5 DEF Tick
  <2>3. QED
    BY <2>1, <2>2, <1>2, <1>3, <1>5 DEF IInv, TypeOK
<1>7. EntriesFresh'
  <2> SUFFICES ASSUME NEW k \in Keys, entries'[k] # NoEntry
               PROVE  /\ since'[entries'[k].snap] + entries'[k].left <= Oldest(k)
                      /\ entries'[k].left <= Ttl(k)
    BY DEF EntriesFresh
  <2>1. /\ since[entries[k].snap] + entries[k].left <= Oldest(k)
        /\ entries[k].left <= Ttl(k)
    BY <1>4 DEF IInv, EntriesFresh
  <2>2. Oldest(k) \in Int /\ Ttl(k) \in Int
    BY Bounds DEF Oldest, Ttl, Keys
  <2>3. QED
    BY <2>1, <2>2, <1>3, <1>4
<1>8. SummaryAgrees'
  <2> SUFFICES ASSUME entries'["summary"] # NoEntry, entries'["snapshot"] # NoEntry,
                      Cached(entries'["snapshot"].left)
                        > MaxDelay + CACHE_TTL_MEDIUM - entries'["summary"].left
               PROVE  entries'["summary"].snap = entries'["snapshot"].snap
    BY DEF SummaryAgrees
  <2>1. \A k \in {"summary", "snapshot"} :
          /\ entries[k] # NoEntry /\ entries'[k].snap = entries[k].snap
          /\ entries'[k].left = entries[k].left - 1 /\ entries[k].left \in Nat
    BY <1>4 DEF Keys
  <2>2. Cached(entries["snapshot"].left) > MaxDelay + CACHE_TTL_MEDIUM - entries["summary"].left
    BY <2>1, Bounds DEF Cached
  <2>3. QED
    BY <2>1, <2>2 DEF IInv, SummaryAgrees
<1>9. ASSUME NEW t \in Threads  PROVE Good(req[t])'
  <2>1. CASE req[t] = NoRequest
    BY <2>1, <1>5 DEF Good, CarriedFresh, MissedLately, LookupAgrees, NoRequest
  <2>2. CASE req[t] # NoRequest
    <3>1. CarriedFresh(req[t])'
      BY <2>2, <1>1, <1>3, <1>5, Bounds DEF Good, CarriedFresh
    <3>2. MissedLately(req[t])'
      BY <2>2, <1>1, <1>4, <1>5, Bounds DEF Good, MissedLately, Cached, Keys
    <3>3. ASSUME req[t].key = "summary", entries'["snapshot"] # NoEntry,
                 Cached(entries'["snapshot"].left) > req'[t].age
          PROVE  SameLookup(req[t])'
      <4>1. /\ entries["snapshot"] # NoEntry /\ entries["snapshot"].left \in Nat
            /\ entries'["snapshot"].snap = entries["snapshot"].snap
            /\ entries'["snapshot"].left = entries["snapshot"].left - 1
            /\ entries["snapshot"].left # 0
        BY <3>3, <1>4, Bounds DEF Keys, Entry
      <4>2. SameLookup(req[t])
        BY <2>2, <3>3, <4>1, <1>1, <1>5, Bounds DEF Good, LookupAgrees, Cached
      <4>3. QED
        BY <2>2, <3>3, <4>1, <4>2, <1>5, Bounds DEF SameLookup
    <3>4. ASSUME req[t].key = "summary", req'[t].left > 0
          PROVE  SameLookup(req[t])' \/ Cached(req'[t].left) <= MaxDelay + req'[t].age
      <4>1. /\ req[t].left > 0 /\ req'[t].left = req[t].left - 1 /\ req[t].left \in Nat
            /\ req'[t].snap = req[t].snap /\ req'[t].age = req[t].age + 1 /\ req[t].age \in Nat
        BY <2>2, <3>4, <1>5
      <4>2. CASE SameLookup(req[t])
        <5>1. entries["snapshot"] # NoEntry /\ entries["snapshot"].left # 1
          BY <3>4, <4>1, <4>2 DEF SameLookup
        <5>2. QED
          BY <5>1, <4>1, <4>2, <1>4 DEF SameLookup, Keys
      <4>3. CASE Cached(req[t].left) <= MaxDelay + req[t].age
        BY <4>1, <4>3, Bounds DEF Cached
      <4>4. QED
        BY <3>4, <4>1, <4>2, <4>3, <1>1 DEF Good, LookupAgrees
    <3>5. QED
      BY <2>2, <1>5, <3>1, <3>2, <3>3, <3>4 DEF Good, LookupAgrees
  <2>3. QED
    BY <2>1, <2>2
<1>10. QED
  BY <1>6, <1>7, <1>8, <1>9 DEF IInv

LEMMA InitIInv == Init => IInv
<1> SUFFICES ASSUME Init  PROVE IInv
  OBVIOUS
<1>1. \A t \in Threads : req[t] = NoRequest
  BY DEF Init
<1>2. TypeOK
  BY <1>1, IdleGood, Bounds DEF Init, TypeOK, Snapshots
<1>3. QED
  BY <1>1, <1>2, IdleGood DEF Init, IInv, EntriesFresh, SummaryAgrees, Keys

(* How old entries are, and who has looked up what, at every moment. *)
THEOREM Invariant == Spec => []IInv
<1>1. IInv /\ [Next]_vars => IInv'
  <2> SUFFICES ASSUME IInv, [Next]_vars  PROVE IInv'
    OBVIOUS
  <2>1. ASSUME NEW t \in Threads, Serve(t)  PROVE IInv'
    BY <2>1, StartStep, HitStep, MissStep, QueryStep, StoreStep DEF Serve
  <2>2. CASE UNCHANGED vars
    BY <2>2 DEF vars, IInv, TypeOK, EntriesFresh, SummaryAgrees, Good, CarriedFresh,
                MissedLately, LookupAgrees, SameLookup
  <2>3. QED
    BY <2>1, <2>2, InvalidateStep, SyncStep, TickStep DEF Next
<1>2. QED
  BY <1>1, InitIInv, PTL DEF Spec

(* constants.py:104-106, cache.py:41-49.  Nothing that is shown was out of date for as
   long as the TTLs inside one another and the time of a request for each. *)
THEOREM ShownCurrent == Spec => []ShownWasCurrent
<1>1. IInv => ShownWasCurrent
  <2> SUFFICES ASSUME IInv, NEW k \in Keys, entries[k] # NoEntry
               PROVE  since[entries[k].snap] < Oldest(k)
    BY DEF ShownWasCurrent
  <2>1. entries[k] \in Entry
    BY DEF IInv, TypeOK
  <2>2. since[entries[k].snap] \in Int /\ entries[k].left \in Int /\ entries[k].left >= 1
    BY <2>1, Bounds DEF IInv, TypeOK, Entry
  <2>3. since[entries[k].snap] + entries[k].left <= Oldest(k) /\ Oldest(k) \in Int
    BY Bounds DEF IInv, EntriesFresh, Oldest, Keys
  <2>4. QED
    BY <2>2, <2>3
<1>2. QED
  BY <1>1, Invariant, PTL

(* keywords/repositories.py:153-171.  The strip tells of the snapshot of the list once
   that has been cached for CACHE_TTL_MEDIUM and the time of a request. *)
THEOREM SummaryFollows == Spec => []SummaryFollowsSnapshot
<1>1. IInv => SummaryFollowsSnapshot
  <2> SUFFICES ASSUME IInv, NEW t \in Threads, req[t].key = "summary",
                      entries["summary"] # NoEntry,
                      entries["summary"].snap # req[t].snap, req[t].left > 0,
                      ~(CACHE_TTL_LONG - req[t].left <= CACHE_TTL_MEDIUM + MaxDelay)
               PROVE  FALSE
    BY DEF SummaryFollowsSnapshot
  <2>1. req[t].left \in Int /\ req[t].age \in Int /\ req[t].age <= MaxDelay
    BY Bounds DEF IInv, TypeOK, Request
  <2>2. entries["summary"].left \in Int /\ entries["summary"].left >= 1
    BY Bounds DEF IInv, TypeOK, Entry, Keys
  <2>3. SameLookup(req[t])
    BY <2>1, Bounds DEF IInv, Good, LookupAgrees, Cached
  <2>4. entries["summary"].snap = entries["snapshot"].snap
    BY <2>1, <2>2, <2>3, Bounds DEF IInv, SummaryAgrees, SameLookup, Cached
  <2>5. QED
    BY <2>3, <2>4 DEF SameLookup
<1>2. QED
  BY <1>1, Invariant, PTL
=============================================================================
