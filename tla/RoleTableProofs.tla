--------------------------- MODULE RoleTableProofs ---------------------------
(***************************************************************************)
(* What holds of RoleTable for any pages, codes, keys, threads and caches. *)
(*                                                                         *)
(* In a store where sync_roles has run, however requests overlap and       *)
(* whatever fails, a built-in role is its SystemRow for good: an edit that *)
(* loaded it writes the same row back, and one that loaded another role    *)
(* cannot take its code (CopySound).  So the super admin's grants stay     *)
(* whole (SuperGrants), and so do the tables that are made of them.        *)
(*                                                                         *)
(* When one request follows the other and nothing fails, the thread at     *)
(* work is alone (Alone) and its stage tells what is still to be repaired: *)
(* the cached table (Fresh), the grants (Granting) or the rank (Ranks).    *)
(*                                                                         *)
(* The last section is about RoleScreen: for each page, its requests, its  *)
(* switch and the stored grant stay related (PageInv), whatever goes on    *)
(* for the other pages; and every step of the server there is one of       *)
(* RoleTable.                                                              *)
(***************************************************************************)
EXTENDS RoleScreen, FiniteSetTheorems, TLAPS

Request ==
  [op : {"none", "lookup", "toggle", "edit", "delete", "create", "sync"},
   at : {"idle", "loaded", "granting", "granted", "counted", "written", "syncing"},
   pk : Pks \cup {NoPk}, copy : Row \cup {NoRow}, todo : SUBSET Pages,
   step : 0..Len(BuiltIns), rank : 0..30, table : Table \cup {NoTable}]

StagesOf(op) ==
  CASE op = "none" -> {"idle"}
    [] op = "lookup" -> {"loaded"}
    [] op = "toggle" -> {"loaded", "granted", "counted", "written"}
    [] op \in {"edit", "delete"} -> {"loaded", "written"}
    [] op = "create" -> {"granting", "granted", "counted", "written"}
    [] op = "sync" -> {"syncing", "granting", "written"}

(* The operation and the stage of a request tell what it holds. *)
Placed(r) ==
  /\ r.at \in StagesOf(r.op)
  /\ r.op = "none" => r = NoRequest
  /\ r.op = "lookup" => r.table \in Table /\ r.copy = NoRow
  /\ r.op \in {"toggle", "edit", "delete", "create"} \/ r.at = "granting" => r.copy \in Row
  /\ r.copy # NoRow => r.pk \in Pks
  /\ r.at = "counted" => r.rank \in 1..30

Requests == req \in [Threads -> Request] /\ \A t \in Threads : Placed(req[t])

IInv == TypeOK /\ Requests

-----------------------------------------------------------------------------
(* Overlapping requests. *)

IsSystem(pk) == Live(pk) /\ rows[pk].system

RowsSound ==
  /\ \A c \in BuiltInCodes : \E pk \in Pks : rows[pk] = SystemRow(c)
  /\ \A pk \in Pks : Live(pk) /\ (rows[pk].system \/ rows[pk].code \in BuiltInCodes)
       => rows[pk].code \in BuiltInCodes /\ rows[pk] = SystemRow(rows[pk].code)

(* A request holds a built-in role as it is, or a role that is not built in. *)
CopySound(t) ==
  req[t].copy # NoRow =>
    IF req[t].copy.system THEN IsSystem(req[t].pk) /\ req[t].copy = rows[req[t].pk]
    ELSE ~IsSystem(req[t].pk)

(* Only what may be toggled, deleted or ranked anew is. *)
Unlocked(t) ==
  /\ req[t].op = "toggle" => req[t].copy.code # "SUPER_ADMIN"
  /\ req[t].op \in {"delete", "create"} \/ req[t].at = "counted" => ~req[t].copy.system

(* A row that is not built in, or gone. *)
Plain(row) ==
  row = Deleted \/ (row \in Row /\ ~row.system /\ row.code \notin BuiltInCodes)

SystemInv == RowsSound /\ \A t \in Threads : CopySound(t) /\ Unlocked(t)

SuperGrants ==
  \A pk \in Pks : Live(pk) /\ rows[pk].code = "SUPER_ADMIN" =>
     \A p \in Pages : grants[pk][p] = "allowed"

Whole(table) == Lookup(table, "SUPER_ADMIN").pages = Pages

TablesWhole == \A t \in Threads : req[t].op = "lookup" => Whole(req[t].table)

SuperInv == SuperGrants /\ TablesWhole /\ SuperAdminKeepsEveryPage

-----------------------------------------------------------------------------
(* One request at a time. *)

Reading(t) == req[t].op \in {"none", "lookup"} \/ req[t].at = "loaded"

(* The row that thread t is about to complete. *)
Completing(t, pk) == req[t].at \in {"granting", "granted", "counted"} /\ pk = req[t].pk

Alone(t) ==
  /\ \A u \in Threads \ {t} : req[u] = NoRequest
  /\ \A k \in Caches \ {CacheOf[t]} : cache[k] = NoTable
  /\ online

Fresh(t) ==
  /\ Reading(t) => cache[CacheOf[t]] \in {NoTable, Loaded}
  /\ req[t].op = "lookup" => req[t].table = Loaded

(* Nobody touched the row the request works on. *)
Same(t) ==
  /\ req[t].op \in {"toggle", "edit", "delete", "create"} /\ req[t].at # "written"
       => Live(req[t].pk) /\ req[t].copy = rows[req[t].pk]
  /\ req[t].op = "sync" /\ req[t].at = "granting"
       => Live(req[t].pk) /\ rows[req[t].pk].system

Granting(t) ==
  /\ req[t].at = "granting" => req[t].todo = {p \in Pages : grants[req[t].pk][p] = "none"}
  /\ \A pk \in Pks : Live(pk) /\ ~(req[t].at = "granting" /\ pk = req[t].pk)
       => \A p \in Pages : grants[pk][p] # "none"
  /\ \A pk \in Pks : rows[pk] = NoRow => \A p \in Pages : grants[pk][p] = "none"

RankRight(pk) ==
  Live(pk) /\ ~rows[pk].system => rows[pk].rank = RankOf(Cardinality(GrantedPages(pk)))

Ranks(t) ==
  /\ \A pk \in Pks : Completing(t, pk) \/ RankRight(pk)
  /\ req[t].at = "counted" /\ ~req[t].copy.system
       => req[t].rank = RankOf(Cardinality(GrantedPages(req[t].pk)))

InTurn(t) == Alone(t) /\ Fresh(t) /\ Same(t) /\ Granting(t) /\ Ranks(t)

SerialInv == Serial => \A t \in setting.threads : InTurn(t)

-----------------------------------------------------------------------------
(* The operators of the model. *)

LEMMA RoundInt ==
  ASSUME NEW n \in Nat, NEW d \in Nat \ {0}
  PROVE  Round(n, d) \in Int
<1>1. n \div d \in Int /\ n % d \in Int
  OBVIOUS
<1>2. QED
  BY <1>1 DEF Round

LEMMA PagesFinite ==
  ASSUME TypeOK
  PROVE  Pages \subseteq PageKeys /\ IsFiniteSet(Pages) /\ Cardinality(Pages) \in Nat \ {0}
<1>1. setting \in Setting
  BY SettingsOK DEF TypeOK
<1>2. Pages \subseteq PageKeys /\ Pages # {}
  BY <1>1 DEF Setting, Pages
<1>3. IsFiniteSet(Pages)
  BY <1>2, SettingsOK, FS_Subset
<1>4. Cardinality(Pages) # 0 /\ Cardinality(Pages) \in Nat
  BY <1>2, <1>3, FS_EmptySet, FS_CardinalityType
<1>5. QED
  BY <1>2, <1>3, <1>4

(* A derived rank lies between the built-in ones. *)
LEMMA RankBounds ==
  ASSUME TypeOK, NEW pk
  PROVE  RankOf(Cardinality(GrantedPages(pk))) \in 1..29
<1> DEFINE n == Cardinality(GrantedPages(pk))
           d == Cardinality(Pages)
<1>1. d \in Nat \ {0} /\ IsFiniteSet(Pages)
  BY PagesFinite
<1>2. n \in Nat
  BY <1>1, FS_Subset, FS_CardinalityType DEF GrantedPages
<1> HIDE DEF n, d
<1>3. 25 * n \in Nat
  BY <1>2
<1>4. Round(25 * n, d) + 1 \in Int
  BY <1>1, <1>3, RoundInt
<1>5. Clamp(1, 29, Round(25 * n, d) + 1) \in 1..29
  BY <1>4 DEF Clamp
<1>6. QED
  BY <1>5 DEF RankOf, d, n

LEMMA BaselineValues ==
  /\ \A code : Baseline(code) \in {0, 10, 20, 30}
  /\ Baseline("SUPER_ADMIN") = 30
  /\ \A c \in BuiltInCodes : Baseline(c) \in {10, 20, 30}
<1>1. BuiltInCodes \subseteq {"USER", "ADMIN", "SUPER_ADMIN"}
  BY BuiltInsAreRoles DEF BuiltInCodes
<1>2. QED
  BY <1>1 DEF Baseline

LEMMA SystemRowIsRow ==
  ASSUME NEW c \in BuiltInCodes
  PROVE  /\ SystemRow(c) \in Row
         /\ SystemRow(c).code = c /\ SystemRow(c).system /\ SystemRow(c).active
         /\ SystemRow(c).rank = Baseline(c)
BY BaselineValues DEF SystemRow, Row, Codes

LEMMA DefaultsInTable == Defaults \in Table
<1>1. ASSUME NEW c \in Codes
      PROVE  DefaultEntry(c) \in Entry \cup {NoEntry}
  BY BaselineValues DEF DefaultEntry, Entry
<1>2. QED
  BY <1>1 DEF Defaults, Table

LEMMA LoadedInTable ==
  ASSUME TypeOK
  PROVE  Loaded \in Table
<1> DEFINE active == {pk \in Pks : Live(pk) /\ rows[pk].active}
           EntryOf(pk) == [rank |-> rows[pk].rank, pages |-> GrantedPages(pk)]
           EntryFor(c) == IF active \cap PksOf(c) = {} THEN NoEntry
                    ELSE EntryOf(CHOOSE pk \in active \cap PksOf(c) : TRUE)
<1>1. \A pk \in active : EntryOf(pk) \in Entry
  BY DEF TypeOK, Live, Row, Entry, GrantedPages
<1>2. ASSUME NEW c \in Codes
      PROVE  EntryFor(c) \in Entry \cup {NoEntry}
  <2>1. CASE active \cap PksOf(c) = {}
    BY <2>1
  <2>2. CASE active \cap PksOf(c) # {}
    <3>1. (CHOOSE pk \in active \cap PksOf(c) : TRUE) \in active
      BY <2>2
    <3>2. QED
      BY <1>1, <2>2, <3>1
  <2>3. QED
    BY <2>1, <2>2
<1>3. [c \in Codes |-> EntryFor(c)] \in Table
  BY <1>2 DEF Table
<1>4. QED
  BY <1>3, DefaultsInTable DEF Loaded

(* The table depends on the rows, the grants and the pages alone. *)
LEMMA LoadedKept ==
  ASSUME UNCHANGED <<setting, rows, grants>>
  PROVE  Loaded' = Loaded
BY DEF Loaded, Live, PksOf, GrantedPages, Pages, Defaults, DefaultEntry

-----------------------------------------------------------------------------
(* Types, and where requests are. *)

LEMMA NoRequestGood == NoRequest \in Request /\ Placed(NoRequest)
BY DEF NoRequest, Request, Placed, StagesOf

LEMMA IdleFields ==
  NoRequest.op = "none" /\ NoRequest.at = "idle" /\ NoRequest.copy = NoRow
BY DEF NoRequest

LEMMA PlacedStage ==
  ASSUME NEW r \in Request, Placed(r)
  PROVE  /\ r.at = "idle" => r.op = "none"
         /\ r.at = "granting" => r.op \in {"create", "sync"}
         /\ r.at \in {"granted", "counted"} => r.op \in {"toggle", "create"}
         /\ r.at = "syncing" => r.op = "sync"
         /\ r.at = "loaded" => r.op \in {"lookup", "toggle", "edit", "delete"}
         /\ r.op = "lookup" => r.at = "loaded"
BY DEF Request, Placed, StagesOf

LEMMA AdvanceGood ==
  ASSUME Requests, UNCHANGED setting,
         NEW t \in Threads, NEW r \in Request, Placed(r), Advance(t, r)
  PROVE  Requests'
<1>1. Request' = Request /\ Table' = Table
  BY DEF Request, Table, Entry, Pages
<1>2. \A q : Placed(q)' <=> Placed(q)
  BY <1>1 DEF Placed
<1>3. req' \in [Threads -> Request] /\ \A u \in Threads : req'[u] = r \/ req'[u] = req[u]
  BY DEF Requests, Advance
<1>4. QED
  BY <1>1, <1>2, <1>3 DEF Requests

LEMMA FinishGood ==
  ASSUME Requests, UNCHANGED setting, NEW t \in Threads, Finish(t)
  PROVE  Requests'
BY NoRequestGood, AdvanceGood DEF Finish

(* Every step leaves each request at a stage its operation has. *)
LEMMA RequestsStep ==
  ASSUME IInv, [Next]_vars
  PROVE  Requests'
<1> USE DEF IInv
<1>0. \A t \in Threads : req[t] \in Request /\ Placed(req[t])
  BY DEF Requests
<1>1. ASSUME NEW t \in Threads, LoadTable(t)
      PROVE  Requests'
  <2>1. PICK table \in {Loaded, Defaults} :
           Advance(t, [NoRequest EXCEPT !.op = "lookup", !.at = "loaded", !.table = table])
    BY <1>1 DEF LoadTable
  <2>2. table \in Table
    BY LoadedInTable, DefaultsInTable
  <2> DEFINE r == [NoRequest EXCEPT !.op = "lookup", !.at = "loaded", !.table = table]
  <2>3. r \in Request /\ Placed(r)
    <3>1. r \in Request
      BY <2>2, NoRequestGood DEF Request
    <3>2. r.op = "lookup" /\ r.at = "loaded" /\ r.table = table /\ r.copy = NoRow
      BY DEF NoRequest
    <3> HIDE DEF r
    <3>3. QED
      BY <2>2, <3>1, <3>2 DEF Placed, StagesOf
  <2> HIDE DEF r
  <2>4. QED
    BY <1>1, <2>1, <2>3, AdvanceGood DEF LoadTable, r
<1>2. ASSUME NEW t \in Threads, StoreTable(t) \/ Invalidate(t) \/ Abandon(t)
      PROVE  Requests'
  BY <1>2, FinishGood DEF StoreTable, Invalidate, Abandon
<1>3. ASSUME NEW t \in Threads, Recalculate(t)
      PROVE  Requests'
  <2> DEFINE a == req[t].copy
             rank == IF a.system /\ Baseline(a.code) > 0 THEN Baseline(a.code)
                     ELSE RankOf(Cardinality(GrantedPages(req[t].pk)))
             r == [req[t] EXCEPT !.rank = rank,
                                 !.at = IF rank = a.rank THEN "written" ELSE "counted"]
  <2>1. req[t].op \in {"toggle", "create"} /\ req[t].at = "granted"
    BY <1>0, <1>3, PlacedStage DEF Recalculate
  <2>2. rank \in 1..30
    BY RankBounds, BaselineValues
  <2>3. Advance(t, r)
    BY <1>3 DEF Recalculate
  <2> HIDE DEF rank
  <2>4. r \in Request /\ Placed(r)
    <3>1. r \in Request
      <4>1. rank \in 0..30
        BY <2>2
      <4>2. (IF rank = a.rank THEN "written" ELSE "counted") \in {"written", "counted"}
        OBVIOUS
      <4> HIDE DEF a
      <4>3. QED
        BY <1>0, <4>1, <4>2 DEF Request
    <3>2. /\ r.op = req[t].op /\ r.at \in {"written", "counted"}
          /\ r.copy = req[t].copy /\ r.pk = req[t].pk /\ r.rank \in 1..30
      BY <1>0, <2>2 DEF Request
    <3> HIDE DEF r
    <3>3. QED
      BY <1>0, <2>1, <3>1, <3>2 DEF Placed, StagesOf
  <2> HIDE DEF r
  <2>5. QED
    BY <1>3, <2>3, <2>4, AdvanceGood DEF Recalculate
<1>4. ASSUME NEW t \in Threads, SaveRank(t)
      PROVE  Requests'
  <2> DEFINE r == [req[t] EXCEPT !.at = "written"]
  <2>1. req[t].op \in {"toggle", "create"}
    BY <1>0, <1>4, PlacedStage DEF SaveRank
  <2>2. r \in Request /\ Placed(r)
    BY <1>0, <2>1 DEF Request, Placed, StagesOf
  <2>3. Advance(t, r) \/ Finish(t)
    BY <1>4 DEF SaveRank
  <2> HIDE DEF r
  <2>4. QED
    BY <1>4, <2>2, <2>3, AdvanceGood, FinishGood DEF SaveRank
<1>5. ASSUME NEW t \in Threads, NEW pk \in Pks, NEW op \in {"toggle", "edit", "delete"},
             LoadRole(t, op, pk)
      PROVE  Requests'
  <2> DEFINE r == [NoRequest EXCEPT !.op = op, !.at = "loaded", !.pk = pk, !.copy = rows[pk]]
  <2>1. rows[pk] \in Row
    BY <1>5 DEF LoadRole, Live, TypeOK
  <2>2. r \in Request /\ Placed(r)
    <3>1. r \in Request
      BY <2>1, NoRequestGood DEF Request
    <3>2. r.op = op /\ r.at = "loaded" /\ r.pk = pk /\ r.copy = rows[pk]
      BY DEF NoRequest
    <3> HIDE DEF r
    <3>3. QED
      BY <2>1, <3>1, <3>2 DEF Placed, StagesOf
  <2> HIDE DEF r
  <2>3. QED
    BY <1>5, <2>2, AdvanceGood DEF LoadRole, r
<1>6. ASSUME NEW t \in Threads, NEW p, NEW g, WriteGrant(t, p, g)
      PROVE  Requests'
  <2> DEFINE r == [req[t] EXCEPT !.at = "granted"]
  <2>1. r \in Request /\ Placed(r)
    BY <1>0, <1>6 DEF WriteGrant, Request, Placed, StagesOf
  <2> HIDE DEF r
  <2>2. QED
    BY <1>6, <2>1, AdvanceGood DEF WriteGrant, r
<1>7. ASSUME NEW t \in Threads, (\E c \in Codes, a \in BOOLEAN : SaveRole(t, c, a)) \/ DeleteRole(t)
      PROVE  Requests'
  <2> DEFINE r == [req[t] EXCEPT !.at = "written"]
  <2>1. r \in Request /\ Placed(r)
    BY <1>0, <1>7 DEF SaveRole, DeleteRole, Request, Placed, StagesOf
  <2> HIDE DEF r
  <2>2. QED
    BY <1>7, <2>1, AdvanceGood DEF SaveRole, DeleteRole, r
<1>8. ASSUME NEW t \in Threads, NEW pk \in Pks, NEW c \in Codes, CreateRole(t, pk, c)
      PROVE  Requests'
  <2> DEFINE row == [code |-> c, rank |-> 10, system |-> FALSE, active |-> TRUE]
             r == [NoRequest EXCEPT !.op = "create", !.at = "granting", !.pk = pk,
                                    !.copy = row, !.todo = Pages]
  <2>1. row \in Row
    BY DEF Row
  <2>2. Advance(t, r) /\ UNCHANGED setting
    BY <1>8 DEF CreateRole
  <2> HIDE DEF row
  <2>3. r \in Request /\ Placed(r)
    <3>1. r \in Request
      BY <2>1, NoRequestGood DEF Request
    <3>2. r.op = "create" /\ r.at = "granting" /\ r.pk = pk /\ r.copy = row
      BY DEF NoRequest
    <3> HIDE DEF r
    <3>3. QED
      BY <2>1, <3>1, <3>2 DEF Placed, StagesOf
  <2> HIDE DEF r
  <2>4. QED
    BY <2>2, <2>3, AdvanceGood
<1>9. ASSUME NEW t \in Threads, StartSync(t)
      PROVE  Requests'
  <2> DEFINE r == [NoRequest EXCEPT !.op = "sync", !.at = "syncing"]
  <2>1. r \in Request /\ Placed(r)
    <3>1. r \in Request
      BY NoRequestGood DEF Request
    <3>2. r.op = "sync" /\ r.at = "syncing" /\ r.copy = NoRow
      BY DEF NoRequest
    <3> HIDE DEF r
    <3>3. QED
      BY <3>1, <3>2 DEF Placed, StagesOf
  <2> HIDE DEF r
  <2>2. QED
    BY <1>9, <2>1, AdvanceGood DEF StartSync, r
<1>10. ASSUME NEW t \in Threads, SyncRole(t)
       PROVE  Requests'
  <2> DEFINE code == BuiltIns[req[t].step + 1]
             R(pk, row, todo) == [req[t] EXCEPT !.step = @ + 1, !.at = "granting", !.pk = pk,
                                               !.copy = row, !.todo = todo]
  <2>0. code \in BuiltInCodes /\ req[t].step + 1 \in 0..Len(BuiltIns)
    <3>1. req[t].step \in 0..Len(BuiltIns) /\ req[t].step < Len(BuiltIns)
      BY <1>0, <1>10 DEF SyncRole, Request
    <3>2. Len(BuiltIns) \in Nat
      BY BuiltInsAreRoles
    <3>3. req[t].step + 1 \in 1..Len(BuiltIns)
      BY <3>1, <3>2
    <3>4. QED
      BY <3>2, <3>3 DEF BuiltInCodes
  <2>1. ASSUME NEW pk \in Pks, NEW row \in Row, NEW todo \in SUBSET Pages,
               Advance(t, R(pk, row, todo))
        PROVE  Requests'
    <3>1. R(pk, row, todo) \in Request /\ Placed(R(pk, row, todo))
      BY <1>0, <1>10, <2>0 DEF SyncRole, Request, Placed, StagesOf
    <3>2. UNCHANGED setting
      BY <1>10 DEF SyncRole
    <3> HIDE DEF R
    <3>3. QED
      BY <2>1, <3>1, <3>2, AdvanceGood
  <2>2. CASE PksOf(code) # {}
    <3>1. PICK pk \in PksOf(code) :
             Advance(t, R(pk, rows[pk], {p \in Pages : grants[pk][p] = "none"}))
      BY <1>10, <2>2 DEF SyncRole
    <3>2. pk \in Pks /\ rows[pk] \in Row /\ {p \in Pages : grants[pk][p] = "none"} \in SUBSET Pages
      BY DEF PksOf, Live, TypeOK
    <3> HIDE DEF R, code
    <3>3. QED
      BY <2>1, <3>1, <3>2
  <2>3. CASE PksOf(code) = {}
    <3>1. PICK pk \in Pks : rows[pk] = NoRow /\ Advance(t, R(pk, SystemRow(code), Pages))
      BY <1>10, <2>3 DEF SyncRole
    <3>2. SystemRow(code) \in Row
      BY <2>0, SystemRowIsRow
    <3> HIDE DEF R, code
    <3>3. QED
      BY <2>1, <3>1, <3>2
  <2>4. QED
    BY <2>2, <2>3
<1>11. ASSUME NEW t \in Threads, SyncDone(t)
       PROVE  Requests'
  <2> DEFINE r == [req[t] EXCEPT !.at = "written"]
  <2>1. r \in Request /\ Placed(r)
    BY <1>0, <1>11 DEF SyncDone, Request, Placed, StagesOf
  <2> HIDE DEF r
  <2>2. QED
    BY <1>11, <2>1, AdvanceGood DEF SyncDone, r
<1>12. ASSUME NEW t \in Threads, NEW p \in Pages, CreateGrant(t, p)
       PROVE  Requests'
  <2> DEFINE r == [req[t] EXCEPT !.todo = @ \ {p}]
  <2>1. r \in Request /\ Placed(r)
    <3>1. req[t].op \in {"create", "sync"}
      BY <1>0, <1>12, PlacedStage DEF CreateGrant
    <3>2. QED
      BY <1>0, <1>12, <3>1 DEF CreateGrant, Request, Placed, StagesOf
  <2>2. Advance(t, r) \/ Finish(t)
    BY <1>12 DEF CreateGrant
  <2> HIDE DEF r
  <2>3. QED
    BY <1>12, <2>1, <2>2, AdvanceGood, FinishGood DEF CreateGrant
<1>13. ASSUME NEW t \in Threads, GrantsCreated(t)
       PROVE  Requests'
  <2> DEFINE r == [req[t] EXCEPT !.at = IF req[t].op = "sync" THEN "syncing" ELSE "granted"]
  <2>1. req[t].op \in {"create", "sync"}
    BY <1>0, <1>13, PlacedStage DEF GrantsCreated
  <2>2. r \in Request /\ Placed(r)
    BY <1>0, <1>13, <2>1 DEF GrantsCreated, Request, Placed, StagesOf
  <2> HIDE DEF r
  <2>3. QED
    BY <1>13, <2>2, AdvanceGood DEF GrantsCreated, r
<1>14. ASSUME UNCHANGED <<setting, req>>
       PROVE  Requests'
  <2>1. Request' = Request /\ Table' = Table
    BY <1>14 DEF Request, Table, Entry, Pages
  <2>2. QED
    BY <1>14, <2>1 DEF Requests, Placed
<1>15. setting.threads \subseteq Threads
  BY SettingsOK DEF TypeOK, Setting
<1>16. QED
  BY <1>1, <1>2, <1>3, <1>4, <1>5, <1>6, <1>7, <1>8, <1>9, <1>10, <1>11, <1>12, <1>13, <1>14,
     <1>15
  DEF Next, Check, Write, Expire, CacheUpDown, vars

(* What is stored keeps its types. *)
LEMMA TypeStep ==
  ASSUME IInv, [Next]_vars
  PROVE  TypeOK'
<1> USE DEF IInv
<1> DEFINE Stored ==
      /\ setting' = setting
      /\ rows' \in [Pks -> Row \cup {NoRow, Deleted}]
      /\ grants' \in [Pks -> [Pages -> {"none", "allowed", "denied"}]]
      /\ cache' \in [Caches -> Table \cup {NoTable}]
      /\ online' \in BOOLEAN
<1>0. \A t \in Threads : req[t] \in Request /\ Placed(req[t])
  BY DEF Requests
<1>1. ASSUME NEW t \in Threads,
             \/ LoadTable(t) \/ Recalculate(t) \/ StartSync(t) \/ SyncDone(t)
             \/ GrantsCreated(t) \/ Abandon(t)
             \/ \E pk \in Pks : \E op : LoadRole(t, op, pk)
      PROVE  Stored
  BY <1>1 DEF TypeOK, LoadTable, Recalculate, StartSync, SyncDone, GrantsCreated, Abandon, LoadRole
<1>2. ASSUME NEW t \in Threads, StoreTable(t) \/ Invalidate(t)
      PROVE  Stored
  <2>1. CASE StoreTable(t)
    <3>1. req[t].table \in Table
      BY <1>0, <2>1 DEF StoreTable, Placed
    <3>2. QED
      BY <2>1, <3>1 DEF TypeOK, StoreTable
  <2>2. CASE Invalidate(t)
    BY <2>2 DEF TypeOK, Invalidate
  <2>3. QED
    BY <1>2, <2>1, <2>2
<1>3. ASSUME NEW t \in Threads, SaveRank(t)
      PROVE  Stored
  <2>1. req[t].rank \in 1..30
    BY <1>0, <1>3 DEF SaveRank, Placed
  <2>2. CASE Live(req[t].pk) /\ req[t].pk \in Pks
    <3>1. [rows[req[t].pk] EXCEPT !.rank = req[t].rank] \in Row
      BY <2>1, <2>2 DEF TypeOK, Live, Row
    <3>2. QED
      BY <1>3, <2>2, <3>1 DEF TypeOK, SaveRank
  <2>3. CASE req[t].pk \notin Pks
    BY <1>3, <2>3 DEF TypeOK, SaveRank
  <2>4. CASE ~Live(req[t].pk)
    BY <1>3, <2>4 DEF TypeOK, SaveRank
  <2>5. QED
    BY <2>2, <2>3, <2>4
<1>4. ASSUME NEW t \in Threads, NEW p \in Pages, NEW g \in {"allowed", "denied"},
             WriteGrant(t, p, g)
      PROVE  Stored
  BY <1>4 DEF TypeOK, WriteGrant
<1>5. ASSUME NEW t \in Threads, NEW c \in Codes, NEW a \in BOOLEAN, SaveRole(t, c, a)
      PROVE  Stored
  <2>1. [req[t].copy EXCEPT !.code = c, !.active = a] \in Row
    BY <1>0, <1>5 DEF SaveRole, Placed, Row
  <2>2. QED
    BY <1>5, <2>1 DEF TypeOK, SaveRole
<1>6. ASSUME NEW t \in Threads, DeleteRole(t)
      PROVE  Stored
  BY <1>6 DEF TypeOK, DeleteRole
<1>7. ASSUME NEW t \in Threads, NEW pk \in Pks, NEW c \in Codes, CreateRole(t, pk, c)
      PROVE  Stored
  <2>1. [code |-> c, rank |-> 10, system |-> FALSE, active |-> TRUE] \in Row
    BY DEF Row
  <2>2. QED
    BY <1>7, <2>1 DEF TypeOK, CreateRole
<1>8. ASSUME NEW t \in Threads, SyncRole(t)
      PROVE  Stored
  <2> DEFINE code == BuiltIns[req[t].step + 1]
  <2>1. code \in BuiltInCodes
    <3>1. req[t].step \in 0..Len(BuiltIns) /\ req[t].step < Len(BuiltIns)
      BY <1>0, <1>8 DEF SyncRole, Request
    <3>2. Len(BuiltIns) \in Nat
      BY BuiltInsAreRoles
    <3>3. req[t].step + 1 \in 1..Len(BuiltIns)
      BY <3>1, <3>2
    <3>4. QED
      BY <3>3 DEF BuiltInCodes
  <2>2. ASSUME NEW pk \in Pks, NEW row \in Row, rows' = [rows EXCEPT ![pk] = row]
        PROVE  Stored
    BY <1>8, <2>2 DEF TypeOK, SyncRole
  <2>3. CASE PksOf(code) # {}
    <3>1. PICK pk \in PksOf(code) : rows' = [rows EXCEPT ![pk].system = TRUE]
      BY <1>8, <2>3 DEF SyncRole
    <3>2. pk \in Pks /\ rows[pk] \in Row
      BY DEF PksOf, Live, TypeOK
    <3>3. [rows[pk] EXCEPT !.system = TRUE] \in Row
      BY <3>2 DEF Row
    <3>4. QED
      BY <2>2, <3>1, <3>2, <3>3
  <2>4. CASE PksOf(code) = {}
    <3>1. PICK pk \in Pks : rows' = [rows EXCEPT ![pk] = SystemRow(code)]
      BY <1>8, <2>4 DEF SyncRole
    <3>2. SystemRow(code) \in Row
      BY <2>1, SystemRowIsRow
    <3> HIDE DEF code
    <3>3. QED
      BY <2>2, <3>1, <3>2
  <2>5. QED
    BY <2>3, <2>4
<1>9. ASSUME NEW t \in Threads, NEW p \in Pages, CreateGrant(t, p)
      PROVE  Stored
  <2>1. \A c : DefaultGrant(p, c) \in {"allowed", "denied"}
    BY DEF DefaultGrant
  <2>2. QED
    BY <1>9, <2>1 DEF TypeOK, CreateGrant
<1>10. ASSUME CacheUpDown \/ (\E k \in Caches : Expire(k)) \/ UNCHANGED vars
       PROVE  Stored
  BY <1>10 DEF TypeOK, CacheUpDown, Expire, vars
<1>11. setting.threads \subseteq Threads
  BY SettingsOK DEF TypeOK, Setting
<1>12. Stored
  <2> HIDE DEF Stored
  <2>1. QED
    BY <1>1, <1>2, <1>3, <1>4, <1>5, <1>6, <1>7, <1>8, <1>9, <1>10, <1>11
    DEF Next, Check, Write
<1>13. Pages' = Pages /\ Table' = Table
  BY <1>12 DEF Pages, Table, Entry
<1>14. Requests'
  BY RequestsStep
<1>15. QED
  BY <1>12, <1>13, <1>14 DEF TypeOK, Requests, Request, Handlers

LEMMA InitIInv == Init => IInv
<1> SUFFICES ASSUME Init PROVE IInv
  OBVIOUS
<1>1. \A pk \in Pks : rows[pk] = NoRow
                      \/ (rows[pk] \in Row /\ \E c \in BuiltInCodes : rows[pk] = SystemRow(c))
  BY SystemRowIsRow DEF Init
<1>2. rows \in [Pks -> Row \cup {NoRow, Deleted}]
  BY <1>1 DEF Init
<1>3. \A p \in Pages : \A c : DefaultGrant(p, c) \in {"allowed", "denied"}
  BY DEF DefaultGrant
<1>4. grants \in [Pks -> [Pages -> {"none", "allowed", "denied"}]]
  BY <1>3 DEF Init
<1>5. Requests
  BY NoRequestGood DEF Init, Requests
<1>6. TypeOK
  BY <1>2, <1>4, <1>5 DEF Init, TypeOK, Requests, Request, Handlers
<1>7. QED
  BY <1>5, <1>6 DEF IInv

(* The types of the variables, and where requests are, hold throughout. *)
THEOREM Invariant == Spec => []IInv
<1>1. IInv /\ [Next]_vars => IInv'
  BY TypeStep, RequestsStep DEF IInv
<1>2. QED
  BY InitIInv, <1>1, PTL DEF Spec

(* Roles, grants, tables and requests keep their types, for any pages, codes,
   keys, threads and caches, whatever overlaps or fails. *)
THEOREM Types == Spec => []TypeOK
<1>1. IInv => TypeOK
  BY DEF IInv
<1>2. QED
  BY Invariant, <1>1, PTL

-----------------------------------------------------------------------------
(* Built-in roles. *)

LEMMA RowIsLive ==
  ASSUME NEW pk \in Pks, rows[pk] \in Row
  PROVE  Live(pk)
BY NoRowIsNoRow DEF Live

(* A code that is built in is taken. *)
LEMMA CodeTaken ==
  ASSUME SystemInv, NEW c \in BuiltInCodes
  PROVE  \E q \in PksOf(c) : IsSystem(q)
<1>1. PICK q \in Pks : rows[q] = SystemRow(c)
  BY DEF SystemInv, RowsSound
<1>2. QED
  BY <1>1, SystemRowIsRow, RowIsLive DEF PksOf, IsSystem

LEMMA PlainRow ==
  ASSUME IInv, SystemInv, NEW pk \in Pks, Live(pk), ~IsSystem(pk)
  PROVE  rows[pk] \in Row /\ Plain(rows[pk])
<1>1. rows[pk] \in Row /\ ~rows[pk].system
  BY DEF IInv, TypeOK, Live, IsSystem
<1>2. rows[pk].code \notin BuiltInCodes
  BY <1>1, SystemRowIsRow DEF SystemInv, RowsSound
<1>3. QED
  BY <1>1, <1>2 DEF Plain

(* The code that SyncRole looks for. *)
LEMMA SyncedCode ==
  ASSUME IInv, NEW t \in Threads, SyncRole(t)
  PROVE  BuiltIns[req[t].step + 1] \in BuiltInCodes
<1>1. req[t].step \in 0..Len(BuiltIns) /\ req[t].step < Len(BuiltIns)
  BY DEF SyncRole, IInv, Requests, Request
<1>2. Len(BuiltIns) \in Nat
  BY BuiltInsAreRoles
<1>3. req[t].step + 1 \in 1..Len(BuiltIns)
  BY <1>1, <1>2
<1>4. QED
  BY <1>3 DEF BuiltInCodes

(* Where sync_roles has run already, it changes no row. *)
LEMMA SyncFinds ==
  ASSUME IInv, SystemInv, NEW t \in Threads, SyncRole(t)
  PROVE  /\ UNCHANGED rows
         /\ \E pk \in Pks : /\ IsSystem(pk)
                            /\ req'[t].copy = rows[pk] /\ req'[t].pk = pk
                            /\ req'[t].op = "sync" /\ req'[t].at = "granting"
                            /\ \A u \in Threads \ {t} : req'[u] = req[u]
<1> DEFINE code == BuiltIns[req[t].step + 1]
<1>1. code \in BuiltInCodes
  BY SyncedCode
<1>2. PksOf(code) # {}
  BY <1>1, CodeTaken
<1>3. PICK pk \in PksOf(code) :
         /\ rows' = [rows EXCEPT ![pk].system = TRUE]
         /\ Advance(t, [req[t] EXCEPT !.step = @ + 1, !.at = "granting", !.pk = pk,
                          !.copy = rows[pk], !.todo = {p \in Pages : grants[pk][p] = "none"}])
  BY <1>2 DEF SyncRole
<1>4. pk \in Pks /\ IsSystem(pk) /\ rows[pk] = SystemRow(rows[pk].code)
  <2>1. pk \in Pks /\ Live(pk) /\ rows[pk].code \in BuiltInCodes
    BY <1>1 DEF PksOf
  <2>2. QED
    BY <2>1, SystemRowIsRow DEF SystemInv, RowsSound, IsSystem
<1>5. [rows[pk] EXCEPT !.system = TRUE] = rows[pk]
  <2>1. rows[pk] \in Row /\ rows[pk].system = TRUE
    BY <1>4, <1>1 DEF IInv, TypeOK, IsSystem, Live, Row
  <2>2. QED
    BY <2>1 DEF Row
<1>6. UNCHANGED rows
  BY <1>3, <1>5 DEF IInv, TypeOK
<1>7. /\ req'[t].copy = rows[pk] /\ req'[t].pk = pk
      /\ req'[t].op = "sync" /\ req'[t].at = "granting"
      /\ \A u \in Threads \ {t} : req'[u] = req[u]
  <2> DEFINE r == [req[t] EXCEPT !.step = @ + 1, !.at = "granting", !.pk = pk,
                     !.copy = rows[pk], !.todo = {p \in Pages : grants[pk][p] = "none"}]
  <2>1. r.copy = rows[pk] /\ r.pk = pk /\ r.op = "sync" /\ r.at = "granting"
    BY DEF IInv, Requests, Request, SyncRole
  <2>2. req' = [req EXCEPT ![t] = r]
    BY <1>3 DEF Advance
  <2> HIDE DEF r
  <2>3. QED
    BY <2>1, <2>2 DEF IInv, Requests
<1>8. QED
  BY <1>4, <1>6, <1>7

(* A step leaves a built-in row alone, and makes of another one nothing built in. *)
LEMMA RowEffect ==
  ASSUME IInv, SystemInv, [Next]_vars, NEW pk \in Pks
  PROVE  rows'[pk] = rows[pk] \/ (~IsSystem(pk) /\ Plain(rows'[pk]))
<1> DEFINE Kept == rows'[pk] = rows[pk] \/ (~IsSystem(pk) /\ Plain(rows'[pk]))
<1>0. /\ \A t \in Threads : req[t] \in Request /\ Placed(req[t])
      /\ \A t \in Threads : CopySound(t) /\ Unlocked(t)
      /\ rows \in [Pks -> Row \cup {NoRow, Deleted}]
  BY DEF IInv, Requests, SystemInv, TypeOK
<1>1. ASSUME NEW t \in Threads, SaveRank(t)
      PROVE  Kept
  <2>1. req[t].copy \in Row /\ req[t].pk \in Pks /\ req[t].rank \in 1..30
    BY <1>0, <1>1, PlacedStage, NoRowIsNoRow DEF SaveRank, Placed
  <2>2. ~IsSystem(req[t].pk)
    BY <1>0, <1>1, <2>1, NoRowIsNoRow DEF SaveRank, CopySound, Unlocked
  <2>3. CASE pk = req[t].pk /\ Live(pk)
    <3>1. rows[pk] \in Row /\ Plain(rows[pk])
      BY <2>2, <2>3, PlainRow
    <3>2. rows'[pk] = [rows[pk] EXCEPT !.rank = req[t].rank]
      BY <1>0, <1>1, <2>3 DEF SaveRank
    <3>3. rows[pk] # Deleted
      BY <2>3 DEF Live
    <3>4. rows'[pk] \in Row /\ ~rows'[pk].system /\ rows'[pk].code = rows[pk].code
      BY <2>1, <3>1, <3>2, <3>3 DEF Plain, Row
    <3>5. QED
      BY <2>2, <2>3, <3>1, <3>3, <3>4 DEF Plain
  <2>4. CASE ~(pk = req[t].pk /\ Live(pk))
    BY <1>0, <1>1, <2>1, <2>4 DEF SaveRank
  <2>5. QED
    BY <2>3, <2>4
<1>2. ASSUME NEW t \in Threads, NEW c \in Codes, NEW a \in BOOLEAN, SaveRole(t, c, a)
      PROVE  Kept
  <2> DEFINE q == req[t].pk
             copy == req[t].copy
             row == [copy EXCEPT !.code = c, !.active = a]
  <2>1. copy \in Row /\ q \in Pks
    BY <1>0, <1>2, NoRowIsNoRow DEF SaveRole, Placed
  <2>2. rows' = [rows EXCEPT ![q] = row]
    BY <1>2 DEF SaveRole
  <2>3. CASE copy.system
    <3>1. rows[q] = copy /\ c = copy.code /\ a = copy.active
      BY <1>0, <1>2, <2>1, <2>3, NoRowIsNoRow DEF SaveRole, CopySound
    <3>2. row = copy
      BY <2>1, <3>1 DEF Row
    <3> HIDE DEF row
    <3>3. QED
      BY <1>0, <2>2, <3>1, <3>2
  <2>4. CASE ~copy.system
    <3>1. ~IsSystem(q) /\ PksOf(c) \subseteq {q}
      BY <1>0, <1>2, <2>1, <2>4, NoRowIsNoRow DEF SaveRole, CopySound
    <3>2. c \notin BuiltInCodes
      BY <3>1, CodeTaken
    <3>3. row \in Row /\ ~row.system /\ row.code = c
      BY <2>1, <2>4 DEF Row
    <3> HIDE DEF row
    <3>4. QED
      BY <1>0, <2>2, <3>1, <3>2, <3>3 DEF Plain
  <2>5. QED
    BY <2>3, <2>4
<1>3. ASSUME NEW t \in Threads, DeleteRole(t)
      PROVE  Kept
  <2>1. req[t].copy \in Row /\ req[t].pk \in Pks /\ ~req[t].copy.system
    BY <1>0, <1>3, NoRowIsNoRow DEF DeleteRole, Placed, Unlocked
  <2>2. ~IsSystem(req[t].pk)
    BY <1>0, <2>1, NoRowIsNoRow DEF CopySound
  <2>3. QED
    BY <1>0, <1>3, <2>2 DEF DeleteRole, Plain
<1>4. ASSUME NEW t \in Threads, NEW q \in Pks, NEW c \in Codes, CreateRole(t, q, c)
      PROVE  Kept
  <2> DEFINE row == [code |-> c, rank |-> 10, system |-> FALSE, active |-> TRUE]
  <2>1. ~IsSystem(q) /\ PksOf(c) = {} /\ rows' = [rows EXCEPT ![q] = row]
    BY <1>4 DEF CreateRole, IsSystem, Live
  <2>2. c \notin BuiltInCodes
    BY <2>1, CodeTaken
  <2>3. row \in Row /\ ~row.system /\ row.code = c
    BY DEF Row
  <2> HIDE DEF row
  <2>4. QED
    BY <1>0, <2>1, <2>2, <2>3 DEF Plain
<1>5. ASSUME NEW t \in Threads, SyncRole(t)
      PROVE  Kept
  BY <1>5, SyncFinds
<1>6. ASSUME NEW t \in Threads,
             \/ Check(t) \/ StartSync(t) \/ SyncDone(t) \/ GrantsCreated(t)
             \/ Recalculate(t) \/ Invalidate(t) \/ Abandon(t)
             \/ \E q \in Pks : \E op : LoadRole(t, op, q)
             \/ \E p, g : WriteGrant(t, p, g)
             \/ \E p : CreateGrant(t, p)
      PROVE  Kept
  BY <1>6 DEF Check, LoadTable, StoreTable, StartSync, SyncDone, GrantsCreated, Recalculate,
              Invalidate, Abandon, LoadRole, WriteGrant, CreateGrant
<1>7. ASSUME CacheUpDown \/ (\E k \in Caches : Expire(k)) \/ UNCHANGED vars
      PROVE  Kept
  BY <1>7 DEF CacheUpDown, Expire, vars
<1>8. setting.threads \subseteq Threads
  BY SettingsOK DEF IInv, TypeOK, Setting
<1> HIDE DEF Kept
<1>9. Kept
  BY <1>1, <1>2, <1>3, <1>4, <1>5, <1>6, <1>7, <1>8 DEF Next, Write
<1>10. QED
  BY <1>9 DEF Kept

(* A step keeps the rows sound. *)
LEMMA RowsSoundStep ==
  ASSUME IInv, SystemInv, [Next]_vars
  PROVE  RowsSound'
<1>1. ASSUME NEW c \in BuiltInCodes
      PROVE  \E pk \in Pks : rows'[pk] = SystemRow(c)
  <2>1. PICK pk \in Pks : rows[pk] = SystemRow(c)
    BY DEF SystemInv, RowsSound
  <2>2. IsSystem(pk)
    BY <2>1, SystemRowIsRow, RowIsLive DEF IsSystem
  <2>3. QED
    BY <2>1, <2>2, RowEffect
<1>2. ASSUME NEW pk \in Pks, Live(pk)', rows'[pk].system \/ rows'[pk].code \in BuiltInCodes
      PROVE  rows'[pk].code \in BuiltInCodes /\ rows'[pk] = SystemRow(rows'[pk].code)
  <2>1. rows'[pk] = rows[pk]
    BY <1>2, RowEffect DEF Live, Plain
  <2>2. Live(pk)
    BY <1>2, <2>1 DEF Live
  <2>3. QED
    BY <1>2, <2>1, <2>2 DEF SystemInv, RowsSound
<1>3. QED
  BY <1>1, <1>2 DEF RowsSound

(* What a request holds stays sound whatever other requests write. *)
LEMMA CopyKept ==
  ASSUME IInv, SystemInv, [Next]_vars, NEW t \in Threads,
         req'[t].copy = NoRow \/ (req'[t].copy = req[t].copy /\ req'[t].pk = req[t].pk)
  PROVE  CopySound(t)'
<1>1. CASE req'[t].copy = NoRow
  BY <1>1 DEF CopySound
<1>2. CASE req[t].copy # NoRow /\ req'[t].copy = req[t].copy /\ req'[t].pk = req[t].pk
  <2> DEFINE pk == req[t].pk
  <2>1. pk \in Pks /\ CopySound(t)
    BY <1>2 DEF IInv, Requests, Placed, SystemInv
  <2>2. rows'[pk] = rows[pk] \/ (~IsSystem(pk) /\ Plain(rows'[pk]))
    BY <2>1, RowEffect
  <2>3. CASE req[t].copy.system
    <3>1. IsSystem(pk) /\ req[t].copy = rows[pk]
      BY <1>2, <2>1, <2>3 DEF CopySound
    <3>2. rows'[pk] = rows[pk] /\ IsSystem(pk)'
      BY <2>2, <3>1, <1>2 DEF IsSystem, Live
    <3>3. QED
      BY <1>2, <2>3, <3>1, <3>2 DEF CopySound
  <2>4. CASE ~req[t].copy.system
    <3>1. ~IsSystem(pk)
      BY <1>2, <2>1, <2>4 DEF CopySound
    <3>2. ~(rows'[pk] \notin {NoRow, Deleted} /\ rows'[pk].system)
      BY <2>2, <3>1 DEF IsSystem, Live, Plain
    <3>3. QED
      BY <1>2, <2>4, <3>2 DEF CopySound, IsSystem, Live
  <2>5. QED
    BY <2>3, <2>4
<1>3. QED
  BY <1>1, <1>2

(* No request comes to hold a stale built-in row. *)
LEMMA CopiesStep ==
  ASSUME IInv, SystemInv, [Next]_vars, NEW u \in Threads
  PROVE  CopySound(u)' /\ Unlocked(u)'
<1> USE DEF Advance, Finish
<1>0. /\ req \in [Threads -> Request]
      /\ \A t \in Threads : req[t] \in Request /\ Placed(req[t])
      /\ \A t \in Threads : CopySound(t) /\ Unlocked(t)
      /\ rows \in [Pks -> Row \cup {NoRow, Deleted}]
  BY DEF IInv, Requests, SystemInv, TypeOK
<1>1. ASSUME req'[u] = req[u] \/ req'[u] = NoRequest \/ req'[u].op = "lookup"
                 \/ (req'[u].op = "sync" /\ req'[u].copy = NoRow)
      PROVE  CopySound(u)' /\ Unlocked(u)'
  <2>1. Requests'
    BY RequestsStep
  <2>2. req'[u] = req[u] \/ (req'[u].copy = NoRow /\ req'[u].op \in {"none", "lookup", "sync"}
                               /\ req'[u].at # "counted")
    BY <1>1, <2>1 DEF Requests, Placed, StagesOf, NoRequest
  <2>3. QED
    BY <1>0, <2>2, CopyKept DEF Unlocked
<1>2. ASSUME NEW t \in Threads, u # t, \E r : Advance(t, r)
      PROVE  CopySound(u)' /\ Unlocked(u)'
  BY <1>0, <1>1, <1>2
<1>3. ASSUME NEW t \in Threads,
             StoreTable(t) \/ Invalidate(t) \/ Abandon(t)
      PROVE  CopySound(u)' /\ Unlocked(u)'
  BY <1>0, <1>1, <1>3 DEF StoreTable, Invalidate, Abandon
<1>4. ASSUME NEW t \in Threads, LoadTable(t)
      PROVE  CopySound(u)' /\ Unlocked(u)'
  BY <1>0, <1>1, <1>4 DEF LoadTable, NoRequest
<1>5. ASSUME NEW t \in Threads, StartSync(t)
      PROVE  CopySound(u)' /\ Unlocked(u)'
  BY <1>0, <1>1, <1>5 DEF StartSync, NoRequest
<1>6. ASSUME NEW t \in Threads, NEW pk \in Pks, NEW op \in {"toggle", "edit", "delete"},
             LoadRole(t, op, pk)
      PROVE  CopySound(u)' /\ Unlocked(u)'
  <2>1. CASE u = t
    <3>1. req'[t].op = op /\ req'[t].copy = rows[pk] /\ req'[t].pk = pk /\ req'[t].at = "loaded"
      BY <1>0, <1>6 DEF LoadRole, NoRequest
    <3>2. UNCHANGED rows /\ Live(pk)
      BY <1>6 DEF LoadRole
    <3>3. CopySound(t)'
      BY <3>1, <3>2 DEF CopySound, IsSystem, Live
    <3>4. Unlocked(t)'
      BY <1>6, <3>1 DEF LoadRole, Unlocked
    <3>5. QED
      BY <2>1, <3>3, <3>4
  <2>2. QED
    BY <1>2, <1>6, <2>1 DEF LoadRole
<1>7. ASSUME NEW t \in Threads, NEW pk \in Pks, NEW c \in Codes, CreateRole(t, pk, c)
      PROVE  CopySound(u)' /\ Unlocked(u)'
  <2>1. CASE u = t
    <3> DEFINE row == [code |-> c, rank |-> 10, system |-> FALSE, active |-> TRUE]
    <3>1. /\ req'[t].op = "create" /\ req'[t].at = "granting"
          /\ req'[t].copy = row /\ req'[t].pk = pk /\ rows'[pk] = row
      BY <1>0, <1>7 DEF CreateRole, NoRequest
    <3>2. QED
      BY <2>1, <3>1 DEF CopySound, IsSystem, Unlocked
  <2>2. QED
    BY <1>2, <1>7, <2>1 DEF CreateRole
<1>8. ASSUME NEW t \in Threads, SyncRole(t)
      PROVE  CopySound(u)' /\ Unlocked(u)'
  <2>1. PICK pk \in Pks : /\ IsSystem(pk)
                          /\ req'[t].copy = rows[pk] /\ req'[t].pk = pk
                          /\ req'[t].op = "sync" /\ req'[t].at = "granting"
                          /\ \A v \in Threads \ {t} : req'[v] = req[v]
    BY <1>8, SyncFinds
  <2>2. UNCHANGED rows
    BY <1>8, SyncFinds
  <2>3. CASE u = t
    BY <2>1, <2>2, <2>3 DEF CopySound, IsSystem, Live, Unlocked
  <2>4. QED
    BY <1>1, <2>1, <2>3
<1>9. ASSUME NEW t \in Threads,
             \/ \E p, g : WriteGrant(t, p, g)
             \/ \E c, a : SaveRole(t, c, a)
             \/ DeleteRole(t) \/ SyncDone(t) \/ GrantsCreated(t)
      PROVE  CopySound(u)' /\ Unlocked(u)'
  <2>1. CASE u = t
    <3>1. /\ req'[t].op = req[t].op /\ req'[t].at # "counted"
          /\ req'[t].copy = req[t].copy /\ req'[t].pk = req[t].pk
      <4>1. PICK s \in {"granted", "written", "syncing"} :
               req' = [req EXCEPT ![t] = [req[t] EXCEPT !.at = s]]
        BY <1>9 DEF WriteGrant, SaveRole, DeleteRole, SyncDone, GrantsCreated
      <4>2. QED
        BY <1>0, <4>1 DEF Request
    <3>2. QED
      BY <1>0, <2>1, <3>1, CopyKept DEF Unlocked
  <2>2. QED
    BY <1>2, <1>9, <2>1 DEF WriteGrant, SaveRole, DeleteRole, SyncDone, GrantsCreated
<1>10. ASSUME NEW t \in Threads, (\E p : CreateGrant(t, p)) \/ SaveRank(t)
       PROVE  CopySound(u)' /\ Unlocked(u)'
  <2>1. CASE u = t /\ ~Finish(t)
    <3>1. /\ req'[t].op = req[t].op /\ (req'[t].at = "counted" => req[t].at = "counted")
          /\ req'[t].copy = req[t].copy /\ req'[t].pk = req[t].pk
      <4>1. CASE req' = [req EXCEPT ![t] = [req[t] EXCEPT !.at = "written"]]
        BY <1>0, <4>1 DEF Request
      <4>2. ASSUME NEW p, req' = [req EXCEPT ![t] = [req[t] EXCEPT !.todo = @ \ {p}]]
            PROVE  /\ req'[t].op = req[t].op /\ req'[t].at = req[t].at
                   /\ req'[t].copy = req[t].copy /\ req'[t].pk = req[t].pk
        BY <1>0, <4>2 DEF Request
      <4>3. QED
        BY <1>10, <2>1, <4>1, <4>2 DEF CreateGrant, SaveRank
    <3>2. QED
      BY <1>0, <2>1, <3>1, CopyKept DEF Unlocked
  <2>2. CASE Finish(t)
    BY <1>0, <1>1, <2>2
  <2>3. QED
    BY <1>2, <1>10, <2>1, <2>2 DEF CreateGrant, SaveRank
<1>11. ASSUME NEW t \in Threads, Recalculate(t)
       PROVE  CopySound(u)' /\ Unlocked(u)'
  <2>1. CASE u = t
    <3>1. req[t].copy \in Row /\ req[t].op \in {"toggle", "create"}
      BY <1>0, <1>11, PlacedStage DEF Recalculate, Placed
    <3>2. /\ req'[t].op = req[t].op
          /\ req'[t].copy = req[t].copy /\ req'[t].pk = req[t].pk
      BY <1>0, <1>11 DEF Recalculate, Request
    <3>3. req[t].copy.system => req'[t].at = "written"
      <4>1. SUFFICES ASSUME req[t].copy.system
                     PROVE  req'[t].at = "written"
        OBVIOUS
      <4>2. req[t].copy = SystemRow(req[t].copy.code) /\ req[t].copy.code \in BuiltInCodes
        BY <1>0, <3>1, <4>1, NoRowIsNoRow
        DEF CopySound, IsSystem, SystemInv, RowsSound, IInv, Requests, Placed
      <4>3. req[t].copy.rank = Baseline(req[t].copy.code) /\ Baseline(req[t].copy.code) > 0
        BY <4>2, SystemRowIsRow, BaselineValues
      <4>4. QED
        BY <1>0, <1>11, <4>1, <4>3 DEF Recalculate, Request
    <3>4. QED
      BY <1>0, <2>1, <3>2, <3>3, CopyKept DEF Unlocked
  <2>2. QED
    BY <1>2, <1>11, <2>1 DEF Recalculate
<1>12. ASSUME CacheUpDown \/ (\E k \in Caches : Expire(k)) \/ UNCHANGED vars
       PROVE  CopySound(u)' /\ Unlocked(u)'
  BY <1>1, <1>12 DEF CacheUpDown, Expire, vars
<1>13. setting.threads \subseteq Threads
  BY SettingsOK DEF IInv, TypeOK, Setting
<1>14. QED
  BY <1>3, <1>4, <1>5, <1>6, <1>7, <1>8, <1>9, <1>10, <1>11, <1>12, <1>13
  DEF Next, Check, Write

LEMMA InitSystem ==
  ASSUME Seeded, Init
  PROVE  SystemInv
<1>1. \A pk \in Pks : Live(pk) => \E c \in BuiltInCodes : rows[pk] = SystemRow(c)
  BY DEF Init, Live
<1>2. ASSUME NEW c \in BuiltInCodes
      PROVE  \E pk \in Pks : rows[pk] = SystemRow(c)
  <2>1. Cardinality(PksOf(c)) = 1
    BY DEF Init
  <2>2. PksOf(c) # {}
    BY <2>1, FS_EmptySet
  <2>3. PICK pk \in PksOf(c) : TRUE
    BY <2>2
  <2>4. PICK d \in BuiltInCodes : rows[pk] = SystemRow(d)
    BY <1>1, <2>3 DEF PksOf
  <2>5. d = c
    BY <2>3, <2>4, SystemRowIsRow DEF PksOf
  <2>6. QED
    BY <2>3, <2>4, <2>5 DEF PksOf
<1>3. RowsSound
  BY <1>1, <1>2, SystemRowIsRow DEF RowsSound
<1>4. \A t \in Threads : CopySound(t) /\ Unlocked(t)
  BY DEF Init, NoRequest, CopySound, Unlocked
<1>5. QED
  BY <1>3, <1>4 DEF SystemInv

(* role_views.py:37-58.  In a store where sync_roles has run, built-in rows and the
   copies of them in memory stay what SystemRow says. *)
THEOREM SystemInvariant ==
  ASSUME Seeded
  PROVE  Spec => [](IInv /\ SystemInv)
<1>1. Init => IInv /\ SystemInv
  BY InitIInv, InitSystem
<1>2. (IInv /\ SystemInv) /\ [Next]_vars => (IInv /\ SystemInv)'
  BY TypeStep, RequestsStep, RowsSoundStep, CopiesStep DEF IInv, SystemInv
<1>3. QED
  BY <1>1, <1>2, PTL DEF Spec

(* Where sync_roles has run, no request, however many overlap and however stale the
   row that an edit writes back, changes, renames, deactivates or deletes a built-in
   role, for any set of roles, threads and failures. *)
THEOREM SystemKept ==
  ASSUME Seeded
  PROVE  Spec => SystemRowsStay
<1>1. (IInv /\ SystemInv) /\ [Next]_vars =>
         [\A pk \in Pks : Live(pk) /\ rows[pk].system => rows'[pk] = rows[pk]]_rows
  BY RowEffect DEF IsSystem
<1>2. QED
  BY SystemInvariant, <1>1, PTL DEF Spec, SystemRowsStay

-----------------------------------------------------------------------------
(* The grants of the super admin. *)

LEMMA SuperIsSystem ==
  ASSUME IInv, SystemInv, "SUPER_ADMIN" \in BuiltInCodes,
         NEW pk \in Pks, Live(pk), rows[pk].code = "SUPER_ADMIN"
  PROVE  IsSystem(pk) /\ rows[pk].active
BY SystemRowIsRow DEF SystemInv, RowsSound, IsSystem

(* No write takes a grant from the super admin. *)
LEMMA GrantsKept ==
  ASSUME IInv, SystemInv, SuperGrants, "SUPER_ADMIN" \in BuiltInCodes, [Next]_vars,
         NEW pk \in Pks, Live(pk), rows[pk].code = "SUPER_ADMIN", NEW p \in Pages
  PROVE  grants'[pk][p] = "allowed"
<1>0. /\ \A t \in Threads : Placed(req[t]) /\ CopySound(t) /\ Unlocked(t)
      /\ grants \in [Pks -> [Pages -> {"none", "allowed", "denied"}]]
      /\ grants[pk][p] = "allowed" /\ IsSystem(pk)
  BY SuperIsSystem DEF IInv, Requests, SystemInv, TypeOK, SuperGrants
<1>1. ASSUME NEW t \in Threads, NEW q, NEW g, WriteGrant(t, q, g)
      PROVE  grants'[pk][p] = "allowed"
  <2>1. req[t].copy # NoRow /\ req[t].copy.code # "SUPER_ADMIN"
    BY <1>0, <1>1, NoRowIsNoRow DEF WriteGrant, Placed, Unlocked
  <2>2. req[t].pk # pk
    BY <1>0, <2>1 DEF CopySound
  <2>3. QED
    BY <1>0, <1>1, <2>2 DEF WriteGrant
<1>2. ASSUME NEW t \in Threads, DeleteRole(t)
      PROVE  grants'[pk][p] = "allowed"
  <2>1. req[t].copy # NoRow /\ ~req[t].copy.system
    BY <1>0, <1>2, NoRowIsNoRow DEF DeleteRole, Placed, Unlocked
  <2>2. req[t].pk # pk
    BY <1>0, <2>1 DEF CopySound
  <2>3. QED
    BY <1>0, <1>2, <2>2 DEF DeleteRole
<1>3. ASSUME NEW t \in Threads, NEW q \in Pages, CreateGrant(t, q)
      PROVE  grants'[pk][p] = "allowed"
  <2>1. CASE req[t].pk = pk
    <3>1. grants[pk][q] = "allowed"
      BY DEF SuperGrants
    <3>2. UNCHANGED grants
      BY <1>3, <2>1, <3>1 DEF CreateGrant
    <3>3. QED
      BY <1>0, <3>2
  <2>2. CASE req[t].pk # pk
    BY <1>0, <1>3, <2>2 DEF CreateGrant
  <2>3. QED
    BY <2>1, <2>2
<1>4. ASSUME NEW t \in Threads,
             \/ Check(t) \/ StartSync(t) \/ SyncRole(t) \/ SyncDone(t) \/ GrantsCreated(t)
             \/ Recalculate(t) \/ SaveRank(t) \/ Invalidate(t) \/ Abandon(t)
             \/ \E q, op : LoadRole(t, op, q)
             \/ \E c, a : SaveRole(t, c, a)
             \/ \E q, c : CreateRole(t, q, c)
      PROVE  grants'[pk][p] = "allowed"
  BY <1>0, <1>4 DEF Check, LoadTable, StoreTable, StartSync, SyncRole, SyncDone, GrantsCreated,
     Recalculate, SaveRank, Invalidate, Abandon, LoadRole, SaveRole, CreateRole
<1>5. ASSUME CacheUpDown \/ (\E k \in Caches : Expire(k)) \/ UNCHANGED vars
      PROVE  grants'[pk][p] = "allowed"
  BY <1>0, <1>5 DEF CacheUpDown, Expire, vars
<1>6. setting.threads \subseteq Threads
  BY SettingsOK DEF IInv, TypeOK, Setting
<1>7. QED
  BY <1>1, <1>2, <1>3, <1>4, <1>5, <1>6 DEF Next, Write

LEMMA SettingKept ==
  ASSUME [Next]_vars
  PROVE  UNCHANGED setting
BY DEF Next, vars, Check, Write, LoadTable, StoreTable, StartSync, SyncRole, SyncDone,
   GrantsCreated, Recalculate, SaveRank, Invalidate, Abandon, LoadRole, SaveRole, CreateRole,
   WriteGrant, DeleteRole,
   CreateGrant, Expire, CacheUpDown

(* The super admin is granted every screen after every step. *)
LEMMA SuperGrantsStep ==
  ASSUME IInv, SystemInv, SuperGrants, "SUPER_ADMIN" \in BuiltInCodes, [Next]_vars
  PROVE  SuperGrants'
<1> SUFFICES ASSUME NEW pk \in Pks, Live(pk)', rows'[pk].code = "SUPER_ADMIN", NEW p \in Pages'
             PROVE  grants'[pk][p] = "allowed"
  BY DEF SuperGrants
<1>1. rows'[pk] = rows[pk]
  BY RowEffect DEF Live, Plain
<1>2. p \in Pages /\ Live(pk)
  BY <1>1, SettingKept DEF Pages, Live
<1>3. QED
  BY <1>1, <1>2, GrantsKept

LEMMA DefaultsWhole ==
  ASSUME TypeOK, "SUPER_ADMIN" \in BuiltInCodes
  PROVE  Whole(Defaults) /\ DefaultEntry("SUPER_ADMIN").pages = Pages
<1>1. \A p \in Pages : Allows(p, "SUPER_ADMIN")
  BY PagesFinite, PageMinRank, BaselineValues DEF Allows
<1>2. DefaultEntry("SUPER_ADMIN").pages = Pages
  BY <1>1, BaselineValues DEF DefaultEntry
<1>3. Defaults["SUPER_ADMIN"] = DefaultEntry("SUPER_ADMIN")
  BY DEF Defaults, Codes
<1>4. QED
  BY <1>2, <1>3 DEF Whole, Lookup

LEMMA LoadedWhole ==
  ASSUME IInv, SystemInv, SuperGrants, "SUPER_ADMIN" \in BuiltInCodes
  PROVE  Whole(Loaded)
<1> DEFINE active == {pk \in Pks : Live(pk) /\ rows[pk].active}
           EntryOf(pk) == [rank |-> rows[pk].rank, pages |-> GrantedPages(pk)]
           EntryFor(c) == IF active \cap PksOf(c) = {} THEN NoEntry
                    ELSE EntryOf(CHOOSE pk \in active \cap PksOf(c) : TRUE)
           S == active \cap PksOf("SUPER_ADMIN")
<1>1. S # {}
  <2>1. PICK q \in PksOf("SUPER_ADMIN") : IsSystem(q)
    BY CodeTaken
  <2>2. q \in active
    BY <2>1, SuperIsSystem DEF PksOf
  <2>3. QED
    BY <2>1, <2>2
<1>2. (CHOOSE pk \in S : TRUE) \in S
  BY <1>1
<1>3. ASSUME NEW pk \in S
      PROVE  EntryOf(pk).pages = Pages
  BY <1>3 DEF SuperGrants, GrantedPages, PksOf
<1>4. Loaded = [c \in Codes |-> EntryFor(c)]
  <2>1. active # {}
    BY <1>1
  <2>2. QED
    BY <2>1 DEF Loaded
<1>5. Loaded["SUPER_ADMIN"] = EntryOf(CHOOSE pk \in S : TRUE)
  BY <1>1, <1>4 DEF Codes
<1>6. Loaded["SUPER_ADMIN"].pages = Pages
  <2> HIDE DEF S, EntryOf
  <2>1. QED
    BY <1>2, <1>3, <1>5
<1>7. DefaultEntry("SUPER_ADMIN").pages = Pages
  BY DefaultsWhole DEF IInv
<1>8. QED
  BY <1>6, <1>7 DEF Whole, Lookup

(* No table that is loaded or cached lacks a screen of the super admin. *)
LEMMA TablesStep ==
  ASSUME IInv, SystemInv, SuperInv, "SUPER_ADMIN" \in BuiltInCodes, [Next]_vars
  PROVE  TablesWhole' /\ SuperAdminKeepsEveryPage'
<1> USE DEF Advance, Finish
<1>0. /\ req \in [Threads -> Request] /\ cache \in [Caches -> Table \cup {NoTable}]
      /\ \A t \in Threads : req[t] \in Request
      /\ \A t \in Threads : req[t].op = "lookup" => Whole(req[t].table)
      /\ \A k \in Caches : cache[k] # NoTable => Whole(cache[k])
  BY DEF IInv, TypeOK, Requests, SuperInv, TablesWhole, SuperAdminKeepsEveryPage, Whole
<1>1. \A table : Whole(table)' <=> Whole(table)
  BY SettingKept DEF Whole, Lookup, DefaultEntry, Pages
<1> DEFINE Sound == /\ \A t \in Threads : req'[t].op = "lookup" => Whole(req'[t].table)
                    /\ \A k \in Caches : cache'[k] # NoTable => Whole(cache'[k])
<1>2. ASSUME NEW t \in Threads, LoadTable(t)
      PROVE  Sound
  <2>1. PICK table \in {Loaded, Defaults} :
           Advance(t, [NoRequest EXCEPT !.op = "lookup", !.at = "loaded", !.table = table])
    BY <1>2 DEF LoadTable
  <2>2. Whole(table)
    BY LoadedWhole, DefaultsWhole DEF IInv, SuperInv
  <2>3. req'[t].table = table /\ \A u \in Threads \ {t} : req'[u] = req[u]
    BY <1>0, <2>1 DEF NoRequest
  <2>4. UNCHANGED cache
    BY <1>2 DEF LoadTable
  <2>5. QED
    BY <1>0, <2>2, <2>3, <2>4
<1>3. ASSUME NEW t \in Threads, StoreTable(t)
      PROVE  Sound
  <2>1. \A u \in Threads : req'[u] = req[u] \/ req'[u].op = "none"
    BY <1>0, <1>3 DEF StoreTable, NoRequest
  <2>2. \A k \in Caches : cache'[k] = cache[k] \/ cache'[k] = req[t].table
    BY <1>0, <1>3 DEF StoreTable
  <2>3. Whole(req[t].table)
    BY <1>0, <1>3 DEF StoreTable
  <2>4. QED
    BY <1>0, <2>1, <2>2, <2>3
<1>4. ASSUME \A t \in Threads : req'[t].op # "lookup" \/ req'[t] = req[t],
             \A k \in Caches : cache'[k] \in {NoTable, cache[k]}
      PROVE  Sound
  BY <1>0, <1>4
<1>5. ASSUME NEW t \in Threads, NEW r, Advance(t, r), r.op # "lookup",
             \A k \in Caches : cache'[k] \in {NoTable, cache[k]}
      PROVE  Sound
  BY <1>0, <1>4, <1>5
<1>6. ASSUME NEW t \in Threads, Invalidate(t) \/ Abandon(t)
      PROVE  Sound
  <2>1. \A k \in Caches : cache'[k] \in {NoTable, cache[k]}
    BY <1>0, <1>6 DEF Invalidate, Abandon
  <2>2. Advance(t, NoRequest) /\ NoRequest.op # "lookup"
    BY <1>6 DEF Invalidate, Abandon, NoRequest
  <2>3. QED
    BY <1>5, <2>1, <2>2
<1>7. ASSUME NEW t \in Threads,
             \/ StartSync(t)
             \/ \E pk \in Pks, op \in {"toggle", "edit", "delete"} : LoadRole(t, op, pk)
             \/ \E pk, c : CreateRole(t, pk, c)
      PROVE  Sound
  <2>1. UNCHANGED cache
    BY <1>7 DEF StartSync, LoadRole, CreateRole
  <2>2. req'[t].op # "lookup" /\ \A u \in Threads \ {t} : req'[u] = req[u]
    <3>1. CASE StartSync(t)
      BY <1>0, <3>1 DEF StartSync, NoRequest
    <3>2. ASSUME NEW pk, NEW op \in {"toggle", "edit", "delete"}, LoadRole(t, op, pk)
          PROVE  req'[t].op # "lookup" /\ \A u \in Threads \ {t} : req'[u] = req[u]
      BY <1>0, <3>2 DEF LoadRole, NoRequest
    <3>3. ASSUME NEW pk, NEW c, CreateRole(t, pk, c)
          PROVE  req'[t].op # "lookup" /\ \A u \in Threads \ {t} : req'[u] = req[u]
      BY <1>0, <3>3 DEF CreateRole, NoRequest
    <3>4. QED
      BY <1>7, <3>1, <3>2, <3>3
  <2>3. QED
    BY <1>4, <2>1, <2>2
<1>8. ASSUME NEW t \in Threads,
             \/ Recalculate(t) \/ SaveRank(t) \/ SyncRole(t) \/ SyncDone(t) \/ GrantsCreated(t)
             \/ DeleteRole(t)
             \/ \E p, g : WriteGrant(t, p, g)
             \/ \E c, a : SaveRole(t, c, a)
             \/ \E p : CreateGrant(t, p)
      PROVE  Sound
  <2>1. UNCHANGED cache
    BY <1>8 DEF Recalculate, SaveRank, SyncRole, SyncDone, GrantsCreated, DeleteRole, WriteGrant,
                SaveRole, CreateGrant
  <2>2. req[t].op # "lookup"
    <3>1. req[t] \in Request /\ Placed(req[t])
      BY DEF IInv, Requests
    <3>2. QED
      BY <1>8, <3>1, PlacedStage
      DEF Recalculate, SaveRank, SyncRole, SyncDone, GrantsCreated, DeleteRole, WriteGrant,
          SaveRole,
          CreateGrant
  <2>3. \A u \in Threads : u # t => req'[u] = req[u]
    BY <1>8 DEF Recalculate, SaveRank, SyncRole, SyncDone, GrantsCreated, DeleteRole, WriteGrant,
                SaveRole, CreateGrant, IInv, Requests
  <2>4. req'[t].op # "lookup"
    <3>1. req[t] \in Request
      BY <1>0
    <3>2. CASE SyncRole(t)
      BY <3>2, SyncFinds
    <3>3. CASE Finish(t)
      BY <1>0, <3>3 DEF NoRequest
    <3>4. ASSUME NEW s, req' = [req EXCEPT ![t] = [req[t] EXCEPT !.at = s]]
          PROVE  req'[t].op = req[t].op
      BY <1>0, <3>1, <3>4 DEF Request
    <3>5. ASSUME NEW p, req' = [req EXCEPT ![t] = [req[t] EXCEPT !.todo = @ \ {p}]]
          PROVE  req'[t].op = req[t].op
      BY <1>0, <3>1, <3>5 DEF Request
    <3>6. ASSUME Recalculate(t)
          PROVE  req'[t].op = req[t].op
      BY <1>0, <3>1, <3>6 DEF Recalculate, Request
    <3>7. CASE DeleteRole(t) \/ (\E p, g : WriteGrant(t, p, g)) \/ (\E c, a : SaveRole(t, c, a))
      BY <2>2, <3>4, <3>7 DEF DeleteRole, WriteGrant, SaveRole
    <3>8. CASE SaveRank(t) \/ SyncDone(t) \/ GrantsCreated(t)
      BY <2>2, <3>3, <3>4, <3>8 DEF SaveRank, SyncDone, GrantsCreated
    <3>9. CASE \E p : CreateGrant(t, p)
      BY <2>2, <3>3, <3>5, <3>9 DEF CreateGrant
    <3>10. QED
      BY <1>8, <2>2, <3>2, <3>6, <3>7, <3>8, <3>9
  <2>5. QED
    BY <1>4, <2>1, <2>3, <2>4
<1>9. ASSUME CacheUpDown \/ (\E k \in Caches : Expire(k)) \/ UNCHANGED vars
      PROVE  Sound
  <2>1. UNCHANGED req /\ \A k \in Caches : cache'[k] \in {NoTable, cache[k]}
    BY <1>0, <1>9 DEF CacheUpDown, Expire, vars
  <2>2. \A t \in Threads : req'[t].op # "lookup" \/ req'[t] = req[t]
    BY <2>1
  <2>3. QED
    BY <1>4, <2>1, <2>2
<1>10. setting.threads \subseteq Threads
  BY SettingsOK DEF IInv, TypeOK, Setting
<1> HIDE DEF Sound
<1>11. Sound
  BY <1>2, <1>3, <1>6, <1>7, <1>8, <1>9, <1>10 DEF Next, Check, Write
<1>12. QED
  BY <1>1, <1>11 DEF Sound, TablesWhole, SuperAdminKeepsEveryPage, Whole

LEMMA InitSuper ==
  ASSUME Seeded, Init, "SUPER_ADMIN" \in BuiltInCodes
  PROVE  SuperInv
<1>1. IInv /\ SystemInv
  BY InitIInv, InitSystem
<1>2. SuperGrants
  <2> SUFFICES ASSUME NEW pk \in Pks, Live(pk), rows[pk].code = "SUPER_ADMIN", NEW p \in Pages
               PROVE  grants[pk][p] = "allowed"
    BY DEF SuperGrants
  <2>1. Allows(p, "SUPER_ADMIN")
    BY <1>1, PagesFinite, PageMinRank, BaselineValues DEF Allows, IInv
  <2>2. QED
    BY <2>1 DEF Init, DefaultGrant
<1>3. TablesWhole /\ SuperAdminKeepsEveryPage
  BY DEF Init, TablesWhole, SuperAdminKeepsEveryPage, NoRequest
<1>4. QED
  BY <1>2, <1>3 DEF SuperInv

(* Where sync_roles has run, every table a permission check can answer from, whichever
   thread loaded it, from whichever store and in whichever cache it lies, opens every
   screen to super admins. *)
THEOREM SuperAdminKept ==
  ASSUME Seeded, "SUPER_ADMIN" \in BuiltInCodes
  PROVE  Spec => []SuperAdminKeepsEveryPage
<1> DEFINE Inv == IInv /\ SystemInv /\ SuperInv
<1>1. Init => Inv
  BY InitIInv, InitSystem, InitSuper
<1>2. Inv /\ [Next]_vars => Inv'
  BY TypeStep, RequestsStep, RowsSoundStep, CopiesStep, SuperGrantsStep, TablesStep
  DEF IInv, SystemInv, SuperInv
<1>3. Inv => SuperAdminKeepsEveryPage
  BY DEF SuperInv
<1>4. QED
  BY <1>1, <1>2, <1>3, PTL DEF Spec

-----------------------------------------------------------------------------
(* One request at a time. *)

LEMMA OneThread ==
  ASSUME IInv, Serial
  PROVE  \E t \in Threads : setting.threads = {t}
<1>1. setting.threads \subseteq Threads
  BY SettingsOK DEF IInv, TypeOK, Setting
<1>2. IsFiniteSet(setting.threads)
  BY <1>1, ThreadsFinite, FS_Subset
<1>3. \E t : setting.threads = {t}
  BY <1>2, FS_Singleton DEF Serial
<1>4. QED
  BY <1>1, <1>3

(* A rank is right as long as the row and its grants stay. *)
LEMMA RankKept ==
  ASSUME UNCHANGED setting, NEW pk, rows'[pk] = rows[pk], grants'[pk] = grants[pk]
  PROVE  /\ RankRight(pk)' <=> RankRight(pk)
         /\ RankOf(Cardinality(GrantedPages(pk)))' = RankOf(Cardinality(GrantedPages(pk)))
BY DEF RankRight, RankOf, GrantedPages, Pages, Live

(* Steps that change neither rows nor grants. *)
LEMMA QuietStep ==
  ASSUME IInv, Serial, NEW t \in Threads, setting.threads = {t}, InTurn(t),
         UNCHANGED <<setting, rows, grants>>,
         \A u \in Threads \ {t} : req'[u] = req[u],
         Alone(t)', Fresh(t)', Same(t)',
         req'[t].at = "granting" =>
            req'[t].pk \in Pks
            /\ req'[t].todo = {p \in Pages : grants[req'[t].pk][p] = "none"},
         req[t].at = "granting" =>
            \/ req'[t].at = "granting" /\ req'[t].pk = req[t].pk
            \/ \A p \in Pages : grants[req[t].pk][p] # "none",
         \A pk \in Pks : Completing(t, pk) => Completing(t, pk)' \/ RankRight(pk),
         req'[t].at = "counted" /\ ~req'[t].copy.system =>
            req'[t].rank = RankOf(Cardinality(GrantedPages(req'[t].pk)))
  PROVE  InTurn(t)'
<1>1. Pages' = Pages
  BY DEF Pages
<1>2. Granting(t)'
  <2>1. \A pk \in Pks : Live(pk)' <=> Live(pk)
    BY DEF Live
  <2>2. QED
    BY <1>1, <2>1 DEF InTurn, Granting
<1>3. \A pk : RankRight(pk)' <=> RankRight(pk)
  BY RankKept
<1>4. \A pk : RankOf(Cardinality(GrantedPages(pk)))' = RankOf(Cardinality(GrantedPages(pk)))
  BY RankKept
<1>5. Ranks(t)'
  BY <1>3, <1>4 DEF InTurn, Ranks
<1>6. QED
  BY <1>2, <1>5 DEF InTurn

(* The lookup, and the invalidation that ends every write. *)
LEMMA ReadInTurn ==
  ASSUME IInv, Serial, NEW t \in Threads, setting.threads = {t}, InTurn(t),
         \/ LoadTable(t) \/ StoreTable(t) \/ Abandon(t) \/ Invalidate(t)
         \/ \E k \in Caches : Expire(k)
         \/ UNCHANGED vars
  PROVE  InTurn(t)'
<1> USE DEF Advance, Finish
<1>0. /\ req \in [Threads -> Request] /\ req[t] \in Request /\ Placed(req[t])
      /\ cache \in [Caches -> Table \cup {NoTable}] /\ CacheOf[t] \in Caches
      /\ setting.faults = {} /\ online
      /\ \A k \in Caches \ {CacheOf[t]} : cache[k] = NoTable
      /\ \A u \in Threads \ {t} : req[u] = NoRequest
  BY CacheOfThread DEF IInv, TypeOK, Requests, Serial, InTurn, Alone
<1>1. UNCHANGED <<setting, rows, grants>>
  BY DEF LoadTable, StoreTable, Abandon, Invalidate, Expire, vars
<1>2. Loaded' = Loaded
  BY <1>1, LoadedKept
<1>3. \A u \in Threads \ {t} : req'[u] = req[u]
  BY <1>0 DEF LoadTable, StoreTable, Abandon, Invalidate, Expire, vars
<1>4. /\ req'[t].at \in {"idle", "loaded"} \/ req'[t] = req[t]
      /\ req'[t].at = "loaded" => req'[t].op = "lookup" \/ req'[t] = req[t]
      /\ req'[t] = req[t] \/ req[t].at \in {"idle", "loaded", "written"}
      /\ req'[t] = req[t] \/ req'[t].op \in {"none", "lookup"}
  <2>1. CASE LoadTable(t)
    <3>1. req[t].at = "idle"
      BY <2>1, IdleFields DEF LoadTable
    <3>2. req'[t].op = "lookup" /\ req'[t].at = "loaded"
      BY <1>0, <2>1 DEF LoadTable, NoRequest
    <3>3. QED
      BY <3>1, <3>2
  <2>2. CASE StoreTable(t)
    <3>1. req[t].at = "loaded"
      BY <1>0, <2>2, PlacedStage DEF StoreTable
    <3>2. req'[t] = NoRequest
      BY <1>0, <2>2 DEF StoreTable
    <3>3. QED
      BY <3>1, <3>2, IdleFields
  <2>3. CASE Abandon(t) \/ Invalidate(t)
    <3>1. req'[t] = NoRequest /\ req[t].at \in {"loaded", "written"}
      BY <1>0, <2>3 DEF Abandon, Invalidate
    <3>2. QED
      BY <3>1, IdleFields
  <2>4. CASE (\E k \in Caches : Expire(k)) \/ UNCHANGED vars
    BY <2>4 DEF Expire, vars
  <2>5. QED
    BY <2>1, <2>2, <2>3, <2>4
<1>5. Alone(t)'
  <2>1. online' = online /\ \A k \in Caches \ {CacheOf[t]} : cache'[k] \in {NoTable, cache[k]}
    BY <1>0 DEF LoadTable, StoreTable, Abandon, Invalidate, Expire, vars
  <2>2. QED
    BY <1>0, <1>3, <2>1 DEF Alone
<1>6. Fresh(t)'
  <2>1. CASE LoadTable(t)
    <3>1. req'[t].table = Loaded /\ UNCHANGED cache
      BY <1>0, <2>1 DEF LoadTable, NoRequest
    <3>2. Reading(t)
      BY <2>1, IdleFields DEF LoadTable, Reading
    <3>3. QED
      BY <1>2, <3>1, <3>2 DEF Fresh, InTurn
  <2>2. CASE StoreTable(t)
    <3>1. cache'[CacheOf[t]] = req[t].table /\ req'[t] = NoRequest /\ req[t].table = Loaded
      BY <1>0, <2>2 DEF StoreTable, InTurn, Fresh
    <3>2. QED
      BY <1>2, <3>1 DEF Fresh, NoRequest
  <2>3. CASE Abandon(t)
    <3>1. UNCHANGED cache /\ req'[t] = NoRequest /\ req[t].at = "loaded"
      BY <1>0, <2>3 DEF Abandon
    <3>2. QED
      BY <1>2, <3>1 DEF Fresh, Reading, InTurn, NoRequest
  <2>4. CASE Invalidate(t)
    <3>1. cache'[CacheOf[t]] = NoTable /\ req'[t] = NoRequest
      BY <1>0, <2>4 DEF Invalidate
    <3>2. QED
      BY <3>1 DEF Fresh, NoRequest
  <2>5. CASE (\E k \in Caches : Expire(k)) \/ UNCHANGED vars
    <3>1. UNCHANGED req /\ cache'[CacheOf[t]] \in {NoTable, cache[CacheOf[t]]}
      BY <1>0, <2>5 DEF Expire, vars
    <3>2. QED
      BY <1>2, <3>1 DEF Fresh, Reading, InTurn
  <2>6. QED
    BY <2>1, <2>2, <2>3, <2>4, <2>5
<1>7. Same(t)'
  BY <1>1, <1>4 DEF Same, InTurn, Live
<1>8. QED
  <2>1. req'[t].at = "granting" =>
            req'[t].pk \in Pks
            /\ req'[t].todo = {p \in Pages : grants[req'[t].pk][p] = "none"}
    <3>1. req[t].at = "granting" => req[t].pk \in Pks
      BY <1>0, NoRowIsNoRow DEF Placed
    <3>2. QED
      BY <1>4, <3>1 DEF InTurn, Granting
  <2>2. req[t].at = "granting" => req'[t] = req[t]
    BY <1>4
  <2>3. \A pk \in Pks : Completing(t, pk) => Completing(t, pk)'
    BY <1>4 DEF Completing
  <2>4. req'[t].at = "counted" => req'[t] = req[t]
    BY <1>4
  <2>5. req'[t].at = "counted" /\ ~req'[t].copy.system =>
            req'[t].rank = RankOf(Cardinality(GrantedPages(req'[t].pk)))
    BY <2>4 DEF InTurn, Ranks
  <2>6. QED
    BY <1>1, <1>3, <1>5, <1>6, <1>7, <2>1, <2>2, <2>3, <2>5, QuietStep

(* Steps that load, count, or begin and end a part of a request. *)
LEMMA PrepareInTurn ==
  ASSUME IInv, Serial, NEW t \in Threads, setting.threads = {t}, InTurn(t),
         \/ Recalculate(t) \/ StartSync(t) \/ SyncDone(t) \/ GrantsCreated(t)
         \/ \E pk \in Pks, op \in {"toggle", "edit", "delete"} : LoadRole(t, op, pk)
  PROVE  InTurn(t)'
<1> USE DEF Advance, Finish
<1>0. /\ req \in [Threads -> Request] /\ req[t] \in Request /\ Placed(req[t])
      /\ Alone(t) /\ Fresh(t) /\ Same(t) /\ Granting(t) /\ Ranks(t)
  BY DEF IInv, TypeOK, Requests, InTurn
<1>1. UNCHANGED <<setting, rows, grants, cache, online>>
  BY DEF Recalculate, StartSync, SyncDone, GrantsCreated, LoadRole
<1>2. Loaded' = Loaded
  BY <1>1, LoadedKept
<1>3. \A u \in Threads \ {t} : req'[u] = req[u]
  BY <1>0 DEF Recalculate, StartSync, SyncDone, GrantsCreated, LoadRole
<1>4. Alone(t)'
  BY <1>0, <1>1, <1>3 DEF Alone
<1>5. CASE \E pk \in Pks, op \in {"toggle", "edit", "delete"} : LoadRole(t, op, pk)
  <2>1. PICK pk \in Pks, op \in {"toggle", "edit", "delete"} : LoadRole(t, op, pk)
    BY <1>5
  <2>2. req'[t].op = op /\ req'[t].at = "loaded" /\ req'[t].pk = pk /\ req'[t].copy = rows[pk]
    BY <1>0, <2>1 DEF LoadRole, NoRequest
  <2>3. req[t].op = "none" /\ req[t].at = "idle" /\ Live(pk)
    BY <2>1, IdleFields DEF LoadRole
  <2>4. Fresh(t)'
    BY <1>0, <1>1, <1>2, <2>2, <2>3 DEF Fresh, Reading
  <2>5. Same(t)'
    BY <1>1, <2>2, <2>3 DEF Same, Live
  <2>6. QED
    BY <1>1, <1>3, <1>4, <2>2, <2>3, <2>4, <2>5, QuietStep DEF Completing
<1>6. CASE StartSync(t)
  <2>1. req'[t].op = "sync" /\ req'[t].at = "syncing" /\ req[t].at = "idle"
    BY <1>0, <1>6 DEF StartSync, NoRequest
  <2>2. Fresh(t)' /\ Same(t)'
    BY <2>1 DEF Fresh, Same, Reading
  <2>3. QED
    BY <1>1, <1>3, <1>4, <2>1, <2>2, QuietStep DEF Completing
<1>7. CASE SyncDone(t)
  <2>1. req'[t].op = "sync" /\ req'[t].at = "written" /\ req[t].at = "syncing"
    BY <1>0, <1>7 DEF SyncDone, Request
  <2>2. Fresh(t)' /\ Same(t)'
    BY <2>1 DEF Fresh, Same, Reading
  <2>3. QED
    BY <1>1, <1>3, <1>4, <2>1, <2>2, QuietStep DEF Completing
<1>8. CASE GrantsCreated(t)
  <2>1. /\ req[t].op \in {"create", "sync"} /\ req[t].at = "granting" /\ req[t].todo = {}
        /\ req[t].pk \in Pks
    BY <1>0, <1>8, PlacedStage, NoRowIsNoRow DEF GrantsCreated, Placed
  <2>2. /\ req'[t].op = req[t].op /\ req'[t].pk = req[t].pk /\ req'[t].copy = req[t].copy
        /\ req'[t].at = IF req[t].op = "sync" THEN "syncing" ELSE "granted"
    BY <1>0, <1>8 DEF GrantsCreated, Request
  <2>3. Fresh(t)'
    BY <2>1, <2>2 DEF Fresh, Reading
  <2>4. Same(t)'
    BY <1>0, <1>1, <2>1, <2>2 DEF Same, Live
  <2>5. \A p \in Pages : grants[req[t].pk][p] # "none"
    BY <1>0, <2>1 DEF Granting
  <2>6. \A pk \in Pks : Completing(t, pk) => Completing(t, pk)' \/ RankRight(pk)
    BY <1>0, <2>1, <2>2 DEF Completing, Same, RankRight
  <2>7. QED
    BY <1>1, <1>3, <1>4, <2>2, <2>3, <2>4, <2>5, <2>6, QuietStep
<1>9. CASE Recalculate(t)
  <2> DEFINE a == req[t].copy
             pk == req[t].pk
             granted == RankOf(Cardinality(GrantedPages(pk)))
             rank == IF a.system /\ Baseline(a.code) > 0 THEN Baseline(a.code) ELSE granted
  <2>1. /\ req[t].op \in {"toggle", "create"} /\ req[t].at = "granted"
        /\ pk \in Pks /\ Live(pk) /\ a = rows[pk]
    BY <1>0, <1>9, PlacedStage, NoRowIsNoRow DEF Recalculate, Placed, Same
  <2>2. req' = [req EXCEPT ![t] = [req[t] EXCEPT !.rank = rank,
                                     !.at = IF rank = a.rank THEN "written" ELSE "counted"]]
    BY <1>9 DEF Recalculate
  <2> HIDE DEF rank
  <2>3. /\ req'[t].op = req[t].op /\ req'[t].pk = pk /\ req'[t].copy = a /\ req'[t].rank = rank
        /\ req'[t].at = IF rank = a.rank THEN "written" ELSE "counted"
    BY <1>0, <2>2 DEF Request
  <2>4. Fresh(t)'
    BY <2>1, <2>3 DEF Fresh, Reading
  <2>5. Same(t)'
    BY <1>1, <2>1, <2>3 DEF Same, Live
  <2>6. ~a.system => rank = granted
    BY DEF rank
  <2>7. \A q \in Pks : Completing(t, q) => Completing(t, q)' \/ RankRight(q)
    BY <2>1, <2>3, <2>6 DEF Completing, RankRight
  <2>8. req'[t].at # "granting" /\ req[t].at # "granting"
    BY <2>1, <2>3
  <2>9. req'[t].at = "counted" /\ ~req'[t].copy.system =>
            req'[t].rank = RankOf(Cardinality(GrantedPages(req'[t].pk)))
    BY <2>3, <2>6
  <2>10. QED
    BY <1>1, <1>3, <1>4, <2>4, <2>5, <2>7, <2>8, <2>9, QuietStep
<1>10. QED
  BY <1>5, <1>6, <1>7, <1>8, <1>9

(* Steps that write one row q, or its grants. *)
LEMMA WriteStep ==
  ASSUME IInv, Serial, NEW t \in Threads, setting.threads = {t}, InTurn(t),
         UNCHANGED <<setting, cache, online>>,
         \A u \in Threads \ {t} : req'[u] = req[u],
         NEW q \in Pks,
         \A pk \in Pks \ {q} : rows'[pk] = rows[pk] /\ grants'[pk] = grants[pk],
         rows'[q] = NoRow => \A p \in Pages : grants'[q][p] = "none",
         \A pk \in Pks : Completing(t, pk) => pk = q,
         ~Reading(t)', Same(t)', req'[t].at # "counted",
         IF req'[t].at = "granting"
           THEN req'[t].pk = q /\ req'[t].todo = {p \in Pages : grants'[q][p] = "none"}
           ELSE Live(q)' => \A p \in Pages : grants'[q][p] # "none",
         Completing(t, q)' \/ RankRight(q)'
  PROVE  InTurn(t)'
<1>1. Pages' = Pages
  BY DEF Pages
<1>2. Alone(t)'
  BY DEF InTurn, Alone
<1>3. Fresh(t)'
  BY DEF Reading, Fresh
<1>4. Granting(t)'
  <2>1. \A pk \in Pks \ {q} : Live(pk)' <=> Live(pk)
    BY DEF Live
  <2>2. \A pk \in Pks \ {q} : ~(req[t].at = "granting" /\ pk = req[t].pk)
    BY DEF Completing
  <2>3. QED
    BY <1>1, <2>1, <2>2 DEF InTurn, Granting
<1>5. Ranks(t)'
  <2>1. \A pk \in Pks \ {q} : RankRight(pk)' <=> RankRight(pk)
    BY RankKept
  <2>2. QED
    BY <2>1 DEF InTurn, Ranks
<1>6. QED
  BY <1>2, <1>3, <1>4, <1>5 DEF InTurn

(* The writes of the handlers. *)
LEMMA WriteInTurn ==
  ASSUME IInv, Serial, NEW t \in Threads, setting.threads = {t}, InTurn(t),
         \/ SaveRank(t) \/ DeleteRole(t)
         \/ \E p \in Pages, g \in {"allowed", "denied"} : WriteGrant(t, p, g)
         \/ \E c \in Codes, a \in BOOLEAN : SaveRole(t, c, a)
         \/ \E p \in Pages : CreateGrant(t, p)
  PROVE  InTurn(t)'
<1> USE DEF Advance, Finish
<1>0. /\ req \in [Threads -> Request] /\ req[t] \in Request /\ Placed(req[t])
      /\ rows \in [Pks -> Row \cup {NoRow, Deleted}]
      /\ grants \in [Pks -> [Pages -> {"none", "allowed", "denied"}]]
      /\ Alone(t) /\ Fresh(t) /\ Same(t) /\ Granting(t) /\ Ranks(t)
  BY DEF IInv, TypeOK, Requests, InTurn
<1>1. UNCHANGED <<setting, cache, online>>
  BY DEF SaveRank, DeleteRole, WriteGrant, SaveRole, CreateGrant
<1>2. \A u \in Threads \ {t} : req'[u] = req[u]
  BY <1>0 DEF SaveRank, DeleteRole, WriteGrant, SaveRole, CreateGrant
<1>3. PICK q \in Pks : q = req[t].pk /\ Live(q) /\ rows[q] \in Row
  <2>1. req[t].op \in {"toggle", "edit", "delete", "create"} \/ req[t].at = "granting"
    BY <1>0, PlacedStage DEF SaveRank, DeleteRole, WriteGrant, SaveRole, CreateGrant
  <2>2. req[t].pk \in Pks
    BY <1>0, <2>1, NoRowIsNoRow DEF Placed
  <2>3. req[t].at # "written"
    BY DEF SaveRank, DeleteRole, WriteGrant, SaveRole, CreateGrant
  <2>4. Live(req[t].pk)
    BY <1>0, <2>1, <2>3, PlacedStage DEF Same
  <2>5. QED
    BY <1>0, <2>2, <2>4 DEF Live
<1>4. \A pk \in Pks : Completing(t, pk) => pk = q
  BY <1>3 DEF Completing
<1>5. \A p \in Pages : req[t].at # "granting" => grants[q][p] # "none"
  BY <1>0, <1>3 DEF Granting
<1>6. CASE SaveRank(t)
  <2>1. req[t].op \in {"toggle", "create"} /\ req[t].at = "counted" /\ req[t].copy = rows[q]
    BY <1>0, <1>3, <1>6, PlacedStage DEF SaveRank, Same
  <2>2. req' = [req EXCEPT ![t] = [req[t] EXCEPT !.at = "written"]]
    BY <1>3, <1>6 DEF SaveRank
  <2>3. req'[t].op = req[t].op /\ req'[t].at = "written" /\ req'[t].pk = q
    BY <1>0, <1>3, <2>2 DEF Request
  <2>4. /\ rows'[q] = [rows[q] EXCEPT !.rank = req[t].rank] /\ UNCHANGED grants
        /\ \A pk \in Pks \ {q} : rows'[pk] = rows[pk]
    BY <1>0, <1>3, <1>6 DEF SaveRank
  <2>5. rows'[q] \in Row /\ rows'[q].system = rows[q].system /\ rows'[q].rank = req[t].rank
    <3>1. req[t].rank \in 1..30
      BY <1>0, <2>1 DEF Placed
    <3>2. QED
      BY <1>3, <2>4, <3>1 DEF Row
  <2>6. /\ GrantedPages(q)' = GrantedPages(q)
        /\ RankOf(Cardinality(GrantedPages(q)))' = RankOf(Cardinality(GrantedPages(q)))
    BY <1>1, <2>4 DEF GrantedPages, Pages, RankOf
  <2>7. RankRight(q)'
    BY <1>0, <1>3, <2>1, <2>5, <2>6 DEF RankRight, Ranks
  <2>8. ~Reading(t)' /\ Same(t)'
    BY <2>1, <2>3 DEF Reading, Same
  <2>9. QED
    BY <1>1, <1>2, <1>3, <1>4, <1>5, <2>1, <2>3, <2>4, <2>5, <2>7, <2>8, NoRowIsNoRow, WriteStep
<1>7. CASE DeleteRole(t)
  <2>1. /\ req'[t].op = "delete" /\ req'[t].at = "written" /\ rows'[q] = Deleted
        /\ req[t].at = "loaded"
        /\ \A pk \in Pks \ {q} : rows'[pk] = rows[pk] /\ grants'[pk] = grants[pk]
    BY <1>0, <1>3, <1>7 DEF DeleteRole, Request
  <2>2. ~Reading(t)' /\ Same(t)' /\ ~Live(q)'
    BY <2>1 DEF Reading, Same, Live
  <2>3. RankRight(q)'
    BY <2>2 DEF RankRight
  <2>4. \A p \in Pages : grants'[q][p] = "none"
    BY <1>0, <1>3, <1>7 DEF DeleteRole
  <2>5. QED
    BY <1>1, <1>2, <1>3, <1>4, <2>1, <2>2, <2>3, <2>4, WriteStep
<1>8. CASE \E p \in Pages, g \in {"allowed", "denied"} : WriteGrant(t, p, g)
  <2>1. PICK p \in Pages, g \in {"allowed", "denied"} : WriteGrant(t, p, g)
    BY <1>8
  <2>2. /\ req'[t].op = "toggle" /\ req'[t].at = "granted" /\ req'[t].pk = q
        /\ req'[t].copy = req[t].copy /\ req[t].at = "loaded" /\ req[t].op = "toggle"
    BY <1>0, <1>3, <2>1 DEF WriteGrant, Request
  <2>3. UNCHANGED rows /\ grants' = [grants EXCEPT ![q][p] = g]
    BY <1>3, <2>1 DEF WriteGrant
  <2>4. \A pk \in Pks \ {q} : grants'[pk] = grants[pk]
    BY <1>0, <2>3
  <2>5. \A r \in Pages : grants'[q][r] # "none"
    BY <1>0, <1>3, <1>5, <2>2, <2>3
  <2>6. ~Reading(t)' /\ Same(t)' /\ Completing(t, q)'
    BY <1>0, <1>3, <2>2, <2>3 DEF Reading, Same, Live, Completing
  <2>7. QED
    BY <1>1, <1>2, <1>3, <1>4, <2>2, <2>3, <2>4, <2>5, <2>6, NoRowIsNoRow, WriteStep
<1>9. CASE \E c \in Codes, a \in BOOLEAN : SaveRole(t, c, a)
  <2>1. PICK c \in Codes, a \in BOOLEAN : SaveRole(t, c, a)
    BY <1>9
  <2> DEFINE row == [req[t].copy EXCEPT !.code = c, !.active = a]
  <2>2. /\ req'[t].op = "edit" /\ req'[t].at = "written" /\ req'[t].pk = q
        /\ req[t].at = "loaded" /\ req[t].op = "edit"
    BY <1>0, <1>3, <2>1 DEF SaveRole, Request
  <2>3. rows' = [rows EXCEPT ![q] = row] /\ UNCHANGED grants
    BY <1>3, <2>1 DEF SaveRole
  <2>4. req[t].copy = rows[q] /\ req[t].copy \in Row
    BY <1>0, <1>3, <2>2 DEF Same
  <2>5. row \in Row /\ row.system = rows[q].system /\ row.rank = rows[q].rank
    BY <2>4 DEF Row
  <2> HIDE DEF row
  <2>6. /\ rows'[q] \in Row /\ rows'[q].system = rows[q].system /\ rows'[q].rank = rows[q].rank
        /\ \A pk \in Pks \ {q} : rows'[pk] = rows[pk]
    BY <1>0, <1>3, <2>3, <2>5
  <2>7. RankOf(Cardinality(GrantedPages(q)))' = RankOf(Cardinality(GrantedPages(q)))
    BY <1>1, <2>3 DEF GrantedPages, Pages, RankOf
  <2>8. RankRight(q)
    BY <1>0, <1>3, <2>2 DEF Ranks, Completing
  <2>9. RankRight(q)'
    BY <1>3, <2>6, <2>7, <2>8 DEF RankRight
  <2>10. ~Reading(t)' /\ Same(t)'
    BY <2>2 DEF Reading, Same
  <2>11. QED
    BY <1>1, <1>2, <1>3, <1>4, <1>5, <2>2, <2>3, <2>6, <2>9, <2>10, NoRowIsNoRow, WriteStep
<1>10. CASE \E p \in Pages : CreateGrant(t, p)
  <2>1. PICK p \in Pages : CreateGrant(t, p)
    BY <1>10
  <2>2. req[t].at = "granting" /\ grants[q][p] = "none" /\ req[t].op \in {"create", "sync"}
    BY <1>0, <1>3, <2>1, PlacedStage DEF CreateGrant, Granting
  <2>3. PICK g \in {"allowed", "denied"} : grants' = [grants EXCEPT ![q][p] = g]
    BY <1>3, <2>1, <2>2 DEF CreateGrant, DefaultGrant
  <2>4. req' = [req EXCEPT ![t] = [req[t] EXCEPT !.todo = @ \ {p}]] /\ UNCHANGED rows
    BY <1>3, <2>1, <2>2 DEF CreateGrant
  <2>5. /\ req'[t].op = req[t].op /\ req'[t].at = "granting" /\ req'[t].pk = q
        /\ req'[t].copy = req[t].copy /\ req'[t].todo = req[t].todo \ {p}
    BY <1>0, <1>3, <2>2, <2>4 DEF Request
  <2>6. req'[t].todo = {r \in Pages : grants'[q][r] = "none"}
    BY <1>0, <1>3, <2>2, <2>3, <2>5 DEF Granting
  <2>7. ~Reading(t)' /\ Same(t)' /\ Completing(t, q)'
    BY <1>0, <1>3, <2>2, <2>4, <2>5 DEF Reading, Same, Live, Completing
  <2>8. \A pk \in Pks \ {q} : grants'[pk] = grants[pk]
    BY <1>0, <2>3
  <2>9. QED
    BY <1>1, <1>2, <1>3, <1>4, <2>4, <2>5, <2>6, <2>7, <2>8, NoRowIsNoRow, WriteStep
<1>11. QED
  BY <1>6, <1>7, <1>8, <1>9, <1>10

(* The creation of a role. *)
LEMMA CreateInTurn ==
  ASSUME IInv, Serial, NEW t \in Threads, setting.threads = {t}, InTurn(t),
         NEW q \in Pks, NEW c \in Codes, CreateRole(t, q, c)
  PROVE  InTurn(t)'
<1> USE DEF Advance
<1> DEFINE row == [code |-> c, rank |-> 10, system |-> FALSE, active |-> TRUE]
<1>0. /\ req \in [Threads -> Request] /\ req[t].at = "idle"
      /\ rows \in [Pks -> Row \cup {NoRow, Deleted}]
      /\ Granting(t)
  BY IdleFields DEF IInv, TypeOK, Requests, InTurn, CreateRole
<1>1. row \in Row
  BY DEF Row
<1>2. /\ rows[q] = NoRow /\ rows' = [rows EXCEPT ![q] = row]
      /\ UNCHANGED <<setting, cache, online, grants>>
      /\ req' = [req EXCEPT ![t] = [NoRequest EXCEPT !.op = "create", !.at = "granting", !.pk = q,
                                                     !.copy = row, !.todo = Pages]]
  BY DEF CreateRole
<1> HIDE DEF row
<1>3. /\ req'[t].op = "create" /\ req'[t].at = "granting" /\ req'[t].pk = q
      /\ req'[t].copy = row /\ req'[t].todo = Pages
      /\ \A u \in Threads \ {t} : req'[u] = req[u]
  BY <1>0, <1>2 DEF NoRequest
<1>4. rows'[q] = row /\ \A pk \in Pks \ {q} : rows'[pk] = rows[pk]
  BY <1>0, <1>2
<1>5. req'[t].todo = {p \in Pages : grants'[q][p] = "none"}
  BY <1>0, <1>2, <1>3 DEF Granting
<1>6. ~Reading(t)' /\ Same(t)' /\ Completing(t, q)'
  BY <1>1, <1>3, <1>4, NoRowIsNoRow DEF Reading, Same, Live, Completing
<1>7. \A pk \in Pks : ~Completing(t, pk)
  BY <1>0 DEF Completing
<1>8. QED
  BY <1>1, <1>2, <1>3, <1>4, <1>5, <1>6, <1>7, NoRowIsNoRow, WriteStep

(* The loops of sync_roles. *)
LEMMA SyncInTurn ==
  ASSUME IInv, Serial, NEW t \in Threads, setting.threads = {t}, InTurn(t), SyncRole(t)
  PROVE  InTurn(t)'
<1> USE DEF Advance
<1> DEFINE code == BuiltIns[req[t].step + 1]
           Req(q, row, todo) == [req[t] EXCEPT !.step = @ + 1, !.at = "granting", !.pk = q,
                                               !.copy = row, !.todo = todo]
<1>0. /\ req \in [Threads -> Request] /\ req[t] \in Request
      /\ req[t].op = "sync" /\ req[t].at = "syncing"
      /\ rows \in [Pks -> Row \cup {NoRow, Deleted}]
      /\ Granting(t)
  BY DEF IInv, TypeOK, Requests, InTurn, SyncRole
<1>1. UNCHANGED <<setting, cache, online, grants>>
  BY DEF SyncRole
<1>2. ASSUME NEW q \in Pks, NEW new \in Row, new.system, NEW copy, NEW todo,
             rows' = [rows EXCEPT ![q] = new],
             req' = [req EXCEPT ![t] = Req(q, copy, todo)],
             todo = {p \in Pages : grants[q][p] = "none"}
      PROVE  InTurn(t)'
  <2>1. /\ req'[t].op = "sync" /\ req'[t].at = "granting" /\ req'[t].pk = q
        /\ req'[t].todo = todo
        /\ \A u \in Threads \ {t} : req'[u] = req[u]
    <3> DEFINE r == Req(q, copy, todo)
    <3>1. r.op = "sync" /\ r.at = "granting" /\ r.pk = q /\ r.todo = todo
      BY <1>0 DEF Request
    <3> HIDE DEF r
    <3>2. req' = [req EXCEPT ![t] = r]
      BY <1>2 DEF r
    <3>3. QED
      BY <1>0, <3>1, <3>2
  <2> HIDE DEF Req
  <2>2. rows'[q] = new /\ \A pk \in Pks \ {q} : rows'[pk] = rows[pk]
    BY <1>0, <1>2
  <2>3. req'[t].todo = {p \in Pages : grants'[q][p] = "none"}
    BY <1>1, <1>2, <2>1
  <2>4. ~Reading(t)' /\ Same(t)' /\ Completing(t, q)'
    BY <1>2, <2>1, <2>2, NoRowIsNoRow DEF Reading, Same, Live, Completing
  <2>5. \A pk \in Pks : ~Completing(t, pk)
    BY <1>0 DEF Completing
  <2>6. QED
    BY <1>1, <1>2, <2>1, <2>2, <2>3, <2>4, <2>5, NoRowIsNoRow, WriteStep
<1>3. CASE PksOf(code) # {}
  <2>1. PICK q \in PksOf(code) :
           /\ rows' = [rows EXCEPT ![q].system = TRUE]
           /\ req' = [req EXCEPT ![t] = Req(q, rows[q], {p \in Pages : grants[q][p] = "none"})]
    BY <1>3 DEF SyncRole
  <2>2. q \in Pks /\ rows[q] \in Row
    BY <1>0 DEF PksOf, Live
  <2> DEFINE new == [rows[q] EXCEPT !.system = TRUE]
  <2>3. new \in Row /\ new.system
    BY <2>2 DEF Row
  <2>4. rows' = [rows EXCEPT ![q] = new]
    BY <2>1
  <2> HIDE DEF new, Req, code
  <2>5. QED
    BY <1>2, <2>1, <2>2, <2>3, <2>4
<1>4. CASE PksOf(code) = {}
  <2>1. PICK q \in Pks :
           /\ rows[q] = NoRow /\ rows' = [rows EXCEPT ![q] = SystemRow(code)]
           /\ req' = [req EXCEPT ![t] = Req(q, SystemRow(code), Pages)]
    BY <1>4 DEF SyncRole
  <2>2. SystemRow(code) \in Row /\ SystemRow(code).system
    BY SyncedCode, SystemRowIsRow
  <2>3. Pages = {p \in Pages : grants[q][p] = "none"}
    BY <1>0, <2>1 DEF Granting
  <2> HIDE DEF Req, code
  <2>4. QED
    BY <1>2, <2>1, <2>2, <2>3
<1>5. QED
  BY <1>3, <1>4

(* Every step keeps what the thread at work has still to repair. *)
LEMMA SerialStep ==
  ASSUME IInv, SerialInv, [Next]_vars
  PROVE  SerialInv'
<1>1. UNCHANGED setting
  BY SettingKept
<1> SUFFICES ASSUME Serial PROVE \A t \in setting.threads : InTurn(t)'
  BY <1>1 DEF SerialInv, Serial
<1>2. PICK t \in Threads : setting.threads = {t}
  BY OneThread
<1>3. InTurn(t)
  BY <1>2 DEF SerialInv
<1>4. ~CacheUpDown
  BY DEF CacheUpDown, Serial
<1>5. \/ LoadTable(t) \/ StoreTable(t) \/ Abandon(t) \/ Invalidate(t)
      \/ \E k \in Caches : Expire(k)
      \/ UNCHANGED vars
      \/ Recalculate(t) \/ StartSync(t) \/ SyncDone(t) \/ GrantsCreated(t)
      \/ \E pk \in Pks, op \in {"toggle", "edit", "delete"} : LoadRole(t, op, pk)
      \/ SaveRank(t) \/ DeleteRole(t)
      \/ \E p \in Pages, g \in {"allowed", "denied"} : WriteGrant(t, p, g)
      \/ \E c \in Codes, a \in BOOLEAN : SaveRole(t, c, a)
      \/ \E p \in Pages : CreateGrant(t, p)
      \/ \E pk \in Pks, c \in Codes : CreateRole(t, pk, c)
      \/ SyncRole(t)
  BY <1>2, <1>4 DEF Next, Check, Write
<1>6. InTurn(t)'
  BY <1>2, <1>3, <1>5, ReadInTurn, PrepareInTurn, WriteInTurn, CreateInTurn, SyncInTurn
<1>7. QED
  BY <1>2, <1>6

LEMMA InitSerial == Init => SerialInv
<1> SUFFICES ASSUME Init, Serial, NEW t \in setting.threads PROVE InTurn(t)
  BY DEF SerialInv
<1>1. t \in Threads
  BY InitIInv, SettingsOK DEF IInv, TypeOK, Setting
<1>2. req[t] = NoRequest
  BY <1>1 DEF Init
<1>3. Alone(t)
  BY DEF Init, Alone
<1>4. Fresh(t)
  BY <1>1, <1>2, IdleFields, CacheOfThread DEF Init, Fresh
<1>5. Same(t)
  BY <1>2, IdleFields DEF Same
<1>6. Granting(t)
  <2>1. \A pk \in Pks, p \in Pages :
           grants[pk][p] = IF Live(pk) THEN DefaultGrant(p, rows[pk].code) ELSE "none"
    BY DEF Init
  <2>2. \A p, c : DefaultGrant(p, c) # "none"
    BY DEF DefaultGrant
  <2>3. QED
    BY <1>2, <2>1, <2>2, IdleFields DEF Granting, Live
<1>7. Ranks(t)
  <2>1. \A pk \in Pks : Live(pk) => rows[pk].system
    BY SystemRowIsRow DEF Init, Live
  <2>2. QED
    BY <1>2, <2>1, IdleFields DEF Ranks, RankRight
<1>8. QED
  BY <1>3, <1>4, <1>5, <1>6, <1>7 DEF InTurn

(* What a request on its own has still to repair, at every stage of it. *)
THEOREM SerialInvariant == Spec => [](IInv /\ SerialInv)
<1>1. Init => IInv /\ SerialInv
  BY InitIInv, InitSerial
<1>2. (IInv /\ SerialInv) /\ [Next]_vars => (IInv /\ SerialInv)'
  BY TypeStep, RequestsStep, SerialStep DEF IInv
<1>3. QED
  BY <1>1, <1>2, PTL DEF Spec

(* When nothing is under way, all of it is repaired. *)
LEMMA AtRest ==
  ASSUME IInv, SerialInv, Serial, ~Busy
  PROVE  \E t \in Threads : setting.threads = {t} /\ InTurn(t) /\ req[t] = NoRequest
<1>1. PICK t \in Threads : setting.threads = {t}
  BY OneThread
<1>2. req[t] = NoRequest
  BY DEF Busy, IInv, Requests, Placed
<1>3. QED
  BY <1>1, <1>2 DEF SerialInv

(* One request at a time: once a handler or a check is over, every cache holds the table
   that _load would give, or none, for any roles, pages and caches. *)
THEOREM TableCurrent == Spec => []CachedTableCurrent
<1>1. ASSUME IInv, SerialInv, Serial, ~Busy, NEW k \in Caches
      PROVE  cache[k] \in {NoTable, Loaded}
  <2>1. PICK t \in Threads : InTurn(t) /\ req[t] = NoRequest
    BY <1>1, AtRest
  <2>2. QED
    BY <2>1, IdleFields DEF InTurn, Alone, Fresh, Reading
<1>2. IInv /\ SerialInv => CachedTableCurrent
  BY <1>1 DEF CachedTableCurrent
<1>3. QED
  BY SerialInvariant, <1>2, PTL

(* One request at a time: between requests the rank of every role that is not built in
   is the one its grants give, whatever sequence of handlers led there. *)
THEOREM RanksFollow == Spec => []RankFollowsGrants
<1>1. ASSUME IInv, SerialInv, Serial, ~Busy, NEW pk \in Pks
      PROVE  RankRight(pk)
  <2>1. PICK t \in Threads : InTurn(t) /\ req[t] = NoRequest
    BY <1>1, AtRest
  <2>2. QED
    BY <2>1, IdleFields DEF InTurn, Ranks, Completing
<1>2. IInv /\ SerialInv => RankFollowsGrants
  BY <1>1 DEF RankFollowsGrants, RankRight
<1>3. QED
  BY SerialInvariant, <1>2, PTL

(* One request at a time: while nothing is written, every role has a grant, allowed or
   denied, for every page, also those that sync_roles found or created. *)
THEOREM GrantsWhole == Spec => []GrantsComplete
<1>1. ASSUME IInv, SerialInv, Serial, ~Writing, NEW pk \in Pks, Live(pk), NEW p \in Pages
      PROVE  grants[pk][p] # "none"
  <2>1. PICK t \in Threads : setting.threads = {t}
    BY <1>1, OneThread
  <2>2. InTurn(t)
    BY <1>1, <2>1 DEF SerialInv
  <2>3. req[t] \in Request /\ Placed(req[t]) /\ req[t].op \in {"none", "lookup"}
    BY <1>1 DEF Writing, IInv, Requests
  <2>4. req[t].at # "granting"
    BY <2>3, PlacedStage
  <2>5. QED
    BY <1>1, <2>2, <2>4 DEF InTurn, Granting
<1>2. IInv /\ SerialInv => GrantsComplete
  BY <1>1 DEF GrantsComplete
<1>3. QED
  BY SerialInvariant, <1>2, PTL

-----------------------------------------------------------------------------
(* The switches of the role screen: what is under way for one page, and how the switch
   and the stored grant relate to it. *)

FetchState ==
  [page : ShownPages, allowed : BOOLEAN, client : {"waiting", "resolved", "rejected"},
   server : {"sent", "lost", "serving", "ok", "failed"}, wrote : BOOLEAN, late : BOOLEAN,
   eager : BOOLEAN]

ScreenTypes ==
  /\ switch \in [ShownPages -> BOOLEAN]
  /\ fetches \in Seq(FetchState)
  /\ serving \in [Threads -> 0..Len(fetches)]
  /\ Shown \in Pks /\ Live(Shown)

(* A thread that works for the screen has a request of its own in hand. *)
Served ==
  /\ \A s, t \in Threads : serving[s] # 0 /\ serving[s] = serving[t] => s = t
  /\ \A t \in Threads : serving[t] # 0 =>
        /\ fetches[serving[t]].server = "serving"
        /\ req[t].op = "toggle" /\ req[t].pk = Shown
        /\ req[t].at = "loaded" <=> ~fetches[serving[t]].wrote
  /\ \A t \in Threads : serving[t] = 0 => req[t].op \in {"none", "lookup"}

Reported ==
  \A i \in Ids :
     /\ fetches[i].server \in {"sent", "lost"} => ~fetches[i].wrote
     /\ fetches[i].server = "ok" => fetches[i].wrote
     /\ fetches[i].client = "resolved" => fetches[i].server = "ok"

Latest(p, i) == i \in Of(p) /\ \A j \in Of(p) : j <= i

(* Stored in the order of the clicks, the grant is that of the last one stored. *)
Stored(p) ==
  (\A i \in Of(p) : ~fetches[i].late) =>
    \A i \in Of(p) :
       fetches[i].wrote /\ (\A j \in Of(p) : fetches[j].wrote => j <= i)
         => (Granted(p) <=> fetches[i].allowed)

(* While nothing was rejected the switch is where the last click put it. *)
Clicked(p) ==
  /\ Of(p) = {} => (switch[p] <=> Granted(p))
  /\ Of(p) # {} =>
       \E i \in Of(p) :
          /\ Latest(p, i)
          /\ (\A j \in Of(p) : fetches[j].client # "rejected")
               => (switch[p] <=> fetches[i].allowed)

InTurns(p) == \A i \in Of(p) : ~fetches[i].eager
Honest(p) == \A i \in Of(p) : fetches[i].client = "rejected" => ~fetches[i].wrote

Single(p) == InTurns(p) => \A i \in Waiting(p) : Latest(p, i)

(* Clicked one after the other, and nothing rejected that was stored: between the clicks
   the switch tells the grant; during one, the grant before or after it. *)
Followed(p) ==
  InTurns(p) /\ Honest(p) =>
    /\ Waiting(p) = {} => (switch[p] <=> Granted(p))
    /\ \A i \in Waiting(p) :
          /\ switch[p] <=> fetches[i].allowed
          /\ Granted(p) <=> (fetches[i].wrote <=> fetches[i].allowed)

PageInv(p) == Stored(p) /\ Clicked(p) /\ Single(p) /\ Followed(p)

OnScreen == setting \in ScreenSettings

ScreenInv == ScreenTypes /\ Served /\ Reported /\ \A p \in ShownPages : PageInv(p)

(* What a step does to the requests of a page. *)
SameFetch(i) ==
  /\ fetches'[i].page = fetches[i].page /\ fetches'[i].allowed = fetches[i].allowed
  /\ fetches'[i].eager = fetches[i].eager /\ fetches'[i].client = fetches[i].client
  /\ fetches'[i].wrote = fetches[i].wrote /\ fetches'[i].late = fetches[i].late

LEMMA PageKept ==
  ASSUME NEW p, PageInv(p), Of(p)' = Of(p), \A i \in Of(p) : SameFetch(i),
         switch'[p] = switch[p], Granted(p)' = Granted(p)
  PROVE  PageInv(p)'
<1>1. Waiting(p)' = Waiting(p)
  BY DEF Waiting, SameFetch
<1>2. Stored(p)'
  BY DEF PageInv, Stored, SameFetch
<1>3. Clicked(p)'
  BY DEF PageInv, Clicked, Latest, SameFetch
<1>4. InTurns(p)' = InTurns(p) /\ Honest(p)' = Honest(p)
  BY DEF InTurns, Honest, SameFetch
<1>5. Single(p)'
  BY <1>1, <1>4 DEF PageInv, Single, Latest
<1>6. Followed(p)'
  BY <1>1, <1>4 DEF PageInv, Followed, Waiting, SameFetch
<1>7. QED
  BY <1>2, <1>3, <1>5, <1>6 DEF PageInv

LEMMA PageClicked ==
  ASSUME NEW p, PageInv(p), Len(fetches) \in Nat,
         NEW n, n = Len(fetches) + 1,
         Of(p)' = Of(p) \cup {n}, \A i \in Of(p) : SameFetch(i),
         fetches'[n].allowed <=> ~switch[p], fetches'[n].client = "waiting",
         ~fetches'[n].wrote, ~fetches'[n].late,
         fetches'[n].eager <=> Waiting(p) # {},
         switch'[p] <=> ~switch[p], Granted(p)' = Granted(p)
  PROVE  PageInv(p)'
<1>1. n \in Nat /\ n \notin Of(p) /\ \A i \in Of(p) : i \in Nat /\ i < n
  BY DEF Of, Ids
<1>2. Waiting(p)' = Waiting(p) \cup {n}
  BY <1>1 DEF Waiting, SameFetch
<1>3. Stored(p)'
  BY <1>1 DEF PageInv, Stored, SameFetch
<1>4. Latest(p, n)'
  BY <1>1 DEF Latest
<1>5. Clicked(p)'
  BY <1>4 DEF Clicked
<1>6. InTurns(p)' => InTurns(p) /\ Waiting(p) = {}
  BY DEF InTurns, SameFetch
<1>7. Honest(p)' => Honest(p)
  BY DEF Honest, SameFetch
<1>8. Single(p)'
  BY <1>2, <1>4, <1>6 DEF Single
<1>9. Followed(p)'
  <2> SUFFICES ASSUME InTurns(p)', Honest(p)' PROVE Followed(p)'
    BY DEF Followed
  <2>1. switch[p] <=> Granted(p)
    BY <1>6, <1>7 DEF PageInv, Followed
  <2>2. Waiting(p)' = {n}
    BY <1>2, <1>6
  <2>3. QED
    BY <2>1, <2>2 DEF Followed
<1>10. QED
  BY <1>3, <1>5, <1>8, <1>9 DEF PageInv

LEMMA PageSettled ==
  ASSUME NEW p, PageInv(p), NEW i \in Waiting(p), Of(p) \subseteq Int,
         Of(p)' = Of(p), \A j \in Of(p) \ {i} : SameFetch(j),
         fetches'[i].allowed = fetches[i].allowed, fetches'[i].eager = fetches[i].eager,
         fetches'[i].wrote = fetches[i].wrote, fetches'[i].late = fetches[i].late,
         \/ fetches'[i].client = "resolved" /\ fetches[i].wrote /\ switch'[p] = switch[p]
         \/ fetches'[i].client = "rejected" /\ (switch'[p] <=> ~fetches[i].allowed),
         Granted(p)' = Granted(p)
  PROVE  PageInv(p)'
<1>1. i \in Of(p) /\ fetches[i].client = "waiting" /\ Waiting(p)' = Waiting(p) \ {i}
  BY DEF Waiting, SameFetch
<1>2. Stored(p)'
  BY <1>1 DEF PageInv, Stored, SameFetch
<1>3. Clicked(p)'
  <2>1. PICK last \in Of(p) :
           /\ Latest(p, last)
           /\ (\A j \in Of(p) : fetches[j].client # "rejected")
                => (switch[p] <=> fetches[last].allowed)
    BY <1>1 DEF PageInv, Clicked
  <2>2. Latest(p, last)' /\ fetches'[last].allowed = fetches[last].allowed
    BY <2>1 DEF Latest, SameFetch
  <2>3. (\A j \in Of(p) : fetches'[j].client # "rejected") =>
          /\ \A j \in Of(p) : fetches[j].client # "rejected"
          /\ switch'[p] = switch[p]
    BY <1>1 DEF SameFetch
  <2>4. QED
    BY <1>1, <2>1, <2>2, <2>3 DEF Clicked
<1>4. InTurns(p)' => InTurns(p)
  BY <1>1 DEF InTurns, SameFetch
<1>5. Honest(p)' => Honest(p) /\ (fetches'[i].client = "rejected" => ~fetches[i].wrote)
  BY <1>1 DEF Honest, SameFetch
<1>6. Single(p)'
  BY <1>1, <1>4 DEF PageInv, Single, Latest
<1>7. Followed(p)'
  <2> SUFFICES ASSUME InTurns(p)', Honest(p)' PROVE Followed(p)'
    BY DEF Followed
  <2>1. /\ switch[p] <=> fetches[i].allowed
        /\ Granted(p) <=> (fetches[i].wrote <=> fetches[i].allowed)
    BY <1>4, <1>5 DEF PageInv, Followed
  <2>2. \A j \in Waiting(p) : Latest(p, j)
    BY <1>4 DEF PageInv, Single
  <2>3. \A j \in Waiting(p) : j = i
    BY <1>1, <2>2 DEF Latest
  <2>4. Waiting(p)' = {}
    BY <1>1, <2>3
  <2>5. switch'[p] <=> Granted(p)
    BY <1>5, <2>1
  <2>6. QED
    BY <2>4, <2>5 DEF Followed
<1>8. QED
  BY <1>2, <1>3, <1>6, <1>7 DEF PageInv

LEMMA PageStored ==
  ASSUME NEW p, PageInv(p), NEW i \in Of(p), Of(p) \subseteq Int, ~fetches[i].wrote,
         fetches[i].client # "resolved",
         fetches[i].client \in {"waiting", "resolved", "rejected"},
         Of(p)' = Of(p), \A j \in Of(p) \ {i} : SameFetch(j),
         fetches'[i].allowed = fetches[i].allowed, fetches'[i].eager = fetches[i].eager,
         fetches'[i].client = fetches[i].client, fetches'[i].wrote,
         fetches'[i].late <=> \E j \in Of(p) : j > i /\ fetches[j].wrote,
         switch'[p] = switch[p], Granted(p)' <=> fetches[i].allowed
  PROVE  PageInv(p)'
<1>1. Waiting(p)' = Waiting(p)
  BY DEF Waiting, SameFetch
<1>2. Stored(p)'
  <2> SUFFICES ASSUME \A j \in Of(p) : ~fetches'[j].late,
                      NEW last \in Of(p), fetches'[last].wrote,
                      \A j \in Of(p) : fetches'[j].wrote => j <= last
               PROVE  last = i
    BY DEF Stored
  <2>1. i <= last
    OBVIOUS
  <2>2. ~(last > i)
    BY DEF SameFetch
  <2>3. QED
    BY <2>1, <2>2
<1>3. Clicked(p)'
  <2>1. \A j \in Of(p) : /\ fetches'[j].client = fetches[j].client
                         /\ fetches'[j].allowed = fetches[j].allowed
    BY DEF SameFetch
  <2>2. QED
    BY <2>1 DEF PageInv, Clicked, Latest
<1>4. InTurns(p)' => InTurns(p)
  BY DEF InTurns, SameFetch
<1>5. Honest(p)' => Honest(p) /\ fetches[i].client # "rejected"
  BY DEF Honest, SameFetch
<1>6. Single(p)'
  BY <1>1, <1>4 DEF PageInv, Single, Latest
<1>7. Followed(p)'
  <2> SUFFICES ASSUME InTurns(p)', Honest(p)' PROVE Followed(p)'
    BY DEF Followed
  <2>1. i \in Waiting(p)
    BY <1>5 DEF Waiting
  <2>2. switch[p] <=> fetches[i].allowed
    BY <1>4, <1>5, <2>1 DEF PageInv, Followed
  <2>3. \A j \in Waiting(p) : Latest(p, j)
    BY <1>4 DEF PageInv, Single
  <2>4. \A j \in Waiting(p) : j = i
    BY <2>1, <2>3 DEF Latest
  <2>5. QED
    BY <1>1, <2>1, <2>2, <2>4 DEF Followed
<1>8. QED
  BY <1>2, <1>3, <1>6, <1>7 DEF PageInv


(* The screen shows every page of the application, and its steps are steps of the server
   of RoleTable or none. *)
LEMMA ScreenPages ==
  ASSUME OnScreen
  PROVE  /\ setting \in Settings /\ "toggle" \in setting.handlers
         /\ Pages = ShownPages /\ setting.threads = Threads
BY ScreenSettingsOK DEF OnScreen, Pages

LEMMA Fetched ==
  ASSUME ScreenTypes, NEW t \in Threads, serving[t] # 0
  PROVE  serving[t] \in Ids /\ fetches[serving[t]] \in FetchState
<1>1. serving[t] \in Ids
  BY DEF ScreenTypes, Ids
<1>2. QED
  BY <1>1 DEF ScreenTypes, Ids

LEMMA ServerStep ==
  ASSUME IInv, OnScreen, ScreenTypes, [ScreenNext]_allVars
  PROVE  [Next]_vars
<1>1. Pages = ShownPages /\ setting.threads = Threads /\ "toggle" \in setting.handlers
  BY ScreenPages
<1>2. CASE (\E p \in Pages : Click(p)) \/ \E i \in Ids : Settle(i) \/ LoseRequest(i)
  BY <1>2 DEF Click, Settle, Resolve, Reject, LoseRequest
<1>3. ASSUME NEW t \in Threads, NEW i \in Ids, Deliver(t, i)
      PROVE  Write(t)
  BY <1>1, <1>3 DEF Deliver, Write, ScreenTypes
<1>4. ASSUME NEW t \in Threads, StoreGrant(t)
      PROVE  Write(t)
  <2>1. fetches[serving[t]].page \in Pages
    BY <1>1, <1>4, Fetched DEF StoreGrant, FetchState
  <2>2. PICK g \in {"allowed", "denied"} : WriteGrant(t, fetches[serving[t]].page, g)
    BY <1>4 DEF StoreGrant
  <2>3. QED
    BY <2>1, <2>2 DEF Write
<1>5. ASSUME NEW t \in Threads, UpdateRank(t) \/ DropTable(t) \/ FailRequest(t)
      PROVE  Write(t)
  BY <1>5 DEF UpdateRank, DropTable, FailRequest, Write
<1>6. ASSUME NEW t \in Threads, CheckPermission(t)
      PROVE  Check(t)
  BY <1>6 DEF CheckPermission
<1>7. CASE Surroundings
  BY <1>7 DEF Surroundings, Next
<1>8. CASE UNCHANGED allVars
  BY <1>8 DEF allVars
<1>9. ASSUME NEW t \in Threads, Work(t)
      PROVE  Next
  BY <1>1, <1>3, <1>4, <1>5, <1>6, <1>9 DEF Work, Next
<1>10. QED
  BY <1>2, <1>7, <1>8, <1>9 DEF ScreenNext

LEMMA FetchChanged ==
  ASSUME fetches \in Seq(FetchState), NEW i \in Ids, NEW r \in FetchState,
         r.page = fetches[i].page, fetches' = [fetches EXCEPT ![i] = r]
  PROVE  /\ fetches' \in Seq(FetchState) /\ Len(fetches') = Len(fetches) /\ Ids' = Ids
         /\ fetches'[i] = r
         /\ \A j \in Ids \ {i} : fetches'[j] = fetches[j]
         /\ \A p : Of(p)' = Of(p)
<1>1. fetches' \in Seq(FetchState) /\ Len(fetches') = Len(fetches)
  BY DEF Ids
<1>2. Ids' = Ids
  BY <1>1 DEF Ids
<1>3. fetches'[i] = r /\ \A j \in Ids \ {i} : fetches'[j] = fetches[j]
  BY DEF Ids
<1>4. ASSUME NEW p PROVE Of(p)' = Of(p)
  <2>1. \A j \in Ids : fetches'[j].page = fetches[j].page
    BY <1>3
  <2>2. QED
    BY <1>2, <2>1 DEF Of
<1>5. QED
  BY <1>1, <1>2, <1>3, <1>4

LEMMA IdsTyped ==
  ASSUME ScreenTypes
  PROVE  /\ \A i \in Ids : i \in Nat \ {0} /\ fetches[i] \in FetchState
         /\ \A p : Of(p) \subseteq Ids
         /\ Len(fetches) \in Nat
BY DEF ScreenTypes, Ids, Of

LEMMA ShownLives ==
  ASSUME ScreenTypes, UNCHANGED rows
  PROVE  Shown \in Pks /\ Live(Shown)'
BY DEF ScreenTypes, Live

LEMMA GrantedKept ==
  ASSUME UNCHANGED grants, NEW p
  PROVE  Granted(p)' = Granted(p)
BY DEF Granted

LEMMA ClickStep ==
  ASSUME IInv, ScreenInv, NEW p \in ShownPages, Click(p)
  PROVE  ScreenInv'
<1>1. ScreenTypes /\ Served /\ Reported /\ \A q \in ShownPages : PageInv(q)
  BY DEF ScreenInv
<1> DEFINE n == Len(fetches) + 1
<1>2. switch[p] \in BOOLEAN /\ fetches \in Seq(FetchState) /\ Len(fetches) \in Nat
  BY <1>1 DEF ScreenTypes
<1>3. PICK wanted \in BOOLEAN, together \in BOOLEAN :
        wanted = ~switch[p] /\ together = (Waiting(p) # {})
  OBVIOUS
<1> DEFINE new == [page |-> p, allowed |-> wanted, client |-> "waiting", server |-> "sent",
                   wrote |-> FALSE, late |-> FALSE, eager |-> together]
<1>4. fetches' = Append(fetches, new)
  BY <1>3 DEF Click
<1>5. new \in FetchState
  BY DEF FetchState
<1>6. /\ new.page = p /\ new.allowed = wanted /\ new.client = "waiting" /\ new.server = "sent"
      /\ new.wrote = FALSE /\ new.late = FALSE /\ new.eager = together
  OBVIOUS
<1> HIDE DEF new
<1>7. /\ fetches' \in Seq(FetchState) /\ Len(fetches') = n /\ n \in Nat /\ Ids' = Ids \cup {n}
      /\ fetches'[n] = new /\ \A i \in Ids : fetches'[i] = fetches[i] /\ i # n
  BY <1>2, <1>4, <1>5 DEF Ids
<1> HIDE DEF n
<1>8. \A q : q # p => Of(q)' = Of(q)
  BY <1>6, <1>7 DEF Of
<1>9. Of(p)' = Of(p) \cup {n}
  BY <1>6, <1>7 DEF Of
<1>10. \A q : \A i \in Of(q) : SameFetch(i)
  BY <1>7 DEF Of, SameFetch
<1>11. UNCHANGED <<rows, grants, req, serving>>
  BY DEF Click, vars
<1>12. switch' = [switch EXCEPT ![p] = ~@]
  BY DEF Click
<1>13. ScreenTypes'
  <2>1. switch' \in [ShownPages -> BOOLEAN]
    BY <1>1, <1>12 DEF ScreenTypes
  <2>2. serving' \in [Threads -> 0..Len(fetches')]
    BY <1>1, <1>2, <1>7, <1>11 DEF ScreenTypes, n
  <2>3. QED
    BY <1>1, <1>7, <1>11, <2>1, <2>2, ShownLives DEF ScreenTypes
<1>14. Served'
  <2>1. \A t \in Threads : serving[t] # 0 => fetches'[serving[t]] = fetches[serving[t]]
    BY <1>1, <1>7, Fetched
  <2>2. QED
    BY <1>1, <1>11, <2>1 DEF Served
<1>15. Reported'
  BY <1>1, <1>6, <1>7 DEF Reported
<1>16. ASSUME NEW q \in ShownPages
       PROVE  PageInv(q)'
  <2>1. CASE q = p
    <3>1. switch'[p] <=> ~switch[p]
      BY <1>1, <1>12 DEF ScreenTypes
    <3>2. n = Len(fetches) + 1
      BY DEF n
    <3>3. /\ fetches'[n].allowed <=> ~switch[p]
          /\ fetches'[n].client = "waiting"
          /\ ~fetches'[n].wrote /\ ~fetches'[n].late
          /\ fetches'[n].eager <=> Waiting(p) # {}
      BY <1>3, <1>6, <1>7
    <3>4. QED
      BY <1>1, <1>2, <1>9, <1>10, <1>11, <2>1, <3>1, <3>2, <3>3, GrantedKept, PageClicked
  <2>2. CASE q # p
    <3>1. switch'[q] = switch[q]
      BY <1>1, <1>12, <2>2 DEF ScreenTypes
    <3>2. QED
      BY <1>1, <1>8, <1>10, <1>11, <2>2, <3>1, GrantedKept, PageKept
  <2>3. QED
    BY <2>1, <2>2
<1>17. QED
  BY <1>13, <1>14, <1>15, <1>16 DEF ScreenInv

(* The answer reaches the browser, or does not. *)
LEMMA SettleStep ==
  ASSUME IInv, ScreenInv, NEW i \in Ids, Settle(i)
  PROVE  ScreenInv'
<1>1. ScreenTypes /\ Served /\ Reported /\ \A q \in ShownPages : PageInv(q)
  BY DEF ScreenInv
<1>2. fetches[i] \in FetchState /\ fetches \in Seq(FetchState)
  BY <1>1, IdsTyped DEF ScreenTypes
<1> DEFINE p == fetches[i].page
<1>3. p \in ShownPages /\ fetches[i].allowed \in BOOLEAN
  BY <1>2 DEF FetchState
<1>4. PICK outcome \in {"resolved", "rejected"} :
        /\ fetches[i].client = "waiting"
        /\ fetches' = [fetches EXCEPT ![i] = [fetches[i] EXCEPT !.client = outcome]]
        /\ saving' = [saving EXCEPT ![p] = FALSE] /\ UNCHANGED <<vars, serving>>
        /\ \/ outcome = "resolved" /\ fetches[i].server = "ok" /\ switch' = switch
           \/ outcome = "rejected" /\ switch' = [switch EXCEPT ![p] = ~fetches[i].allowed]
  <2>1. CASE Resolve(i)
    BY <2>1 DEF Resolve
  <2>2. CASE Reject(i)
    BY <2>2 DEF Reject
  <2>3. QED
    BY <2>1, <2>2 DEF Settle
<1> DEFINE r == [fetches[i] EXCEPT !.client = outcome]
<1>5. r \in FetchState
  BY <1>2 DEF FetchState
<1>6. /\ r.page = p /\ r.allowed = fetches[i].allowed /\ r.client = outcome
      /\ r.server = fetches[i].server /\ r.wrote = fetches[i].wrote
      /\ r.late = fetches[i].late /\ r.eager = fetches[i].eager
  BY <1>2 DEF FetchState
<1>7. fetches' = [fetches EXCEPT ![i] = r]
  BY <1>4
<1> HIDE DEF r, p
<1>8. r.page = fetches[i].page
  BY <1>6 DEF p
<1>9. /\ fetches' \in Seq(FetchState) /\ Len(fetches') = Len(fetches) /\ Ids' = Ids
      /\ fetches'[i] = r /\ \A j \in Ids \ {i} : fetches'[j] = fetches[j]
      /\ \A q : Of(q)' = Of(q)
  BY <1>2, <1>5, <1>7, <1>8, FetchChanged
<1>10. \A j \in Ids \ {i} : SameFetch(j)
  BY <1>9 DEF SameFetch
<1>11. UNCHANGED <<rows, grants, req, serving>>
  BY <1>4 DEF vars
<1>12. switch' \in [ShownPages -> BOOLEAN] /\ \A q \in ShownPages \ {p} : switch'[q] = switch[q]
  BY <1>1, <1>3, <1>4 DEF ScreenTypes
<1>13. ScreenTypes'
  BY <1>1, <1>9, <1>11, <1>12, ShownLives DEF ScreenTypes
<1>14. Served'
  <2>1. \A t \in Threads : serving[t] # 0 =>
          /\ fetches'[serving[t]].server = fetches[serving[t]].server
          /\ fetches'[serving[t]].wrote = fetches[serving[t]].wrote
    BY <1>1, <1>6, <1>9, Fetched
  <2>2. QED
    BY <1>1, <1>11, <2>1 DEF Served
<1>15. Reported'
  <2>1. \A j \in Ids : /\ fetches'[j].server = fetches[j].server
                       /\ fetches'[j].wrote = fetches[j].wrote
                       /\ j # i => fetches'[j].client = fetches[j].client
    BY <1>6, <1>9
  <2>2. fetches'[i].client = "resolved" => fetches[i].server = "ok"
    BY <1>4, <1>6, <1>9
  <2>3. QED
    BY <1>1, <1>9, <2>1, <2>2 DEF Reported
<1>16. i \in Of(p) /\ \A q : q # p => i \notin Of(q)
  BY DEF Of, p
<1>17. ASSUME NEW q \in ShownPages
       PROVE  PageInv(q)'
  <2>1. Of(q) \subseteq Ids /\ Of(q) \subseteq Int
    BY <1>1, IdsTyped
  <2>2. CASE q = p
    <3>1. i \in Waiting(p)
      BY <1>4, <1>16 DEF Waiting
    <3>2. \/ fetches'[i].client = "resolved" /\ fetches[i].wrote /\ switch'[p] = switch[p]
          \/ fetches'[i].client = "rejected" /\ (switch'[p] <=> ~fetches[i].allowed)
      BY <1>1, <1>3, <1>4, <1>6, <1>9 DEF Reported, ScreenTypes
    <3>3. \A j \in Of(p) \ {i} : SameFetch(j)
      BY <1>10, <2>1, <2>2
    <3>4. /\ fetches'[i].allowed = fetches[i].allowed /\ fetches'[i].eager = fetches[i].eager
          /\ fetches'[i].wrote = fetches[i].wrote /\ fetches'[i].late = fetches[i].late
      BY <1>6, <1>9
    <3>5. QED
      BY <1>1, <1>3, <1>9, <1>11, <2>1, <2>2, <3>1, <3>2, <3>3, <3>4, GrantedKept, PageSettled
  <2>3. CASE q # p
    BY <1>1, <1>9, <1>10, <1>11, <1>12, <1>16, <2>1, <2>3, GrantedKept, PageKept
  <2>4. QED
    BY <2>2, <2>3
<1>18. QED
  BY <1>13, <1>14, <1>15, <1>17 DEF ScreenInv

Outcomes == {"sent", "lost", "serving", "ok", "failed"}

LEMMA ServerChanged ==
  ASSUME ScreenTypes, NEW i \in Ids, NEW outcome \in Outcomes,
         fetches' = [fetches EXCEPT ![i].server = outcome]
  PROVE  /\ fetches' \in Seq(FetchState) /\ Len(fetches') = Len(fetches) /\ Ids' = Ids
         /\ fetches'[i].server = outcome
         /\ \A j \in Ids : SameFetch(j)
         /\ \A j \in Ids \ {i} : fetches'[j].server = fetches[j].server
         /\ \A p : Of(p)' = Of(p)
<1>1. fetches[i] \in FetchState /\ fetches \in Seq(FetchState)
  BY IdsTyped DEF ScreenTypes
<1> DEFINE r == [fetches[i] EXCEPT !.server = outcome]
<1>2. r \in FetchState
  BY <1>1 DEF FetchState, Outcomes
<1>3. /\ r.page = fetches[i].page /\ r.allowed = fetches[i].allowed
      /\ r.client = fetches[i].client /\ r.server = outcome /\ r.wrote = fetches[i].wrote
      /\ r.late = fetches[i].late /\ r.eager = fetches[i].eager
  BY <1>1 DEF FetchState
<1>4. fetches' = [fetches EXCEPT ![i] = r]
  OBVIOUS
<1> HIDE DEF r
<1>5. /\ fetches' \in Seq(FetchState) /\ Len(fetches') = Len(fetches) /\ Ids' = Ids
      /\ fetches'[i] = r /\ \A j \in Ids \ {i} : fetches'[j] = fetches[j]
      /\ \A p : Of(p)' = Of(p)
  BY <1>1, <1>2, <1>3, <1>4, FetchChanged
<1>6. \A j \in Ids : SameFetch(j)
  BY <1>3, <1>5 DEF SameFetch
<1>7. QED
  BY <1>3, <1>5, <1>6

LEMMA PagesKept ==
  ASSUME ScreenInv, \A p : Of(p)' = Of(p), \A j \in Ids : SameFetch(j),
         UNCHANGED <<switch, grants>>
  PROVE  \A p \in ShownPages : PageInv(p)'
<1>1. ASSUME NEW p \in ShownPages PROVE PageInv(p)'
  <2>1. Of(p) \subseteq Ids
    BY IdsTyped DEF ScreenInv
  <2>2. \A j \in Of(p) : SameFetch(j)
    BY <2>1
  <2>3. PageInv(p) /\ switch'[p] = switch[p] /\ Granted(p)' = Granted(p)
    BY GrantedKept DEF ScreenInv
  <2>4. QED
    BY <2>2, <2>3, PageKept
<1>2. QED
  BY <1>1

(* What thread t does to its request. *)
LEMMA RequestOnly ==
  ASSUME IInv, NEW t \in Threads, NEW r, Advance(t, r)
  PROVE  req'[t] = r /\ \A u \in Threads \ {t} : req'[u] = req[u]
BY DEF IInv, Requests, Advance

LEMMA LoseStep ==
  ASSUME IInv, ScreenInv, NEW i \in Ids, LoseRequest(i)
  PROVE  ScreenInv'
<1>1. ScreenTypes /\ Served /\ Reported
  BY DEF ScreenInv
<1>2. /\ fetches[i].server = "sent" /\ fetches' = [fetches EXCEPT ![i].server = "lost"]
      /\ UNCHANGED <<rows, grants, req, switch, serving>>
  BY DEF LoseRequest, vars
<1>3. /\ fetches' \in Seq(FetchState) /\ Len(fetches') = Len(fetches) /\ Ids' = Ids
      /\ fetches'[i].server = "lost" /\ \A j \in Ids : SameFetch(j)
      /\ \A j \in Ids \ {i} : fetches'[j].server = fetches[j].server
      /\ \A p : Of(p)' = Of(p)
  BY <1>1, <1>2, ServerChanged DEF Outcomes
<1>4. ScreenTypes'
  BY <1>1, <1>2, <1>3, ShownLives DEF ScreenTypes
<1>5. Served'
  <2>1. \A t \in Threads : serving[t] # 0 => serving[t] \in Ids \ {i}
    BY <1>1, <1>2, Fetched DEF Served
  <2>2. QED
    BY <1>1, <1>2, <1>3, <2>1 DEF Served, SameFetch
<1>6. Reported'
  BY <1>1, <1>2, <1>3 DEF Reported, SameFetch
<1>7. QED
  BY <1>2, <1>3, <1>4, <1>5, <1>6, PagesKept DEF ScreenInv

LEMMA DeliverStep ==
  ASSUME IInv, ScreenInv, NEW t \in Threads, NEW i \in Ids, Deliver(t, i)
  PROVE  ScreenInv'
<1>1. ScreenTypes /\ Served /\ Reported
  BY DEF ScreenInv
<1>2. /\ fetches[i].server = "sent" /\ req[t] = NoRequest
      /\ fetches' = [fetches EXCEPT ![i].server = "serving"]
      /\ serving' = [serving EXCEPT ![t] = i]
      /\ UNCHANGED <<rows, grants, switch>>
  BY DEF Deliver, LoadRole
<1>3. /\ fetches' \in Seq(FetchState) /\ Len(fetches') = Len(fetches) /\ Ids' = Ids
      /\ fetches'[i].server = "serving" /\ \A j \in Ids : SameFetch(j)
      /\ \A j \in Ids \ {i} : fetches'[j].server = fetches[j].server
      /\ \A p : Of(p)' = Of(p)
  BY <1>1, <1>2, ServerChanged DEF Outcomes
<1>4. serving'[t] = i /\ \A u \in Threads \ {t} : serving'[u] = serving[u]
  BY <1>1, <1>2 DEF ScreenTypes
<1>5. ScreenTypes'
  <2>1. serving' \in [Threads -> 0..Len(fetches)]
    BY <1>1, <1>2 DEF ScreenTypes, Ids
  <2>2. QED
    BY <1>1, <1>2, <1>3, <2>1, ShownLives DEF ScreenTypes
<1>6. Served'
  <2>1. /\ req'[t].op = "toggle" /\ req'[t].pk = Shown /\ req'[t].at = "loaded"
        /\ \A u \in Threads \ {t} : req'[u] = req[u]
    <3> DEFINE r == [NoRequest EXCEPT !.op = "toggle", !.at = "loaded", !.pk = Shown,
                                      !.copy = rows[Shown]]
    <3>1. Advance(t, r)
      BY DEF Deliver, LoadRole
    <3>2. r.op = "toggle" /\ r.pk = Shown /\ r.at = "loaded"
      BY DEF NoRequest
    <3> HIDE DEF r
    <3>3. QED
      BY <3>1, <3>2, RequestOnly
  <2>2. \A u \in Threads \ {t} : serving[u] # 0 => serving[u] \in Ids \ {i}
    BY <1>1, <1>2, Fetched DEF Served
  <2>3. ~fetches'[i].wrote /\ i # 0
    BY <1>1, <1>2, <1>3, IdsTyped DEF Reported, SameFetch
  <2>4. QED
    BY <1>1, <1>3, <1>4, <2>1, <2>2, <2>3 DEF Served, SameFetch
<1>7. Reported'
  BY <1>1, <1>2, <1>3 DEF Reported, SameFetch
<1>8. QED
  BY <1>2, <1>3, <1>5, <1>6, <1>7, PagesKept DEF ScreenInv

(* The end of a request: the thread is free again. *)
LEMMA AnswerStep ==
  ASSUME IInv, ScreenInv, NEW t \in Threads, serving[t] # 0,
         NEW outcome \in {"ok", "failed"}, Answer(t, outcome), Finish(t),
         outcome = "ok" => req[t].at = "written",
         UNCHANGED <<rows, grants, switch>>
  PROVE  ScreenInv'
<1>1. ScreenTypes /\ Served /\ Reported
  BY DEF ScreenInv
<1> DEFINE i == serving[t]
<1>2. i \in Ids
  BY <1>1, Fetched
<1>3. /\ fetches' = [fetches EXCEPT ![i].server = outcome]
      /\ serving' = [serving EXCEPT ![t] = 0]
  BY DEF Answer
<1>4. fetches[i].server = "serving" /\ (outcome = "ok" => fetches[i].wrote)
  BY <1>1, <1>2 DEF Served, ScreenTypes, Ids
<1>5. \A u \in Threads \ {t} : serving[u] # i
  BY <1>1 DEF Served
<1> HIDE DEF i
<1>6. /\ fetches' \in Seq(FetchState) /\ Len(fetches') = Len(fetches) /\ Ids' = Ids
      /\ fetches'[i].server = outcome /\ \A j \in Ids : SameFetch(j)
      /\ \A j \in Ids \ {i} : fetches'[j].server = fetches[j].server
      /\ \A p : Of(p)' = Of(p)
  BY <1>1, <1>2, <1>3, ServerChanged DEF Outcomes
<1>7. serving'[t] = 0 /\ \A u \in Threads \ {t} : serving'[u] = serving[u]
  BY <1>1, <1>3 DEF ScreenTypes
<1>8. ScreenTypes'
  <2>1. serving' \in [Threads -> 0..Len(fetches)]
    BY <1>1, <1>3 DEF ScreenTypes
  <2>2. QED
    BY <1>1, <1>6, <2>1, ShownLives DEF ScreenTypes
<1>9. Served'
  <2>1. req'[t].op = "none" /\ \A u \in Threads \ {t} : req'[u] = req[u]
    BY RequestOnly, IdleFields DEF Finish
  <2>2. \A u \in Threads \ {t} : serving[u] # 0 => serving[u] \in Ids \ {i}
    BY <1>1, <1>5, Fetched
  <2>3. QED
    BY <1>1, <1>6, <1>7, <2>1, <2>2 DEF Served, SameFetch
<1>10. Reported'
  BY <1>1, <1>4, <1>6 DEF Reported, SameFetch
<1>11. QED
  BY <1>6, <1>8, <1>9, <1>10, PagesKept DEF ScreenInv

LEMMA StoreStep ==
  ASSUME IInv, OnScreen, ScreenInv, NEW t \in Threads, StoreGrant(t)
  PROVE  ScreenInv'
<1>1. ScreenTypes /\ Served /\ Reported /\ \A q \in ShownPages : PageInv(q)
  BY DEF ScreenInv
<1>0. PICK i, p : i = serving[t] /\ p = fetches[i].page
  OBVIOUS
<1> DEFINE grant == IF fetches[i].allowed THEN "allowed" ELSE "denied"
<1>2. serving[t] # 0 /\ i \in Ids /\ fetches[i] \in FetchState /\ fetches \in Seq(FetchState)
  BY <1>0, <1>1, Fetched DEF StoreGrant, ScreenTypes
<1>3. PICK late \in BOOLEAN : late = (\E j \in Of(p) : j > i /\ fetches[j].wrote)
  OBVIOUS
<1> DEFINE r == [fetches[i] EXCEPT !.wrote = TRUE, !.late = late]
<1>4. /\ WriteGrant(t, p, grant) /\ UNCHANGED <<switch, serving>>
      /\ fetches' = [fetches EXCEPT ![i] = r]
  <2>1. late = ({j \in Of(p) : j > i /\ fetches[j].wrote} # {})
    BY <1>3
  <2>2. QED
    BY <1>0, <1>2, <2>1 DEF StoreGrant
<1>5. r \in FetchState
  BY <1>2 DEF FetchState
<1>6. /\ r.page = p /\ r.allowed = fetches[i].allowed /\ r.client = fetches[i].client
      /\ r.server = fetches[i].server /\ r.wrote = TRUE /\ r.late = late
      /\ r.eager = fetches[i].eager
  BY <1>0, <1>2 DEF FetchState
<1> HIDE DEF r
<1>7. /\ fetches[i].server = "serving" /\ req[t].op = "toggle" /\ req[t].pk = Shown
      /\ req[t].at = "loaded" /\ ~fetches[i].wrote
  BY <1>0, <1>1, <1>2, <1>4 DEF Served, WriteGrant
<1>8. p \in ShownPages /\ p \in Pages /\ fetches[i].allowed \in BOOLEAN
      /\ fetches[i].client \in {"waiting", "resolved", "rejected"}
  BY <1>0, <1>2, ScreenPages DEF FetchState, IInv, TypeOK
<1>9. grants' = [grants EXCEPT ![Shown][p] = grant] /\ UNCHANGED rows
  BY <1>1, <1>4, <1>7 DEF WriteGrant, ScreenTypes
<1>10. /\ Granted(p)' <=> fetches[i].allowed
       /\ \A q \in ShownPages \ {p} : Granted(q)' = Granted(q)
  <2>1. grants \in [Pks -> [ShownPages -> {"none", "allowed", "denied"}]] /\ Shown \in Pks
    BY <1>1, ScreenPages DEF IInv, TypeOK, ScreenTypes
  <2>2. grants'[Shown][p] = grant /\ \A q \in ShownPages \ {p} : grants'[Shown][q] = grants[Shown][q]
    BY <1>8, <1>9, <2>1
  <2>3. grant = "allowed" <=> fetches[i].allowed
    BY <1>8
  <2>4. QED
    BY <2>2, <2>3 DEF Granted
<1> HIDE DEF grant
<1>11. \A u \in Threads \ {t} : serving[u] # i
  BY <1>0, <1>1, <1>2 DEF Served
<1>12. r.page = fetches[i].page
  BY <1>0, <1>6
<1>13. /\ fetches' \in Seq(FetchState) /\ Len(fetches') = Len(fetches) /\ Ids' = Ids
       /\ fetches'[i] = r /\ \A j \in Ids \ {i} : fetches'[j] = fetches[j]
       /\ \A q : Of(q)' = Of(q)
  BY <1>2, <1>4, <1>5, <1>12, FetchChanged
<1>14. \A j \in Ids \ {i} : SameFetch(j)
  BY <1>13 DEF SameFetch
<1>15. ScreenTypes'
  BY <1>1, <1>4, <1>9, <1>13, ShownLives DEF ScreenTypes
<1>16. Served'
  <2>1. /\ req'[t].op = "toggle" /\ req'[t].pk = Shown /\ req'[t].at = "granted"
        /\ \A u \in Threads \ {t} : req'[u] = req[u]
    <3> DEFINE new == [req[t] EXCEPT !.at = "granted"]
    <3>1. Advance(t, new)
      BY <1>4 DEF WriteGrant
    <3>2. new.op = "toggle" /\ new.pk = Shown /\ new.at = "granted"
      BY <1>7 DEF IInv, Requests, Request
    <3> HIDE DEF new
    <3>3. QED
      BY <3>1, <3>2, RequestOnly
  <2>2. \A u \in Threads \ {t} : serving[u] # 0 => fetches'[serving[u]] = fetches[serving[u]]
    BY <1>1, <1>11, <1>13, Fetched
  <2>3. serving[t] = i
    BY <1>0
  <2>4. fetches'[i].server = "serving" /\ fetches'[i].wrote
    BY <1>6, <1>7, <1>13
  <2>5. \A s \in Threads : serving'[s] = serving[s]
    BY <1>4
  <2>6. \A u \in Threads : serving[u] # 0 =>
          /\ fetches'[serving[u]].server = "serving"
          /\ req'[u].op = "toggle" /\ req'[u].pk = Shown
          /\ req'[u].at = "loaded" <=> ~fetches'[serving[u]].wrote
    BY <1>1, <2>1, <2>2, <2>3, <2>4 DEF Served
  <2>7. \A u \in Threads : serving[u] = 0 => req'[u].op \in {"none", "lookup"}
    BY <1>1, <1>2, <2>1 DEF Served
  <2>8. QED
    BY <1>1, <2>5, <2>6, <2>7 DEF Served
<1>17. Reported'
  BY <1>1, <1>6, <1>7, <1>13 DEF Reported
<1>18. i \in Of(p) /\ \A q : q # p => i \notin Of(q)
  BY <1>0, <1>2 DEF Of
<1>19. ASSUME NEW q \in ShownPages
       PROVE  PageInv(q)'
  <2>1. Of(q) \subseteq Ids /\ Of(q) \subseteq Int
    BY <1>1, IdsTyped
  <2>2. switch'[q] = switch[q]
    BY <1>4
  <2>3. CASE q = p
    <3>1. \A j \in Of(p) \ {i} : SameFetch(j)
      BY <1>14, <2>1, <2>3
    <3>2. /\ fetches'[i].allowed = fetches[i].allowed /\ fetches'[i].eager = fetches[i].eager
          /\ fetches'[i].client = fetches[i].client /\ fetches'[i].wrote
          /\ fetches'[i].late <=> \E j \in Of(p) : j > i /\ fetches[j].wrote
      BY <1>3, <1>6, <1>13
    <3>3. fetches[i].client # "resolved"
      BY <1>1, <1>2, <1>7 DEF Reported
    <3>4. PageInv(p) /\ Of(p)' = Of(p) /\ switch'[p] = switch[p] /\ Of(p) \subseteq Int
      BY <1>1, <1>8, <1>13, <2>1, <2>2, <2>3
    <3>5. Granted(p)' <=> fetches[i].allowed
      BY <1>10
    <3>6. ~fetches[i].wrote /\ i \in Of(p)
      BY <1>7, <1>18
    <3>7. PageInv(p)'
      BY <1>8, <3>1, <3>2, <3>3, <3>4, <3>5, <3>6, PageStored
    <3>8. QED
      BY <2>3, <3>7
  <2>4. CASE q # p
    <3>1. \A j \in Of(q) : SameFetch(j)
      BY <1>14, <1>18, <2>1, <2>4
    <3>2. QED
      BY <1>1, <1>10, <1>13, <2>2, <2>4, <3>1, PageKept
  <2>5. QED
    BY <2>3, <2>4
<1>20. QED
  BY <1>15, <1>16, <1>17, <1>19 DEF ScreenInv

(* A step that leaves the screen alone. *)
LEMMA ScreenKept ==
  ASSUME ScreenInv, UNCHANGED <<switch, fetches, serving, grants>>, Live(Shown)', Served'
  PROVE  ScreenInv'
<1>1. ScreenTypes' /\ Reported'
  BY DEF ScreenInv, ScreenTypes, Reported, Ids
<1>2. \A p : Of(p)' = Of(p)
  BY DEF Of, Ids
<1>3. \A j \in Ids : SameFetch(j)
  BY DEF SameFetch
<1>4. QED
  BY <1>1, <1>2, <1>3, PagesKept DEF ScreenInv

LEMMA RankStep ==
  ASSUME IInv, ScreenInv, NEW t \in Threads, UpdateRank(t)
  PROVE  ScreenInv'
<1>1. ScreenTypes /\ Served
  BY DEF ScreenInv
<1>2. /\ req[t] \in Request /\ Placed(req[t]) /\ req[t].op = "toggle" /\ req[t].pk = Shown
      /\ serving[t] # 0
  BY <1>1 DEF IInv, Requests, Served, UpdateRank
<1>3. UNCHANGED <<switch, fetches, serving, grants>>
  BY DEF UpdateRank, screenVars, Recalculate, SaveRank
<1>4. req[t].at # "loaded" /\ Live(Shown)'
  <2>1. CASE Recalculate(t)
    BY <1>1, <2>1, ShownLives DEF Recalculate
  <2>2. CASE SaveRank(t)
    <3>1. req[t].at = "counted" /\ rows' = [rows EXCEPT ![Shown].rank = req[t].rank]
      BY <1>1, <1>2, <2>2 DEF SaveRank, ScreenTypes
    <3>2. /\ req[t].rank \in 1..30 /\ rows[Shown] \in Row
          /\ rows \in [Pks -> Row \cup {NoRow, Deleted}] /\ Shown \in Pks
      BY <1>1, <1>2, <3>1 DEF Placed, IInv, TypeOK, Live, ScreenTypes
    <3>3. [rows[Shown] EXCEPT !.rank = req[t].rank] \in Row
      BY <3>2 DEF Row
    <3>4. rows'[Shown] \in Row
      BY <3>1, <3>2, <3>3
    <3>5. QED
      BY <3>1, <3>4, NoRowIsNoRow DEF Live
  <2>3. QED
    BY <2>1, <2>2 DEF UpdateRank
<1>5. /\ req'[t].op = "toggle" /\ req'[t].pk = Shown /\ req'[t].at # "loaded"
      /\ \A u \in Threads \ {t} : req'[u] = req[u]
  <2>1. CASE Recalculate(t)
    <3> DEFINE a == req[t].copy
               rank == IF a.system /\ Baseline(a.code) > 0 THEN Baseline(a.code)
                       ELSE RankOf(Cardinality(GrantedPages(req[t].pk)))
               stage == IF rank = a.rank THEN "written" ELSE "counted"
    <3>1. Advance(t, [req[t] EXCEPT !.rank = rank, !.at = stage])
      BY <2>1 DEF Recalculate
    <3>2. stage \in {"written", "counted"}
      OBVIOUS
    <3> HIDE DEF rank, stage
    <3> DEFINE r == [req[t] EXCEPT !.rank = rank, !.at = stage]
    <3>3. r.op = "toggle" /\ r.pk = Shown /\ r.at # "loaded"
      BY <1>2, <3>2 DEF Request
    <3>4. Advance(t, r)
      BY <3>1
    <3> HIDE DEF r
    <3>5. QED
      BY <3>3, <3>4, RequestOnly
  <2>2. CASE SaveRank(t)
    <3> DEFINE r == [req[t] EXCEPT !.at = "written"]
    <3>1. r.op = "toggle" /\ r.pk = Shown /\ r.at # "loaded"
      BY <1>2 DEF Request
    <3>2. Advance(t, r)
      BY <1>1, <1>2, <2>2 DEF SaveRank, ScreenTypes
    <3> HIDE DEF r
    <3>3. QED
      BY <3>1, <3>2, RequestOnly
  <2>3. QED
    BY <2>1, <2>2 DEF UpdateRank
<1>6. Served'
  <2>1. \A u \in Threads : serving'[u] = serving[u]
    BY <1>3
  <2>2. fetches' = fetches
    BY <1>3
  <2>3. QED
    BY <1>1, <1>2, <1>4, <1>5, <2>1, <2>2 DEF Served
<1>7. QED
  BY <1>3, <1>4, <1>6, ScreenKept

LEMMA CheckStep ==
  ASSUME IInv, ScreenInv, NEW t \in Threads, CheckPermission(t)
  PROVE  ScreenInv'
<1>1. ScreenTypes /\ Served
  BY DEF ScreenInv
<1>2. UNCHANGED <<switch, fetches, serving, grants, rows>> /\ serving[t] = 0
  BY DEF CheckPermission, screenVars, Check, LoadTable, StoreTable
<1>3. req'[t].op \in {"none", "lookup"} /\ \A u \in Threads \ {t} : req'[u] = req[u]
  <2>1. CASE LoadTable(t)
    <3>1. PICK table :
             Advance(t, [NoRequest EXCEPT !.op = "lookup", !.at = "loaded", !.table = table])
      BY <2>1 DEF LoadTable
    <3> DEFINE r == [NoRequest EXCEPT !.op = "lookup", !.at = "loaded", !.table = table]
    <3>2. r.op = "lookup"
      BY DEF NoRequest
    <3>3. Advance(t, r)
      BY <3>1
    <3> HIDE DEF r
    <3>4. QED
      BY <3>2, <3>3, RequestOnly
  <2>2. CASE StoreTable(t)
    BY <2>2, RequestOnly, IdleFields DEF StoreTable, Finish
  <2>3. QED
    BY <2>1, <2>2 DEF CheckPermission, Check
<1>4. Served'
  BY <1>1, <1>2, <1>3 DEF Served
<1>5. QED
  BY <1>1, <1>2, <1>4, ShownLives, ScreenKept

(* The screen's invariant is kept by every step of it. *)
LEMMA ScreenStep ==
  ASSUME IInv, OnScreen, ScreenInv, [ScreenNext]_allVars
  PROVE  ScreenInv'
<1>1. Pages = ShownPages /\ ScreenTypes /\ Served
  BY ScreenPages DEF ScreenInv
<1>2. ASSUME NEW t \in Threads, DropTable(t)
      PROVE  ScreenInv'
  BY <1>2, AnswerStep DEF DropTable, Invalidate
<1>3. ASSUME NEW t \in Threads, FailRequest(t)
      PROVE  ScreenInv'
  BY <1>3, AnswerStep DEF FailRequest, Abandon
<1>4. CASE Surroundings \/ UNCHANGED allVars
  <2>1. UNCHANGED <<switch, fetches, serving, grants, rows, req>>
    BY <1>4 DEF Surroundings, screenVars, allVars, vars, Expire, CacheUpDown
  <2>2. Served'
    BY <1>1, <2>1 DEF Served
  <2>3. QED
    BY <1>1, <2>1, <2>2, ShownLives, ScreenKept
<1>5. ASSUME NEW t \in Threads, Work(t)
      PROVE  ScreenInv'
  BY <1>2, <1>3, <1>5, DeliverStep, StoreStep, RankStep, CheckStep DEF Work
<1>6. QED
  BY <1>1, <1>4, <1>5, ClickStep, SettleStep, LoseStep DEF ScreenNext

LEMMA FirstRank ==
  ASSUME OnScreen, NEW granted \in SUBSET ShownPages
  PROVE  RankOf(Cardinality(granted)) \in 1..29
<1> DEFINE n == Cardinality(granted)
           d == Cardinality(Pages)
<1>1. IsFiniteSet(Pages) /\ Pages # {}
  BY ScreenPages, SettingsOK, ShownPagesArePages, FS_Subset DEF Pages, Setting
<1>2. d \in Nat \ {0}
  BY <1>1, FS_EmptySet, FS_CardinalityType
<1>3. n \in Nat
  BY SettingsOK, ShownPagesArePages, FS_Subset, FS_CardinalityType
<1> HIDE DEF n, d
<1>4. 25 * n \in Nat
  BY <1>3
<1>5. Round(25 * n, d) + 1 \in Int
  BY <1>2, <1>4, RoundInt
<1>6. Clamp(1, 29, Round(25 * n, d) + 1) \in 1..29
  BY <1>5 DEF Clamp
<1>7. QED
  BY <1>6 DEF RankOf, d, n

LEMMA ScreenStarts == ScreenInit => IInv /\ OnScreen /\ ScreenInv
<1> SUFFICES ASSUME ScreenInit PROVE IInv /\ OnScreen /\ ScreenInv
  OBVIOUS
<1>0. OnScreen
  BY DEF ScreenInit, OnScreen
<1>1. Pages = ShownPages /\ setting \in Settings
  BY <1>0, ScreenPages
<1>2. PICK granted \in InitialGrants, code \in CustomCodes :
        /\ rows \in [Pks -> {NoRow} \cup {SystemRow(c) : c \in BuiltInCodes} \cup
                       {[code |-> code, rank |-> RankOf(Cardinality(granted)),
                         system |-> FALSE, active |-> TRUE]}]
        /\ PksOf(code) = {Shown}
        /\ grants = [pk \in Pks |-> [p \in Pages |->
                       IF pk = Shown THEN IF p \in granted THEN "allowed" ELSE "denied"
                       ELSE IF Live(pk) THEN DefaultGrant(p, rows[pk].code) ELSE "none"]]
  BY DEF ScreenInit
<1>3. TypeOK
  <2>1. RankOf(Cardinality(granted)) \in 1..30
    BY <1>0, FirstRank, InitialGrantsSets
  <2>2. [code |-> code, rank |-> RankOf(Cardinality(granted)), system |-> FALSE,
         active |-> TRUE] \in Row
    BY <2>1 DEF Row, Codes
  <2>3. {SystemRow(c) : c \in BuiltInCodes} \subseteq Row
    BY SystemRowIsRow
  <2>4. rows \in [Pks -> Row \cup {NoRow, Deleted}]
    BY <1>2, <2>2, <2>3
  <2>5. grants \in [Pks -> [Pages -> {"none", "allowed", "denied"}]]
    BY <1>2 DEF DefaultGrant
  <2>6. cache \in [Caches -> Table \cup {NoTable}] /\ online \in BOOLEAN
    BY DEF ScreenInit
  <2>7. \A t \in Threads : req[t] = NoRequest /\ NoRequest \in Request
    BY NoRequestGood DEF ScreenInit
  <2>8. QED
    BY <1>1, <2>4, <2>5, <2>6, <2>7 DEF TypeOK, Request, Handlers
<1>4. Requests
  BY NoRequestGood DEF ScreenInit, Requests
<1>5. /\ fetches = <<>> /\ serving = [t \in Threads |-> 0] /\ req = [t \in Threads |-> NoRequest]
      /\ switch = [p \in Pages |-> Granted(p)]
  BY DEF ScreenInit
<1>6. ScreenTypes
  <2>1. fetches \in Seq(FetchState) /\ Len(fetches) = 0
    BY <1>5
  <2>2. switch \in [ShownPages -> BOOLEAN]
    BY <1>1, <1>5 DEF Granted
  <2>3. Shown \in Pks /\ Live(Shown)
    BY <1>2 DEF PksOf
  <2>4. QED
    BY <1>5, <2>1, <2>2, <2>3 DEF ScreenTypes
<1>7. Served
  BY <1>5, IdleFields DEF Served
<1>8. Ids = {} /\ \A p : Of(p) = {}
  BY <1>5 DEF Ids, Of
<1>9. ASSUME NEW p \in ShownPages PROVE PageInv(p)
  <2>1. switch[p] <=> Granted(p)
    BY <1>1, <1>5
  <2>2. QED
    BY <1>8, <2>1 DEF PageInv, Stored, Clicked, Single, Followed, Waiting
<1>10. QED
  BY <1>0, <1>3, <1>4, <1>6, <1>7, <1>8, <1>9 DEF IInv, ScreenInv, Reported

(* Whatever the clicks, answers and losses, the requests of each switch, the switch and the
   stored grant stay related as PageInv says; and the server does what RoleTable lets it. *)
THEOREM ScreenInvariant == ScreenSpec => [](IInv /\ OnScreen /\ ScreenInv) /\ [][Next]_vars
<1> DEFINE Inv == IInv /\ OnScreen /\ ScreenInv
<1>1. ScreenInit => Inv
  BY ScreenStarts
<1>2. Inv /\ [ScreenNext]_allVars => [Next]_vars
  BY ServerStep DEF ScreenInv
<1>3. Inv /\ [ScreenNext]_allVars => Inv'
  BY <1>2, TypeStep, RequestsStep, SettingKept, ScreenStep DEF IInv, OnScreen
<1>4. QED
  BY <1>1, <1>2, <1>3, PTL DEF ScreenSpec

LEMMA SettledTells ==
  ASSUME ScreenInv, NEW p \in ShownPages, Settled(p),
         ~Unheard(p), ~Overtaken(p), ~Crossed(p)
  PROVE  switch[p] = Granted(p)
<1>1. PageInv(p) /\ switch[p] \in BOOLEAN /\ Granted(p) \in BOOLEAN
  BY DEF ScreenInv, ScreenTypes, Granted
<1> SUFFICES switch[p] <=> Granted(p)
  BY <1>1
<1>2. \A i \in Of(p) : i \in Ids /\ fetches[i] \in FetchState
  BY IdsTyped DEF ScreenInv
<1>3. Waiting(p) = {} /\ Of(p) # {}
  BY DEF Settled, Waiting
<1>4. \A i \in Of(p) : fetches[i].client # "rejected" => fetches[i].wrote
  BY <1>2 DEF Settled, FetchState, ScreenInv, Reported
<1>5. CASE \A i \in Of(p) : fetches[i].client # "rejected"
  <2>1. PICK last \in Of(p) : Latest(p, last) /\ (switch[p] <=> fetches[last].allowed)
    BY <1>1, <1>3, <1>5 DEF PageInv, Clicked
  <2>2. Granted(p) <=> fetches[last].allowed
    BY <1>1, <1>4, <1>5, <2>1 DEF PageInv, Stored, Latest, Overtaken
  <2>3. QED
    BY <2>1, <2>2
<1>6. CASE \A i \in Of(p) : ~fetches[i].eager
  <2>1. InTurns(p) /\ Honest(p)
    BY <1>6 DEF InTurns, Honest, Unheard
  <2>2. QED
    BY <1>1, <1>3, <2>1 DEF PageInv, Followed
<1>7. QED
  BY <1>5, <1>6 DEF Crossed

(* For any pages, threads, caches and number of clicks: a switch whose requests are over
   shows the stored grant, unless an answer was lost after the grant was stored, clicks
   were stored in another order, or one of several made side by side failed. *)
THEOREM SwitchTells == ScreenSpec => []SwitchTellsGrant
<1>1. ScreenInv => SwitchTellsGrant
  BY SettledTells DEF SwitchTellsGrant
<1>2. QED
  BY ScreenInvariant, <1>1, PTL

(* The rows and grants of the screen are as good as those of a synchronised store. *)
LEMMA ScreenSystem ==
  ASSUME ScreenInit
  PROVE  SystemInv /\ ("SUPER_ADMIN" \in BuiltInCodes => SuperInv)
<1>1. IInv /\ ScreenInv /\ Pages = ShownPages
  BY ScreenStarts, ScreenPages
<1>2. PICK granted \in InitialGrants, code \in CustomCodes :
        /\ rows \in [Pks -> {NoRow} \cup {SystemRow(c) : c \in BuiltInCodes} \cup
                       {[code |-> code, rank |-> RankOf(Cardinality(granted)),
                         system |-> FALSE, active |-> TRUE]}]
        /\ PksOf(code) = {Shown}
        /\ \A c \in BuiltInCodes : Cardinality(PksOf(c)) = 1
        /\ grants = [pk \in Pks |-> [p \in Pages |->
                       IF pk = Shown THEN IF p \in granted THEN "allowed" ELSE "denied"
                       ELSE IF Live(pk) THEN DefaultGrant(p, rows[pk].code) ELSE "none"]]
  BY DEF ScreenInit
<1>3. code \notin BuiltInCodes /\ code # "SUPER_ADMIN"
  BY BuiltInsAreRoles DEF BuiltInCodes
<1>4. \A pk \in Pks : Live(pk) =>
        \/ \E c \in BuiltInCodes : rows[pk] = SystemRow(c)
        \/ rows[pk].code = code /\ ~rows[pk].system
  BY <1>2 DEF Live
<1>5. ASSUME NEW c \in BuiltInCodes
      PROVE  \E pk \in Pks : rows[pk] = SystemRow(c)
  <2>1. Cardinality(PksOf(c)) = 1
    BY <1>2
  <2>2. PksOf(c) # {}
    BY <2>1, FS_EmptySet
  <2>3. PICK pk \in PksOf(c) : TRUE
    BY <2>2
  <2>4. PICK d \in BuiltInCodes : rows[pk] = SystemRow(d)
    BY <1>3, <1>4, <2>3 DEF PksOf
  <2>5. d = c
    BY <2>3, <2>4, SystemRowIsRow DEF PksOf
  <2>6. QED
    BY <2>3, <2>4, <2>5 DEF PksOf
<1>6. RowsSound
  BY <1>3, <1>4, <1>5, SystemRowIsRow DEF RowsSound
<1>7. \A t \in Threads : req[t] = NoRequest
  BY DEF ScreenInit
<1>8. SystemInv
  BY <1>6, <1>7 DEF SystemInv, NoRequest, CopySound, Unlocked
<1>9. ASSUME "SUPER_ADMIN" \in BuiltInCodes
      PROVE  SuperGrants
  <2> SUFFICES ASSUME NEW pk \in Pks, Live(pk), rows[pk].code = "SUPER_ADMIN", NEW p \in Pages
               PROVE  grants[pk][p] = "allowed"
    BY DEF SuperGrants
  <2>1. Allows(p, "SUPER_ADMIN")
    BY <1>1, ShownPagesArePages, PageMinRank, BaselineValues DEF Allows
  <2>2. pk # Shown
    BY <1>2, <1>3 DEF PksOf
  <2>3. QED
    BY <1>2, <2>1, <2>2 DEF DefaultGrant
<1>10. TablesWhole /\ SuperAdminKeepsEveryPage
  BY <1>7 DEF ScreenInit, TablesWhole, SuperAdminKeepsEveryPage, NoRequest
<1>11. QED
  BY <1>8, <1>9, <1>10 DEF SuperInv

(* role_views.py:219-250.  Whatever is clicked, lost or saved at the same time, the screen
   changes no built-in role, and super admins keep every page in every table. *)
THEOREM ScreenHarmless ==
  ASSUME "SUPER_ADMIN" \in BuiltInCodes
  PROVE  ScreenSpec => SystemRowsStay /\ []SuperAdminKeepsEveryPage
<1> DEFINE Inv == IInv /\ SystemInv /\ SuperInv
<1>1. ScreenInit => Inv
  BY ScreenStarts, ScreenSystem
<1>2. Inv /\ [Next]_vars => Inv'
  BY TypeStep, RequestsStep, RowsSoundStep, CopiesStep, SuperGrantsStep, TablesStep
  DEF IInv, SystemInv, SuperInv
<1>3. Inv /\ [Next]_vars =>
         [\A pk \in Pks : Live(pk) /\ rows[pk].system => rows'[pk] = rows[pk]]_rows
  BY RowEffect DEF IsSystem
<1>4. Inv => SuperAdminKeepsEveryPage
  BY DEF SuperInv
<1>5. QED
  BY ScreenInvariant, <1>1, <1>2, <1>3, <1>4, PTL DEF ScreenSpec, SystemRowsStay
=============================================================================
