------------------------------ MODULE RoleTable ------------------------------
(***************************************************************************)
(* Roles, their grants, and the cached table every permission check reads: *)
(* apps/accounts/roles.py, role_models.py, role_views.py, the sync_roles   *)
(* command and apps/common/cache.py.                                       *)
(*                                                                         *)
(* A check looks the table up in the cache and, on a miss, loads it from   *)
(* the store and puts it there for CACHE_TTL_MEDIUM.  A handler that       *)
(* changes a role writes rows and grants one by one and then deletes the   *)
(* cached table.  Redis is one cache for all workers; without REDIS_URL    *)
(* every process has its own.                                              *)
(*                                                                         *)
(* Left out: labels, descriptions, audit records, the messages, the check  *)
(* that the actor is a super admin (UserAdmin), sync_roles --reset and the *)
(* retiring of grants for pages that are no longer in PAGES.  _load's two  *)
(* queries, rows and grants, are one step.                                 *)
(***************************************************************************)
EXTENDS Integers, FiniteSets, Sequences

CONSTANTS
  PageKeys,    \* page keys
  PageMin,     \* PageMin[p]: the built-in rank a page asks for
  BuiltIns,    \* the codes of Role.choices that are considered, in order
  CustomCodes, \* other codes a role can be given
  Populated,   \* the codes that some account holds
  Pks,         \* primary keys; a deleted one is not used again
  Threads,
  Caches,      \* one with Redis, one per process without
  CacheOf,     \* CacheOf[t]: the cache thread t uses
  Seeded,      \* sync_roles has run before the application started
  Settings,    \* bound: the surroundings that are considered
  NoRow, Deleted, NoTable, NoEntry, NoPk

BuiltInCodes == {BuiltIns[i] : i \in 1..Len(BuiltIns)}
Codes == CustomCodes \cup BuiltInCodes

ASSUME BuiltInsAreRoles ==
  /\ BuiltIns \in Seq({"USER", "ADMIN", "SUPER_ADMIN"})
  /\ CustomCodes \cap {"USER", "ADMIN", "SUPER_ADMIN"} = {}
ASSUME CacheOfThread == CacheOf \in [Threads -> Caches]
ASSUME PageMinRank == PageMin \in [PageKeys -> {10, 20, 30}]
ASSUME EnoughPks == Cardinality(Pks) >= Len(BuiltIns)
ASSUME ThreadsFinite == IsFiniteSet(Threads)

(* The threads that are at work, what they are asked to do, the pages the application has,
   and what may fail. *)
Handlers == {"lookup", "toggle", "edit", "delete", "create", "sync"}
Setting == [threads : SUBSET Threads, handlers : SUBSET Handlers,
            pages : (SUBSET PageKeys) \ {{}}, faults : SUBSET {"store", "cache", "worker"}]

ASSUME SettingsOK == Settings \subseteq Setting /\ IsFiniteSet(PageKeys)

VARIABLES
  setting, \* one of Settings, the same all the time
  rows,    \* RoleDefinition by primary key
  grants,  \* RolePermission by primary key and page: "none", "allowed", "denied"
  cache,   \* what each cache holds under CACHE_KEY
  online,  \* the caches can be reached
  req      \* the request, check or command each thread is at

vars == <<setting, rows, grants, cache, online, req>>

(* The keys of PAGES. *)
Pages == setting.pages

(* ROLE_RANK, 0 for a code that is not built in. *)
Baseline(code) ==
  CASE code = "SUPER_ADMIN" -> 30
    [] code = "ADMIN" -> 20
    [] code = "USER" -> 10
    [] OTHER -> 0

(* Page.allows. *)
Allows(p, code) == Baseline(code) >= PageMin[p]

(* Python's round of the fraction n / d: to the nearest, a tie to the even. *)
Round(n, d) ==
  LET q == n \div d
      r == n % d
  IN  IF 2 * r < d \/ (2 * r = d /\ q % 2 = 0) THEN q ELSE q + 1

Clamp(low, high, n) == IF n < low THEN low ELSE IF n > high THEN high ELSE n

(* Mutant: no offset and no bounds. *)
RankOf_Bare(granted) == Round(25 * granted, Cardinality(Pages))

(* recalculate_rank, for a role with so many grants. *)
RankOf(granted) == Clamp(1, 29, Round(25 * granted, Cardinality(Pages)) + 1)

Row == [code : Codes, rank : 1..30, system : BOOLEAN, active : BOOLEAN]
ASSUME NoRowIsNoRow == NoRow \notin Row /\ Deleted \notin Row

Entry == [rank : 1..30, pages : SUBSET Pages]
Table == [Codes -> Entry \cup {NoEntry}]

Live(pk) == rows[pk] \notin {NoRow, Deleted}
PksOf(code) == {pk \in Pks : Live(pk) /\ rows[pk].code = code}
GrantedPages(pk) == {p \in Pages : grants[pk][p] = "allowed"}

(* _defaults. *)
DefaultEntry(code) ==
  IF Baseline(code) = 0 THEN NoEntry
  ELSE [rank |-> Baseline(code), pages |-> {p \in Pages : Allows(p, code)}]
Defaults == [c \in Codes |-> DefaultEntry(c)]

(* _load: the active rows, or the built-in roles when there is none. *)
Loaded ==
  LET active == {pk \in Pks : Live(pk) /\ rows[pk].active}
      EntryOf(pk) == [rank |-> rows[pk].rank, pages |-> GrantedPages(pk)]
  IN  IF active = {} THEN Defaults
      ELSE [c \in Codes |->
              IF active \cap PksOf(c) = {} THEN NoEntry
              ELSE EntryOf(CHOOSE pk \in active \cap PksOf(c) : TRUE)]

(* get: a code that the table lacks has its built-in entry, if any. *)
Lookup(table, code) ==
  IF table[code] # NoEntry THEN table[code] ELSE DefaultEntry(code)

NoRequest == [op |-> "none", at |-> "idle", pk |-> NoPk, copy |-> NoRow,
              todo |-> {}, step |-> 0, rank |-> 0, table |-> NoTable]

(* A built-in role as sync_roles creates it. *)
SystemRow(code) ==
  [code |-> code, rank |-> Baseline(code), system |-> TRUE, active |-> TRUE]

DefaultGrant(p, code) == IF Allows(p, code) THEN "allowed" ELSE "denied"

Init ==
  /\ setting \in Settings
  /\ rows \in [Pks -> {NoRow} \cup {SystemRow(c) : c \in IF Seeded THEN BuiltInCodes ELSE {}}]
  /\ Seeded => \A c \in BuiltInCodes : Cardinality(PksOf(c)) = 1
  /\ grants = [pk \in Pks |-> [p \in Pages |->
                 IF Live(pk) THEN DefaultGrant(p, rows[pk].code) ELSE "none"]]
  /\ cache = [k \in Caches |-> NoTable]
  /\ online = TRUE
  /\ req = [t \in Threads |-> NoRequest]

Advance(t, r) == req' = [req EXCEPT ![t] = r]
Finish(t) == Advance(t, NoRequest)

-----------------------------------------------------------------------------
(* Reading: table(), that is cached_call(CACHE_KEY, CACHE_TTL_MEDIUM, _load).
   A hit changes nothing.  An unreachable cache is a miss. *)

(* A failing query counts as a store without roles. *)
LoadTable(t) ==
  /\ req[t] = NoRequest /\ "lookup" \in setting.handlers
  /\ cache[CacheOf[t]] = NoTable \/ ~online
  /\ \E table \in {Loaded} \cup (IF "store" \in setting.faults THEN {Defaults} ELSE {}) :
        Advance(t, [NoRequest EXCEPT !.op = "lookup", !.at = "loaded", !.table = table])
  /\ UNCHANGED <<setting, rows, grants, cache, online>>

StoreTable(t) ==
  /\ req[t].op = "lookup"
  /\ cache' = IF online THEN [cache EXCEPT ![CacheOf[t]] = req[t].table] ELSE cache
  /\ Finish(t)
  /\ UNCHANGED <<setting, rows, grants, online>>

(* Mutant: no timeout. *)
Expire_Never(k) == FALSE /\ UNCHANGED vars

Expire(k) ==
  /\ cache[k] # NoTable
  /\ cache' = [cache EXCEPT ![k] = NoTable]
  /\ UNCHANGED <<setting, rows, grants, online, req>>

CacheUpDown ==
  /\ "cache" \in setting.faults
  /\ online' = ~online
  /\ UNCHANGED <<setting, rows, grants, cache, req>>

-----------------------------------------------------------------------------
(* Mutant: the table is left to expire. *)
Invalidate_Not(t) ==
  /\ req[t].at = "written"
  /\ Finish(t)
  /\ UNCHANGED <<setting, rows, grants, cache, online>>

(* The end of every handler: invalidate() deletes the table from the cache of
   the process; cache_delete swallows a failure. *)
Invalidate(t) ==
  /\ req[t].at = "written"
  /\ cache' = IF online THEN [cache EXCEPT ![CacheOf[t]] = NoTable] ELSE cache
  /\ Finish(t)
  /\ UNCHANGED <<setting, rows, grants, online>>

(* recalculate_rank counts the grants, and saves the rank when it is not the one
   of the instance; a built-in role has its baseline. *)
Recalculate(t) ==
  /\ req[t].at = "granted"
  /\ LET a == req[t].copy
         rank == IF a.system /\ Baseline(a.code) > 0 THEN Baseline(a.code)
                 ELSE RankOf(Cardinality(GrantedPages(req[t].pk)))
     IN  Advance(t, [req[t] EXCEPT !.rank = rank,
                                   !.at = IF rank = a.rank THEN "written" ELSE "counted"])
  /\ UNCHANGED <<setting, rows, grants, cache, online>>

(* save(update_fields=["rank"]) fails on a row that is gone. *)
SaveRank(t) ==
  /\ req[t].at = "counted"
  /\ IF Live(req[t].pk)
       THEN /\ rows' = [rows EXCEPT ![req[t].pk].rank = req[t].rank]
            /\ Advance(t, [req[t] EXCEPT !.at = "written"])
       ELSE Finish(t) /\ UNCHANGED rows
  /\ UNCHANGED <<setting, grants, cache, online>>

-----------------------------------------------------------------------------
(* role_permission_toggle, role_edit and role_delete start from the row. *)

(* Mutant: super admin is not locked. *)
LoadRole_Unlocked(t, op, pk) ==
  /\ req[t] = NoRequest
  /\ Live(pk)
  /\ op = "delete" => ~rows[pk].system /\ rows[pk].code \notin Populated
  /\ Advance(t, [NoRequest EXCEPT !.op = op, !.at = "loaded", !.pk = pk, !.copy = rows[pk]])
  /\ UNCHANGED <<setting, rows, grants, cache, online>>

LoadRole(t, op, pk) ==
  /\ req[t] = NoRequest
  /\ Live(pk)
  /\ op = "toggle" => rows[pk].code # "SUPER_ADMIN"
  /\ op = "delete" => ~rows[pk].system /\ rows[pk].code \notin Populated
  /\ Advance(t, [NoRequest EXCEPT !.op = op, !.at = "loaded", !.pk = pk, !.copy = rows[pk]])
  /\ UNCHANGED <<setting, rows, grants, cache, online>>

(* Mutant: the rank is not recalculated. *)
WriteGrant_RankLater(t, p, grant) ==
  /\ req[t].op = "toggle" /\ req[t].at = "loaded"
  /\ grants' = IF Live(req[t].pk) THEN [grants EXCEPT ![req[t].pk][p] = grant] ELSE grants
  /\ Advance(t, [req[t] EXCEPT !.at = "written"])
  /\ UNCHANGED <<setting, rows, cache, online>>

(* get_or_create and save; a grant for a row that is gone belongs to nobody. *)
WriteGrant(t, p, grant) ==
  /\ req[t].op = "toggle" /\ req[t].at = "loaded"
  /\ grants' = IF Live(req[t].pk) THEN [grants EXCEPT ![req[t].pk][p] = grant] ELSE grants
  /\ Advance(t, [req[t] EXCEPT !.at = "granted"])
  /\ UNCHANGED <<setting, rows, cache, online>>

(* Mutant: the form does not disable code and is_active of a built-in role. *)
SaveRole_Open(t, code, active) ==
  /\ req[t].op = "edit" /\ req[t].at = "loaded"
  /\ PksOf(code) \subseteq {req[t].pk}
  /\ rows' = [rows EXCEPT ![req[t].pk] = [req[t].copy EXCEPT !.code = code, !.active = active]]
  /\ Advance(t, [req[t] EXCEPT !.at = "written"])
  /\ UNCHANGED <<setting, grants, cache, online>>

(* RoleForm.save writes the whole instance, and inserts it again when the row is
   gone.  The form leaves code and is_active of a built-in role alone, and
   refuses a code that another row has. *)
SaveRole(t, code, active) ==
  /\ req[t].op = "edit" /\ req[t].at = "loaded"
  /\ IF req[t].copy.system
       THEN code = req[t].copy.code /\ active = req[t].copy.active
       ELSE PksOf(code) \subseteq {req[t].pk}
  /\ rows' = [rows EXCEPT ![req[t].pk] = [req[t].copy EXCEPT !.code = code, !.active = active]]
  /\ Advance(t, [req[t] EXCEPT !.at = "written"])
  /\ UNCHANGED <<setting, grants, cache, online>>

(* role.delete() takes the grants with it. *)
DeleteRole(t) ==
  /\ req[t].op = "delete" /\ req[t].at = "loaded"
  /\ rows' = [rows EXCEPT ![req[t].pk] = Deleted]
  /\ grants' = [grants EXCEPT ![req[t].pk] = [p \in Pages |-> "none"]]
  /\ Advance(t, [req[t] EXCEPT !.at = "written"])
  /\ UNCHANGED <<setting, cache, online>>

(* Mutant: grants only for the pages a user may open. *)
CreateRole_Allowed(t, pk, code) ==
  /\ req[t] = NoRequest /\ "create" \in setting.handlers
  /\ rows[pk] = NoRow /\ PksOf(code) = {}
  /\ LET row == [code |-> code, rank |-> 10, system |-> FALSE, active |-> TRUE]
     IN  /\ rows' = [rows EXCEPT ![pk] = row]
         /\ Advance(t, [NoRequest EXCEPT !.op = "create", !.at = "granting", !.pk = pk,
                           !.copy = row, !.todo = {p \in Pages : Allows(p, "USER")}])
  /\ UNCHANGED <<setting, grants, cache, online>>

(* role_create: the row with rank 10, then one grant per page, those of USER. *)
CreateRole(t, pk, code) ==
  /\ req[t] = NoRequest /\ "create" \in setting.handlers
  /\ rows[pk] = NoRow /\ PksOf(code) = {}
  /\ LET row == [code |-> code, rank |-> 10, system |-> FALSE, active |-> TRUE]
     IN  /\ rows' = [rows EXCEPT ![pk] = row]
         /\ Advance(t, [NoRequest EXCEPT !.op = "create", !.at = "granting", !.pk = pk,
                                         !.copy = row, !.todo = Pages])
  /\ UNCHANGED <<setting, grants, cache, online>>

(* sync_roles, one built-in role after the other.  role_list runs it as well when
   there is no row at all. *)
StartSync(t) ==
  /\ req[t] = NoRequest /\ "sync" \in setting.handlers
  /\ Advance(t, [NoRequest EXCEPT !.op = "sync", !.at = "syncing"])
  /\ UNCHANGED <<setting, rows, grants, cache, online>>

(* get_or_create of the next role; a row that is not marked as built in is marked,
   nothing else of it changes. *)
SyncRole(t) ==
  /\ req[t].op = "sync" /\ req[t].at = "syncing" /\ req[t].step < Len(BuiltIns)
  /\ LET code == BuiltIns[req[t].step + 1]
         Found(pk) ==
           /\ rows' = [rows EXCEPT ![pk].system = TRUE]
           /\ Advance(t, [req[t] EXCEPT !.step = @ + 1, !.at = "granting", !.pk = pk,
                            !.copy = rows[pk], !.todo = {p \in Pages : grants[pk][p] = "none"}])
         Created(pk) ==
           /\ rows' = [rows EXCEPT ![pk] = SystemRow(code)]
           /\ Advance(t, [req[t] EXCEPT !.step = @ + 1, !.at = "granting", !.pk = pk,
                            !.copy = SystemRow(code), !.todo = Pages])
     IN  IF PksOf(code) # {}
           THEN \E pk \in PksOf(code) : Found(pk)
           ELSE \E pk \in Pks : rows[pk] = NoRow /\ Created(pk)
  /\ UNCHANGED <<setting, grants, cache, online>>

SyncDone(t) ==
  /\ req[t].op = "sync" /\ req[t].at = "syncing" /\ req[t].step = Len(BuiltIns)
  /\ Advance(t, [req[t] EXCEPT !.at = "written"])
  /\ UNCHANGED <<setting, rows, grants, cache, online>>

(* The grants that were missing, one by one; a grant that exists by now breaks the
   unique constraint and the handler or command fails. *)
CreateGrant(t, p) ==
  /\ req[t].at = "granting" /\ p \in req[t].todo
  /\ LET pk == req[t].pk
         code == IF req[t].op = "sync" THEN req[t].copy.code ELSE "USER"
     IN  IF Live(pk) /\ grants[pk][p] # "none"
           THEN Finish(t) /\ UNCHANGED grants
           ELSE /\ grants' = IF Live(pk) THEN [grants EXCEPT ![pk][p] = DefaultGrant(p, code)]
                             ELSE grants
                /\ Advance(t, [req[t] EXCEPT !.todo = @ \ {p}])
  /\ UNCHANGED <<setting, rows, cache, online>>

GrantsCreated(t) ==
  /\ req[t].at = "granting" /\ req[t].todo = {}
  /\ Advance(t, [req[t] EXCEPT !.at = IF req[t].op = "sync" THEN "syncing" ELSE "granted"])
  /\ UNCHANGED <<setting, rows, grants, cache, online>>

(* An invalid form or a GET; a worker that dies, a store that fails. *)
Abandon(t) ==
  /\ req[t].at = "loaded" \/ ("worker" \in setting.faults /\ req[t].at # "idle")
  /\ Finish(t)
  /\ UNCHANGED <<setting, rows, grants, cache, online>>

-----------------------------------------------------------------------------
Check(t) == LoadTable(t) \/ StoreTable(t)

Write(t) ==
  \/ \E pk \in Pks, op \in setting.handlers \cap {"toggle", "edit", "delete"} :
        LoadRole(t, op, pk)
  \/ \E p \in Pages, g \in {"allowed", "denied"} : WriteGrant(t, p, g)
  \/ \E c \in Codes, a \in BOOLEAN : SaveRole(t, c, a)
  \/ DeleteRole(t)
  \/ \E pk \in Pks, c \in Codes : CreateRole(t, pk, c)
  \/ StartSync(t) \/ SyncRole(t) \/ SyncDone(t)
  \/ \E p \in Pages : CreateGrant(t, p)
  \/ GrantsCreated(t)
  \/ Recalculate(t) \/ SaveRank(t) \/ Invalidate(t)
  \/ Abandon(t)

Next ==
  \/ \E t \in setting.threads : Check(t) \/ Write(t)
  \/ \E k \in Caches : Expire(k)
  \/ CacheUpDown

Spec == Init /\ [][Next]_vars

-----------------------------------------------------------------------------
(* Properties. *)

TypeOK ==
  /\ setting \in Settings
  /\ rows \in [Pks -> Row \cup {NoRow, Deleted}]
  /\ grants \in [Pks -> [Pages -> {"none", "allowed", "denied"}]]
  /\ cache \in [Caches -> Table \cup {NoTable}]
  /\ online \in BOOLEAN
  /\ \A t \in Threads :
       /\ req[t].op \in {"none"} \cup Handlers
       /\ req[t].pk \in Pks \cup {NoPk}
       /\ req[t].copy \in Row \cup {NoRow}
       /\ req[t].todo \subseteq Pages
       /\ req[t].step \in 0..Len(BuiltIns)
       /\ req[t].rank \in 0..30
       /\ req[t].table \in Table \cup {NoTable}

Writing == \E t \in Threads : req[t].op \notin {"none", "lookup"}
Serial == Cardinality(setting.threads) = 1 /\ setting.faults = {}
Busy == \E t \in Threads : req[t].op # "none"

(* roles.py:63-69: "Every active role keyed by code. Cached; invalidated on any
   role write."  One request at a time and nothing failing: once the handlers are done,
   no check is answered from a table that differs from the stored roles. *)
CachedTableCurrent ==
  Serial /\ ~Busy => \A k \in Caches : cache[k] \in {NoTable, Loaded}

(* The same, whatever the cache does: cache.py:1-2, 43, "A backend error degrades
   performance but never correctness."  A store that fails is excepted: the built-in
   table that takes the place of the answer is cached like any other. *)
TablesConverge ==
  <>[]~Writing /\ []("store" \notin setting.faults)
    => <>[](\A k \in Caches : cache[k] \in {NoTable, Loaded})

(* role_views.py:61-63: "Rank follows the granted screens". *)
RankFollowsGrants ==
  Serial /\ ~Busy => \A pk \in Pks : Live(pk) /\ ~rows[pk].system =>
              rows[pk].rank = RankOf(Cardinality(GrantedPages(pk)))

(* role_models.py:2: "System roles cannot be deleted or demoted below their
   built-in rank."  Nor are they renamed or deactivated, although every edit
   writes back the whole row it read. *)
SystemRowsStay ==
  [][\A pk \in Pks : Live(pk) /\ rows[pk].system => rows'[pk] = rows[pk]]_rows

(* role_views.py:232-233: "Super Admin keeps access to every screen." *)
SuperAdminKeepsEveryPage ==
  \A k \in Caches : cache[k] # NoTable => Lookup(cache[k], "SUPER_ADMIN").pages = Pages

(* role_views.py:157-176, sync_roles.py:27-57.  When nothing is being written,
   every role has a grant, allowed or denied, for every page. *)
GrantsComplete ==
  Serial /\ ~Writing => \A pk \in Pks, p \in Pages : Live(pk) => grants[pk][p] # "none"
=============================================================================
