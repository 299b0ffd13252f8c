--------------------------- MODULE ProjectOverlay ---------------------------
(***************************************************************************)
(* The projects of RankVista: apps/projects/views.py, services.py,         *)
(* repositories.py, overlay.py and selectors.py.                           *)
(*                                                                         *)
(* The projects themselves are rows of the read-only warehouse, cached     *)
(* whole as the roster for CACHE_TTL_LONG.  What users change about them   *)
(* is a document of the MongoDB overlay, merged over the row on reading.   *)
(* A handler reads the roster (one step for a hit, two for a miss), writes *)
(* the overlay, drops the roster and writes an audit record; requests of   *)
(* several threads interleave between those steps.                         *)
(*                                                                         *)
(* The warehouse is outside the program: it gains projects and is at times *)
(* unavailable.  Left out: the fields of a project besides name and        *)
(* status, filtering and sorting, and the usage counters.                  *)
(***************************************************************************)
EXTENDS Integers, FiniteSets, FiniteSetsExt

CONSTANTS
  Ids,       \* bound: project ids
  FirstId,   \* the default of next_project_id, for an empty roster
  Names,     \* names a form may carry
  NoName,    \* no name in the overlay: the title of the warehouse shows
  Threads,
  Handlers,  \* bound: the handlers that are called
  Settings,  \* bound: the surroundings that are considered
  NoDoc, NoRoster, NoId

ASSUME ThreadsFinite == IsFiniteSet(Threads)
ASSUME NoNameIsNoName == NoName \notin Names
ASSUME IdsNat == Ids \subseteq Nat /\ IsFiniteSet(Ids) /\ FirstId \in Nat

(* What may happen around the program: the threads that serve requests, the ids
   and names they meet, what may fail, whether the warehouse gains projects. *)
Setting == [threads : SUBSET Threads, ids : SUBSET Ids, names : SUBSET Names,
            outages : SUBSET {"warehouse", "mongo", "worker"}, grows : BOOLEAN]

ASSUME SettingsOK == Settings \subseteq Setting

VARIABLES
  setting,    \* one of Settings, the same all the time
  warehouse,  \* the projects that have a row
  warehouseUp,
  mongoUp,
  overlay,    \* the overlay document of each project id
  roster,     \* what the cache holds under CACHE_KEY_ROSTER
  trail,      \* name and status of each project according to the audit log
  req         \* the request each thread serves

vars == <<setting, warehouse, warehouseUp, mongoUp, overlay, roster, trail, req>>

(* A document that only records a visit has no status. *)
Doc == [name : Names \cup {NoName}, status : {"active", "archived", "unset"}]
ASSUME NoDocIsNoDoc == NoDoc \notin Doc
Blank == [name |-> NoName, status |-> "unset"]

(* What _decorate makes of a project without a document. *)
Patch(id) == IF overlay[id] = NoDoc THEN Blank ELSE overlay[id]

Archived(id) == Patch(id).status = "archived"

OnProject == {"open", "edit", "archive"}
Op == OnProject \cup {"browse", "create", "bulk"}
ASSUME HandlersAreHandlers == Handlers \subseteq Op

Stage == {"idle", "roster", "fetched", "have", "write", "reread", "invalidate", "record"}

NoRequest == [op |-> "none", at |-> "idle", id |-> NoId, name |-> NoName,
              rows |-> {}, chosen |-> {}, todo |-> {}, saved |-> FALSE]

Init ==
  /\ setting \in Settings
  /\ warehouse \in SUBSET setting.ids
  /\ warehouseUp = TRUE /\ mongoUp = TRUE
  /\ overlay = [id \in Ids |-> NoDoc]
  /\ roster = NoRoster
  /\ trail = [id \in Ids |-> Blank]
  /\ req = [t \in Threads |-> NoRequest]

Advance(t, r) == req' = [req EXCEPT ![t] = r]
Move(t, stage) == Advance(t, [req[t] EXCEPT !.at = stage])
Finish(t) == Advance(t, NoRequest)

(* next_project_id: above every id of the roster. *)
NextId(rows) == Max({FirstId} \cup rows) + 1

(* overlay.upsert: the fields it is given, the others as stored. *)
Upsert(id, name, status) ==
  overlay' = [overlay EXCEPT ![id] =
    [name   |-> IF name = NoName THEN Patch(id).name ELSE name,
     status |-> IF status = "unset" THEN Patch(id).status ELSE status]]

-----------------------------------------------------------------------------
(* A request with a valid form arrives. *)

(* Every handler but bulk archive begins with the roster. *)
Arrive(t, op, id, name) ==
  /\ req[t] = NoRequest
  /\ Advance(t, [NoRequest EXCEPT !.op = op, !.at = "roster", !.id = id, !.name = name])
  /\ UNCHANGED <<setting, warehouse, warehouseUp, mongoUp, overlay, roster, trail>>

(* The ids are those that the check boxes of a listing send, of projects in the
   warehouse.  The handler itself takes any (views.py:206). *)
ArriveBulk(t, ids) ==
  /\ req[t] = NoRequest
  /\ ids # {}
  /\ \E id \in ids :
        Advance(t, [NoRequest EXCEPT !.op = "bulk", !.at = "write", !.id = id,
                                     !.chosen = ids, !.todo = ids \ {id}])
  /\ UNCHANGED <<setting, warehouse, warehouseUp, mongoUp, overlay, roster, trail>>

-----------------------------------------------------------------------------
(* _roster, that is cached_call(CACHE_KEY_ROSTER, CACHE_TTL_LONG, produce). *)

RosterHit(t) ==
  /\ req[t].at = "roster" /\ roster # NoRoster
  /\ Advance(t, [req[t] EXCEPT !.at = "have", !.rows = roster])
  /\ UNCHANGED <<setting, warehouse, warehouseUp, mongoUp, overlay, roster, trail>>

QueryWarehouse(t) ==
  /\ req[t].at = "roster" /\ roster = NoRoster
  /\ warehouseUp
  /\ Advance(t, [req[t] EXCEPT !.at = "fetched", !.rows = warehouse])
  /\ UNCHANGED <<setting, warehouse, warehouseUp, mongoUp, overlay, roster, trail>>

(* SourceUnavailable: the handler answers with the error page, wherever it is. *)
QueryFailed(t) ==
  /\ req[t].at = "roster" /\ roster = NoRoster
  /\ ~warehouseUp
  /\ Finish(t)
  /\ UNCHANGED <<setting, warehouse, warehouseUp, mongoUp, overlay, roster, trail>>

StoreRoster(t) ==
  /\ req[t].at = "fetched"
  /\ roster' = req[t].rows
  /\ Move(t, "have")
  /\ UNCHANGED <<setting, warehouse, warehouseUp, mongoUp, overlay, trail>>

Expire ==
  /\ roster # NoRoster
  /\ roster' = NoRoster
  /\ UNCHANGED <<setting, warehouse, warehouseUp, mongoUp, overlay, trail, req>>

-----------------------------------------------------------------------------
(* The grid: project_list reads and renders. *)
Browse(t) ==
  /\ req[t].op = "browse" /\ req[t].at = "have"
  /\ Finish(t)
  /\ UNCHANGED <<setting, warehouse, warehouseUp, mongoUp, overlay, roster, trail>>

(* require_project: a 404 for an id the roster lacks. *)
RequireProject(t) ==
  /\ req[t].op \in OnProject /\ req[t].at = "have" /\ ~req[t].saved
  /\ IF req[t].id \in req[t].rows THEN Move(t, "write") ELSE Finish(t)
  /\ UNCHANGED <<setting, warehouse, warehouseUp, mongoUp, overlay, roster, trail>>

(* _project_context: touch_last_opened leaves a document behind, or nothing when
   the overlay fails. *)
Touch(t) ==
  /\ req[t].op = "open" /\ req[t].at = "write"
  /\ IF mongoUp THEN Upsert(req[t].id, NoName, "unset") ELSE UNCHANGED overlay
  /\ Finish(t)
  /\ UNCHANGED <<setting, warehouse, warehouseUp, mongoUp, roster, trail>>

(* Mutant: upsert swallows the error as touch_last_opened does. *)
WriteFailed_Swallowed(t) ==
  /\ req[t].op \in {"edit", "archive", "bulk"} /\ req[t].at = "write"
  /\ ~mongoUp
  /\ Move(t, "invalidate")
  /\ UNCHANGED <<setting, warehouse, warehouseUp, mongoUp, overlay, roster, trail>>

(* A write that fails raises PyMongoError, which no view catches. *)
WriteFailed(t) ==
  /\ \/ req[t].op \in {"edit", "archive", "bulk"} /\ req[t].at = "write"
     \/ req[t].op = "create" /\ req[t].at = "have"
  /\ ~mongoUp
  /\ Finish(t)
  /\ UNCHANGED <<setting, warehouse, warehouseUp, mongoUp, overlay, roster, trail>>

(* create_project: the next id of the roster as it was read, status active. *)
SaveCreate(t) ==
  /\ req[t].op = "create" /\ req[t].at = "have" /\ mongoUp
  /\ NextId(req[t].rows) \in setting.ids
  /\ Upsert(NextId(req[t].rows), req[t].name, "active")
  /\ Advance(t, [req[t] EXCEPT !.at = "reread", !.id = NextId(req[t].rows)])
  /\ UNCHANGED <<setting, warehouse, warehouseUp, mongoUp, roster, trail>>

(* get_one after the upsert: its name goes to the audit log. *)
RereadCreated(t) ==
  /\ req[t].at = "reread"
  /\ Advance(t, [req[t] EXCEPT !.at = "invalidate",
                               !.name = IF mongoUp THEN Patch(req[t].id).name ELSE NoName])
  /\ UNCHANGED <<setting, warehouse, warehouseUp, mongoUp, overlay, roster, trail>>

(* Mutant: an edit defaults the status as a creation does. *)
SaveEdit_Active(t) ==
  /\ req[t].op = "edit" /\ req[t].at = "write" /\ mongoUp
  /\ Upsert(req[t].id, req[t].name, "active")
  /\ Advance(t, [req[t] EXCEPT !.at = "roster", !.saved = TRUE])
  /\ UNCHANGED <<setting, warehouse, warehouseUp, mongoUp, roster, trail>>

(* update_project: the fields of the form, then get_project, which reads the
   roster again. *)
SaveEdit(t) ==
  /\ req[t].op = "edit" /\ req[t].at = "write" /\ mongoUp
  /\ Upsert(req[t].id, req[t].name, "unset")
  /\ Advance(t, [req[t] EXCEPT !.at = "roster", !.saved = TRUE])
  /\ UNCHANGED <<setting, warehouse, warehouseUp, mongoUp, roster, trail>>

(* Mutant: the title of the warehouse goes to the audit log. *)
RereadEdited_Title(t) ==
  /\ req[t].op = "edit" /\ req[t].at = "have" /\ req[t].saved
  /\ Advance(t, [req[t] EXCEPT !.at = "invalidate", !.name = NoName])
  /\ UNCHANGED <<setting, warehouse, warehouseUp, mongoUp, overlay, roster, trail>>

RereadEdited(t) ==
  /\ req[t].op = "edit" /\ req[t].at = "have" /\ req[t].saved
  /\ Advance(t, [req[t] EXCEPT !.at = "invalidate",
                    !.name = IF req[t].id \notin req[t].rows THEN req[t].name
                             ELSE IF mongoUp THEN Patch(req[t].id).name ELSE NoName])
  /\ UNCHANGED <<setting, warehouse, warehouseUp, mongoUp, overlay, roster, trail>>

(* archive_project, from the project's menu or for each of the chosen ones. *)
SaveArchive(t) ==
  /\ req[t].op \in {"archive", "bulk"} /\ req[t].at = "write" /\ mongoUp
  /\ Upsert(req[t].id, NoName, "archived")
  /\ Move(t, "invalidate")
  /\ UNCHANGED <<setting, warehouse, warehouseUp, mongoUp, roster, trail>>

-----------------------------------------------------------------------------
(* The end of every write: services._invalidate, then record. *)

Invalidate(t) ==
  /\ req[t].at = "invalidate"
  /\ roster' = NoRoster
  /\ Move(t, "record")
  /\ UNCHANGED <<setting, warehouse, warehouseUp, mongoUp, overlay, trail>>

(* What replaying the log gives: PROJECT_CREATED and PROJECT_UPDATED carry the
   name, PROJECT_DELETED says archived.  The log is in MongoDB as well. *)
Replayed(entry, r) ==
  CASE r.op = "create" -> [name |-> r.name, status |-> "active"]
    [] r.op = "edit" -> [entry EXCEPT !.name = r.name]
    [] OTHER -> [entry EXCEPT !.status = "archived"]

NextChosen(t) ==
  IF req[t].todo = {} THEN Finish(t)
  ELSE \E id \in req[t].todo :
         Advance(t, [req[t] EXCEPT !.at = "write", !.id = id, !.todo = @ \ {id}])

Record(t) ==
  /\ req[t].at = "record"
  /\ trail' = IF mongoUp THEN [trail EXCEPT ![req[t].id] = Replayed(@, req[t])] ELSE trail
  /\ NextChosen(t)
  /\ UNCHANGED <<setting, warehouse, warehouseUp, mongoUp, overlay, roster>>

-----------------------------------------------------------------------------
(* Around the program. *)

Import(id) ==
  /\ setting.grows /\ id \notin warehouse
  /\ warehouse' = warehouse \cup {id}
  /\ UNCHANGED <<setting, warehouseUp, mongoUp, overlay, roster, trail, req>>

WarehouseUpDown ==
  /\ "warehouse" \in setting.outages
  /\ warehouseUp' = ~warehouseUp
  /\ UNCHANGED <<setting, warehouse, mongoUp, overlay, roster, trail, req>>

MongoUpDown ==
  /\ "mongo" \in setting.outages
  /\ mongoUp' = ~mongoUp
  /\ UNCHANGED <<setting, warehouse, warehouseUp, overlay, roster, trail, req>>

WorkerDies(t) ==
  /\ "worker" \in setting.outages /\ req[t] # NoRequest
  /\ Finish(t)
  /\ UNCHANGED <<setting, warehouse, warehouseUp, mongoUp, overlay, roster, trail>>

Serve(t) ==
  \/ "browse" \in Handlers /\ Arrive(t, "browse", NoId, NoName)
  \/ "create" \in Handlers /\ \E n \in setting.names : Arrive(t, "create", NoId, n)
  \/ "edit" \in Handlers /\ \E id \in setting.ids, n \in setting.names : Arrive(t, "edit", id, n)
  \/ \E op \in Handlers \cap {"open", "archive"}, id \in setting.ids : Arrive(t, op, id, NoName)
  \/ "bulk" \in Handlers /\ \E ids \in SUBSET warehouse : ArriveBulk(t, ids)
  \/ RosterHit(t) \/ QueryWarehouse(t) \/ QueryFailed(t) \/ StoreRoster(t)
  \/ Browse(t) \/ RequireProject(t) \/ Touch(t)
  \/ WriteFailed(t)
  \/ SaveCreate(t) \/ RereadCreated(t)
  \/ SaveEdit(t) \/ RereadEdited(t)
  \/ SaveArchive(t)
  \/ Invalidate(t) \/ Record(t)
  \/ WorkerDies(t)

Next ==
  \/ \E t \in setting.threads : Serve(t)
  \/ \E id \in setting.ids : Import(id)
  \/ Expire \/ WarehouseUpDown \/ MongoUpDown

Spec == Init /\ [][Next]_vars

-----------------------------------------------------------------------------
(* Properties. *)

Quiet == \A t \in Threads : req[t] = NoRequest

(* One request follows the other. *)
Serial == Cardinality(setting.threads) = 1

(* overlay.py:55-73, views.py:161-234.  An archived project stays archived: an
   edit or a visit that read it before, and overlaps the archiving in any way,
   writes only its own fields.  While the warehouse gains nothing a creation takes
   no id that is in it; one that is imported after a creation read the roster can
   be archived and then overwritten. *)
ArchivedStays ==
  [][~setting.grows => \A id \in Ids : Archived(id) => Archived(id)']_overlay

(* views.py:202-222.  When the bulk action reports success, every selected project
   is archived, whatever other requests and failures happened meanwhile; but for a
   creation that takes the id of a project that has just been imported, as above. *)
BulkArchivesAll ==
  [][~setting.grows \/ Serial => \A t \in Threads :
        Record(t) /\ req[t].op = "bulk" /\ req'[t] = NoRequest
          => \A id \in req[t].chosen : Archived(id)]_vars

(* services.py:1: "Project write operations with cache invalidation and auditing."
   As long as one request follows the other and nothing fails, replaying the log
   gives every project the name and status that it has in the overlay. *)
TrailExplains ==
  Quiet /\ Serial /\ setting.outages = {} => \A id \in Ids :
     /\ trail[id].name = Patch(id).name
     /\ trail[id].status = Patch(id).status

(* schema.py:27: "project_id: int - stable public identifier used in URLs".  A
   creation never takes an id that stands for another project already. *)
IdIdentifies ==
  [][\A t \in Threads : SaveCreate(t) =>
        LET id == NextId(req[t].rows) IN overlay[id] = NoDoc /\ id \notin warehouse]_vars
=============================================================================
