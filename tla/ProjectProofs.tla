---------------------------- MODULE ProjectProofs ----------------------------
(***************************************************************************)
(* What holds of ProjectOverlay for any projects, names and threads.       *)
(*                                                                         *)
(* Only a project with a row can be archived (Seen, OnlyKnownArchived),    *)
(* and while the warehouse gains nothing every roster is the whole         *)
(* warehouse (RosterWhole, Seen): the id of a creation lies above it, and  *)
(* no write there touches an archived project.  When one request follows   *)
(* the other and nothing fails, the log lags behind the overlay by the     *)
(* record that the request under way has still to write (Explained).       *)
(***************************************************************************)
EXTENDS ProjectOverlay, FiniteSetTheorems, WellFoundedInduction, TLAPS

Request ==
  [op : Op \cup {"none"}, at : Stage, id : Ids \cup {NoId}, name : Names \cup {NoName},
   rows : SUBSET Ids, chosen : SUBSET Ids, todo : SUBSET Ids, saved : BOOLEAN]

Reading == {"roster", "fetched", "have"}

StagesOf(op) ==
  CASE op = "none" -> {"idle"}
    [] op = "browse" -> Reading
    [] op = "create" -> Reading \cup {"reread", "invalidate", "record"}
    [] op = "open" -> Reading \cup {"write"}
    [] op \in {"edit", "archive"} -> Reading \cup {"write", "invalidate", "record"}
    [] op = "bulk" -> {"write", "invalidate", "record"}

Placed(r) ==
  /\ r.at \in StagesOf(r.op)
  /\ r.op = "none" => r = NoRequest
  /\ r.op \in OnProject \cup {"bulk"} \/ r.at \in {"reread", "invalidate", "record"} => r.id \in Ids
  /\ r.op \in {"create", "edit"} /\ r.at \in Reading \cup {"write"} => r.name \in Names
  /\ r.saved => r.op = "edit" /\ r.at # "write"
  /\ r.op = "edit" /\ r.at \in {"invalidate", "record"} => r.saved
  /\ IF r.op = "bulk" THEN r.todo \subseteq r.chosen ELSE r.todo = {}

TypeOK ==
  /\ setting \in Settings
  /\ warehouse \subseteq Ids
  /\ warehouseUp \in BOOLEAN /\ mongoUp \in BOOLEAN
  /\ overlay \in [Ids -> Doc \cup {NoDoc}]
  /\ trail \in [Ids -> Doc]
  /\ req \in [Threads -> Request]
  /\ \A t \in Threads : Placed(req[t]) /\ (t \notin setting.threads => req[t] = NoRequest)

(* What is known of the warehouse is in it, and is all of it unless it grows. *)
KnownRows(rows) == rows \subseteq warehouse /\ (~setting.grows => rows = warehouse)

RosterWhole == roster # NoRoster => KnownRows(roster)

Seen(r) ==
  /\ r.at \in {"fetched", "have"} => KnownRows(r.rows)
  /\ r.op = "bulk" => r.chosen \subseteq warehouse
  /\ r.op \in {"archive", "bulk"} /\ r.at = "write" => r.id \in warehouse

OnlyKnownArchived == \A id \in Ids : Archived(id) => id \in warehouse

(* What a bulk action has already gone through. *)
Handled(r) ==
  {id \in r.chosen : id \notin r.todo /\ (id = r.id => r.at \in {"invalidate", "record"})}

BulkHolds(r) ==
  (~setting.grows \/ Serial) /\ r.op = "bulk" => \A id \in Handled(r) : Archived(id)

IInv ==
  /\ TypeOK /\ RosterWhole /\ OnlyKnownArchived
  /\ \A t \in Threads : Seen(req[t]) /\ BulkHolds(req[t])

-----------------------------------------------------------------------------
(* One request at a time. *)

Undisturbed == Serial /\ setting.outages = {}

(* What the request under way has written and not recorded yet. *)
Unrecorded(r) == r.saved \/ r.at \in {"reread", "invalidate", "record"}

Explained(t) ==
  /\ \A id \in Ids : (Unrecorded(req[t]) /\ id = req[t].id) \/ trail[id] = Patch(id)
  /\ Unrecorded(req[t]) =>
       IF req[t].at = "reread" THEN Patch(req[t].id).status = "active"
       ELSE Replayed(trail[req[t].id], req[t]) = Patch(req[t].id)

SerialInv ==
  Undisturbed => mongoUp /\ warehouseUp /\ \A t \in setting.threads : Explained(t)

-----------------------------------------------------------------------------
(* The operators of the model. *)

(* A finite set of integers has a maximum: a smallest set without one would have one
   as soon as an element is added to a smaller one. *)
LEMMA MaxExists ==
  ASSUME NEW S \in SUBSET Int, IsFiniteSet(S), S # {}
  PROVE  Max(S) \in S /\ \A x \in S : Max(S) >= x
<1> DEFINE HasMax(A) == \E m \in A : \A x \in A : m >= x
           Bad == {A \in FiniteSubsetsOf(S) : A # {} /\ ~HasMax(A)}
<1>1. Bad = {}
  <2>1. SUFFICES ASSUME Bad # {}  PROVE FALSE
    OBVIOUS
  <2>2. IsWellFoundedOn(StrictSubsetOrdering(S), FiniteSubsetsOf(S))
    BY FS_StrictSubsetOrderingWellFounded
  <2>3. Bad \subseteq FiniteSubsetsOf(S)
    OBVIOUS
  <2>4. PICK A \in Bad : \A B \in Bad : <<B, A>> \notin StrictSubsetOrdering(S)
    BY <2>1, <2>2, <2>3, WFMin
  <2>5. A \in SUBSET S /\ IsFiniteSet(A) /\ A # {} /\ ~HasMax(A)
    BY DEF FiniteSubsetsOf
  <2>6. PICK a \in A : TRUE
    BY <2>5
  <2> DEFINE B == A \ {a}
  <2>7. B \in SUBSET S /\ IsFiniteSet(B) /\ B # A /\ B \subseteq A
    BY <2>5, <2>6, FS_RemoveElement
  <2>8. <<B, A>> \in StrictSubsetOrdering(S)
    BY <2>5, <2>7 DEF StrictSubsetOrdering
  <2>9. B \notin Bad
    BY <2>4, <2>8
  <2>10. B = {} \/ HasMax(B)
    BY <2>7, <2>9 DEF FiniteSubsetsOf
  <2>11. HasMax(A)
    <3>1. CASE B = {}
      BY <2>5, <2>6, <3>1
    <3>2. CASE HasMax(B)
      <4>1. PICK m \in B : \A x \in B : m >= x
        BY <3>2
      <4>2. a \in Int /\ m \in Int /\ m \in A /\ \A x \in A : x \in Int /\ (x = a \/ m >= x)
        BY <2>5, <2>6, <4>1
      <4>3. QED
        BY <4>2, <2>6
    <3>3. QED
      BY <2>10, <3>1, <3>2
  <2>12. QED
    BY <2>5, <2>11
<1>2. HasMax(S)
  BY <1>1 DEF FiniteSubsetsOf
<1>3. QED
  BY <1>2 DEF Max

(* repositories.py:202-206.  The next id is above every id of the roster. *)
THEOREM NextIdIsNew ==
  ASSUME NEW rows \in SUBSET Ids
  PROVE  NextId(rows) \notin rows
<1>1. rows \subseteq Int /\ IsFiniteSet(rows) /\ FirstId \in Int
  <2>1. IsFiniteSet(Ids) /\ Ids \subseteq Nat /\ FirstId \in Nat
    BY IdsNat
  <2>2. IsFiniteSet(rows)
    BY <2>1, FS_Subset
  <2>3. QED
    BY <2>1, <2>2
<1>2. {FirstId} \cup rows \in SUBSET Int /\ IsFiniteSet({FirstId} \cup rows)
  <2>1. {FirstId} \cup rows = rows \cup {FirstId}
    OBVIOUS
  <2>2. QED
    BY <1>1, <2>1, FS_AddElement
<1> DEFINE m == Max({FirstId} \cup rows)
<1>3. m \in Int /\ \A x \in rows : x \in Int /\ m >= x
  BY <1>1, <1>2, MaxExists
<1> HIDE DEF m
<1>4. m + 1 \notin rows
  BY <1>3
<1>5. QED
  BY <1>4 DEF NextId, m

LEMMA IdlePlaced == NoRequest \in Request /\ Placed(NoRequest) /\ Seen(NoRequest)
BY DEF NoRequest, Request, Placed, StagesOf, Reading, Seen, Stage, OnProject

LEMMA IdleFields ==
  /\ NoRequest.op = "none" /\ NoRequest.at = "idle" /\ NoRequest.id = NoId
  /\ NoRequest.name = NoName /\ NoRequest.rows = {} /\ NoRequest.chosen = {}
  /\ NoRequest.todo = {} /\ NoRequest.saved = FALSE
BY DEF NoRequest

LEMMA PatchIsDoc ==
  ASSUME TypeOK, NEW id \in Ids
  PROVE  Patch(id) \in Doc
BY DEF TypeOK, Patch, Blank, Doc

(* What upsert makes of the overlay. *)
LEMMA UpsertEffect ==
  ASSUME TypeOK, NEW id \in Ids, NEW name \in Names \cup {NoName},
         NEW status \in {"active", "archived", "unset"}, Upsert(id, name, status)
  PROVE  /\ overlay' \in [Ids -> Doc \cup {NoDoc}]
         /\ Patch(id)' \in Doc
         /\ Patch(id)'.name = IF name = NoName THEN Patch(id).name ELSE name
         /\ Patch(id)'.status = IF status = "unset" THEN Patch(id).status ELSE status
         /\ \A j \in Ids \ {id} : Patch(j)' = Patch(j)
<1> DEFINE doc == [name   |-> IF name = NoName THEN Patch(id).name ELSE name,
                   status |-> IF status = "unset" THEN Patch(id).status ELSE status]
<1>1. Patch(id) \in Doc
  BY PatchIsDoc
<1>2. doc \in Doc /\ doc # NoDoc
  BY <1>1, NoDocIsNoDoc DEF Doc
<1>3. overlay' = [overlay EXCEPT ![id] = doc] /\ overlay \in [Ids -> Doc \cup {NoDoc}]
  BY DEF Upsert, TypeOK
<1>4. /\ doc.name = IF name = NoName THEN Patch(id).name ELSE name
      /\ doc.status = IF status = "unset" THEN Patch(id).status ELSE status
  OBVIOUS
<1> HIDE DEF doc
<1>5. overlay'[id] = doc /\ \A j \in Ids \ {id} : overlay'[j] = overlay[j]
  BY <1>3
<1>6. QED
  BY <1>2, <1>3, <1>4, <1>5 DEF Patch

LEMMA SettingParts ==
  ASSUME TypeOK
  PROVE  /\ setting.threads \subseteq Threads /\ setting.ids \subseteq Ids
         /\ setting.names \subseteq Names
         /\ setting.outages \subseteq {"warehouse", "mongo", "worker"}
         /\ setting.grows \in BOOLEAN
<1>1. setting \in Setting
  BY SettingsOK DEF TypeOK
<1>2. QED
  BY <1>1 DEF Setting

LEMMA OneThread ==
  ASSUME TypeOK, Serial
  PROVE  \E t \in Threads : setting.threads = {t}
<1>1. IsFiniteSet(setting.threads) /\ setting.threads \subseteq Threads
  BY SettingParts, ThreadsFinite, FS_Subset
<1>2. PICK t : setting.threads = {t}
  BY <1>1, FS_Singleton DEF Serial
<1>3. QED
  BY <1>1, <1>2

-----------------------------------------------------------------------------
(* The strengthened invariant. *)

(* A step of one request that leaves the overlay alone. *)
LEMMA QuietStep ==
  ASSUME IInv, NEW t \in setting.threads, NEW r \in Request, Placed(r), Seen(r), BulkHolds(r),
         req' = [req EXCEPT ![t] = r],
         UNCHANGED <<setting, warehouse, warehouseUp, mongoUp, overlay>>,
         trail' \in [Ids -> Doc], RosterWhole'
  PROVE  IInv'
<1>1. t \in Threads
  BY SettingParts DEF IInv
<1>2. req \in [Threads -> Request]
  BY DEF IInv, TypeOK
<1>3. /\ req' \in [Threads -> Request] /\ req'[t] = r
      /\ \A u \in Threads \ {t} : req'[u] = req[u]
  BY <1>1, <1>2
<1>4. TypeOK'
  BY <1>3 DEF IInv, TypeOK
<1>5. OnlyKnownArchived' /\ RosterWhole'
  BY DEF IInv, OnlyKnownArchived, Archived, Patch
<1>6. ASSUME NEW u \in Threads  PROVE Seen(req[u])' /\ BulkHolds(req[u])'
  <2>1. Seen(req'[u]) /\ BulkHolds(req'[u])
    BY <1>3 DEF IInv
  <2>2. QED
    BY <2>1 DEF Seen, KnownRows, BulkHolds, Handled, Archived, Patch, Serial
<1>7. QED
  BY <1>4, <1>5, <1>6 DEF IInv

LEMMA FinishStep ==
  ASSUME IInv, NEW t \in setting.threads, Finish(t),
         UNCHANGED <<setting, warehouse, warehouseUp, mongoUp, overlay>>,
         trail' \in [Ids -> Doc], RosterWhole'
  PROVE  IInv'
<1>1. BulkHolds(NoRequest)
  BY IdleFields DEF BulkHolds
<1>2. QED
  BY <1>1, IdlePlaced, QuietStep DEF Finish, Advance

(* A step of one request that writes the document of one project. *)
LEMMA SaveStep ==
  ASSUME IInv, NEW t \in setting.threads, NEW r \in Request, Placed(r), Seen(r),
         req' = [req EXCEPT ![t] = r],
         NEW id \in Ids, NEW name \in Names \cup {NoName},
         NEW status \in {"active", "archived", "unset"}, Upsert(id, name, status),
         status = "archived" => id \in warehouse,
         status = "active" /\ ~setting.grows => id \notin warehouse,
         UNCHANGED <<setting, warehouse, warehouseUp, mongoUp, roster, trail>>,
         BulkHolds(r)'
  PROVE  IInv' /\ (~setting.grows => \A j \in Ids : Archived(j) => Archived(j)')
<1>1. t \in Threads /\ TypeOK
  BY SettingParts DEF IInv
<1>2. req \in [Threads -> Request]
  BY DEF IInv, TypeOK
<1>3. /\ req' \in [Threads -> Request] /\ req'[t] = r
      /\ \A u \in Threads \ {t} : req'[u] = req[u]
  BY <1>1, <1>2
<1>4. /\ overlay' \in [Ids -> Doc \cup {NoDoc}]
      /\ Patch(id)'.status = IF status = "unset" THEN Patch(id).status ELSE status
      /\ \A j \in Ids \ {id} : Patch(j)' = Patch(j)
  BY <1>1, UpsertEffect
<1>5. TypeOK'
  BY <1>3, <1>4 DEF IInv, TypeOK
<1>6. OnlyKnownArchived'
  BY <1>4 DEF IInv, OnlyKnownArchived, Archived
<1>7. RosterWhole'
  BY DEF IInv, RosterWhole, KnownRows
<1>8. ASSUME ~setting.grows  PROVE \A j \in Ids : Archived(j) => Archived(j)'
  <2>1. status = "active" => ~Archived(id)
    BY <1>8 DEF IInv, OnlyKnownArchived
  <2>2. QED
    BY <1>4, <2>1 DEF Archived
<1>9. \A u \in Threads : Seen(req[u])'
  BY <1>3 DEF IInv, Seen, KnownRows
<1>10. ASSUME NEW u \in Threads \ {t}  PROVE BulkHolds(req[u])'
  <2>1. CASE req[u] = NoRequest
    BY <2>1, <1>3, IdleFields DEF BulkHolds
  <2>2. CASE req[u] # NoRequest
    <3>1. u \in setting.threads
      BY <2>2 DEF IInv, TypeOK
    <3>2. ~Serial
      BY <3>1, <1>1, OneThread
    <3>3. CASE setting.grows
      BY <3>2, <3>3 DEF BulkHolds, Serial
    <3>4. CASE ~setting.grows
      <4>1. req'[u] = req[u] /\ BulkHolds(req[u]) /\ req[u].chosen \subseteq Ids
        BY <1>2, <1>3 DEF IInv, Request
      <4>2. QED
        BY <3>4, <4>1, <1>8 DEF BulkHolds, Handled
    <3>5. QED
      BY <3>3, <3>4
  <2>3. QED
    BY <2>1, <2>2
<1>11. \A u \in Threads : BulkHolds(req[u])'
  BY <1>3, <1>10
<1>12. QED
  BY <1>5, <1>6, <1>7, <1>8, <1>9, <1>11 DEF IInv

(* The fields of a request that goes on. *)
LEMMA Moved ==
  ASSUME NEW q \in Request, NEW stage \in Stage, NEW r, r = [q EXCEPT !.at = stage]
  PROVE  /\ r \in Request /\ r.at = stage /\ r.op = q.op /\ r.id = q.id /\ r.name = q.name
         /\ r.rows = q.rows /\ r.chosen = q.chosen /\ r.todo = q.todo /\ r.saved = q.saved
BY DEF Request

(* The roster is read. *)
LEMMA RosterStep ==
  ASSUME IInv, NEW t \in setting.threads,
         RosterHit(t) \/ QueryWarehouse(t) \/ QueryFailed(t) \/ StoreRoster(t)
  PROVE  IInv'
<1>1. /\ t \in Threads /\ req[t] \in Request /\ Placed(req[t]) /\ Seen(req[t])
      /\ BulkHolds(req[t]) /\ trail \in [Ids -> Doc] /\ warehouse \subseteq Ids /\ RosterWhole
  BY SettingParts DEF IInv, TypeOK
<1>2. req[t].at \in {"roster", "fetched"} =>
        req[t].op \in {"browse", "create", "open", "edit", "archive"}
  BY <1>1, IdleFields DEF Placed, StagesOf, Op, OnProject, Request
<1>3. ASSUME NEW stage \in {"have", "fetched"}, NEW rows \in SUBSET Ids,
             Advance(t, [req[t] EXCEPT !.at = stage, !.rows = rows]), req[t].at = "roster",
             KnownRows(rows),
             UNCHANGED <<setting, warehouse, warehouseUp, mongoUp, overlay, roster, trail>>
      PROVE  IInv'
  <2> DEFINE r == [req[t] EXCEPT !.at = stage, !.rows = rows]
  <2>1. r \in Request
    BY <1>1 DEF Request, Stage
  <2>2. /\ r.at = stage /\ r.op = req[t].op /\ r.id = req[t].id /\ r.name = req[t].name
        /\ r.rows = rows /\ r.chosen = req[t].chosen /\ r.todo = req[t].todo
        /\ r.saved = req[t].saved
    BY <1>1 DEF Request
  <2>3. req' = [req EXCEPT ![t] = r]
    BY <1>3 DEF Advance
  <2> HIDE DEF r
  <2>4. Placed(r)
    BY <1>1, <1>3, <1>2, <2>2 DEF Placed, StagesOf, Reading, OnProject
  <2>5. Seen(r) /\ BulkHolds(r)
    BY <1>1, <1>3, <2>2 DEF Seen, BulkHolds, Placed, StagesOf
  <2>6. RosterWhole'
    BY <1>1, <1>3 DEF RosterWhole, KnownRows
  <2>7. QED
    BY <1>1, <1>3, <2>1, <2>3, <2>4, <2>5, <2>6, QuietStep
<1>4. CASE RosterHit(t)
  <2>1. roster \in SUBSET Ids /\ KnownRows(roster)
    BY <1>1, <1>4 DEF RosterHit, RosterWhole, KnownRows
  <2>2. QED
    BY <1>3, <1>4, <2>1 DEF RosterHit
<1>5. CASE QueryWarehouse(t)
  <2>1. KnownRows(warehouse)
    BY DEF KnownRows
  <2>2. QED
    BY <1>1, <1>3, <1>5, <2>1 DEF QueryWarehouse
<1>6. CASE QueryFailed(t)
  BY <1>1, <1>6, FinishStep DEF QueryFailed, RosterWhole, KnownRows
<1>7. CASE StoreRoster(t)
  <2> DEFINE r == [req[t] EXCEPT !.at = "have"]
  <2>1. /\ r \in Request /\ r.at = "have" /\ r.op = req[t].op /\ r.id = req[t].id
        /\ r.name = req[t].name /\ r.rows = req[t].rows /\ r.chosen = req[t].chosen
        /\ r.todo = req[t].todo /\ r.saved = req[t].saved
    BY <1>1, Moved DEF Stage
  <2>2. /\ req' = [req EXCEPT ![t] = r] /\ req[t].at = "fetched" /\ roster' = req[t].rows
        /\ UNCHANGED <<setting, warehouse, warehouseUp, mongoUp, overlay, trail>>
    BY <1>7 DEF StoreRoster, Move, Advance
  <2> HIDE DEF r
  <2>3. Placed(r)
    BY <1>1, <1>2, <2>1, <2>2 DEF Placed, StagesOf, Reading, OnProject
  <2>4. Seen(r) /\ BulkHolds(r)
    BY <1>1, <1>2, <2>1, <2>2 DEF Seen, BulkHolds
  <2>5. RosterWhole'
    BY <1>1, <2>2 DEF RosterWhole, KnownRows, Seen
  <2>6. QED
    BY <1>1, <2>1, <2>2, <2>3, <2>4, <2>5, QuietStep
<1>8. QED
  BY <1>4, <1>5, <1>6, <1>7

LEMMA RosterKept ==
  ASSUME IInv, UNCHANGED <<setting, warehouse>>, roster' \in {roster, NoRoster}
  PROVE  RosterWhole'
BY DEF IInv, RosterWhole, KnownRows

LEMMA ArriveStep ==
  ASSUME IInv, NEW t \in setting.threads, NEW op, NEW id, NEW name, Arrive(t, op, id, name),
         \/ op = "browse" /\ id = NoId /\ name = NoName
         \/ op = "create" /\ id = NoId /\ name \in setting.names
         \/ op = "edit" /\ id \in setting.ids /\ name \in setting.names
         \/ op \in {"open", "archive"} /\ id \in setting.ids /\ name = NoName
  PROVE  IInv'
<1> DEFINE r == [NoRequest EXCEPT !.op = op, !.at = "roster", !.id = id, !.name = name]
<1>1. /\ op \in Op /\ id \in Ids \cup {NoId} /\ name \in Names \cup {NoName}
      /\ op \in OnProject => id \in Ids
      /\ op \in {"create", "edit"} => name \in Names
  BY SettingParts DEF IInv, Op, OnProject
<1>2. r \in Request
  BY <1>1, IdlePlaced DEF Request, Stage
<1>3. /\ r.op = op /\ r.at = "roster" /\ r.id = id /\ r.name = name /\ r.saved = FALSE
      /\ r.todo = {}
  BY IdlePlaced, IdleFields DEF Request
<1>4. /\ req' = [req EXCEPT ![t] = r] /\ trail' = trail /\ roster' = roster
      /\ UNCHANGED <<setting, warehouse, warehouseUp, mongoUp, overlay>>
  BY DEF Arrive, Advance
<1> HIDE DEF r
<1>5. op \in {"browse", "create", "edit", "open", "archive"}
  OBVIOUS
<1>6. Placed(r)
  BY <1>1, <1>3, <1>5 DEF Placed, StagesOf, Reading, OnProject
<1>7. Seen(r) /\ BulkHolds(r)
  BY <1>3, <1>5 DEF Seen, BulkHolds
<1>8. RosterWhole' /\ trail \in [Ids -> Doc]
  BY <1>4, RosterKept DEF IInv, TypeOK
<1>9. QED
  BY <1>2, <1>4, <1>6, <1>7, <1>8, QuietStep

LEMMA ArriveBulkStep ==
  ASSUME IInv, NEW t \in setting.threads, NEW ids \in SUBSET warehouse, ArriveBulk(t, ids)
  PROVE  IInv'
<1>1. PICK id \in ids :
        Advance(t, [NoRequest EXCEPT !.op = "bulk", !.at = "write", !.id = id,
                                     !.chosen = ids, !.todo = ids \ {id}])
  BY DEF ArriveBulk
<1> DEFINE r == [NoRequest EXCEPT !.op = "bulk", !.at = "write", !.id = id,
                                  !.chosen = ids, !.todo = ids \ {id}]
<1>2. ids \subseteq Ids
  BY DEF IInv, TypeOK
<1>3. r \in Request
  <2>1. id \in Ids /\ ids \ {id} \in SUBSET Ids /\ "bulk" \in Op /\ "write" \in Stage
    BY <1>2 DEF Op, Stage
  <2>2. QED
    BY <1>2, <2>1, IdlePlaced DEF Request
<1>4. /\ r.op = "bulk" /\ r.at = "write" /\ r.id = id /\ r.chosen = ids
      /\ r.todo = ids \ {id} /\ r.saved = FALSE
  BY IdlePlaced, IdleFields DEF Request
<1>5. /\ req' = [req EXCEPT ![t] = r] /\ trail' = trail /\ roster' = roster
      /\ UNCHANGED <<setting, warehouse, warehouseUp, mongoUp, overlay>>
  BY <1>1 DEF ArriveBulk, Advance
<1> HIDE DEF r
<1>6. Placed(r)
  BY <1>2, <1>4 DEF Placed, StagesOf, OnProject, Reading
<1>7. Seen(r)
  BY <1>4 DEF Seen
<1>8. BulkHolds(r)
  BY <1>4 DEF BulkHolds, Handled
<1>9. RosterWhole' /\ trail \in [Ids -> Doc]
  BY <1>5, RosterKept DEF IInv, TypeOK
<1>10. QED
  BY <1>3, <1>5, <1>6, <1>7, <1>8, <1>9, QuietStep

(* The steps of a handler that end it, or go on without writing. *)
LEMMA HandlerStep ==
  ASSUME IInv, NEW t \in setting.threads,
         Browse(t) \/ RequireProject(t) \/ WriteFailed(t) \/ WorkerDies(t)
  PROVE  IInv'
<1>1. /\ t \in Threads /\ req[t] \in Request /\ Placed(req[t]) /\ Seen(req[t])
      /\ trail \in [Ids -> Doc]
  BY SettingParts DEF IInv, TypeOK
<1>2. /\ UNCHANGED <<setting, warehouse, warehouseUp, mongoUp, overlay, roster>>
      /\ trail' = trail
  BY DEF Browse, RequireProject, WriteFailed, WorkerDies
<1>3. RosterWhole'
  BY <1>2, RosterKept
<1>4. CASE Finish(t)
  BY <1>1, <1>2, <1>3, <1>4, FinishStep
<1>5. CASE RequireProject(t) /\ Move(t, "write") /\ req[t].id \in req[t].rows
  <2> DEFINE r == [req[t] EXCEPT !.at = "write"]
  <2>1. /\ r \in Request /\ r.at = "write" /\ r.op = req[t].op /\ r.id = req[t].id
        /\ r.name = req[t].name /\ r.rows = req[t].rows /\ r.chosen = req[t].chosen
        /\ r.todo = req[t].todo /\ r.saved = req[t].saved
    BY <1>1, Moved DEF Stage
  <2>2. /\ req' = [req EXCEPT ![t] = r] /\ req[t].at = "have" /\ ~req[t].saved
        /\ req[t].op \in OnProject
    BY <1>5 DEF RequireProject, Move, Advance
  <2> HIDE DEF r
  <2>3. Placed(r)
    BY <1>1, <2>1, <2>2 DEF Placed, StagesOf, Reading, OnProject
  <2>4. Seen(r) /\ BulkHolds(r)
    BY <1>1, <1>5, <2>1, <2>2 DEF Seen, KnownRows, BulkHolds, OnProject
  <2>5. QED
    BY <1>1, <1>2, <1>3, <2>1, <2>2, <2>3, <2>4, QuietStep
<1>6. QED
  BY <1>4, <1>5 DEF Browse, RequireProject, WriteFailed, WorkerDies

LEMMA TouchStep ==
  ASSUME IInv, NEW t \in setting.threads, Touch(t)
  PROVE  IInv' /\ (~setting.grows => \A j \in Ids : Archived(j) => Archived(j)')
<1>1. /\ t \in Threads /\ req[t] \in Request /\ Placed(req[t]) /\ trail \in [Ids -> Doc]
  BY SettingParts DEF IInv, TypeOK
<1>2. req[t].id \in Ids /\ req' = [req EXCEPT ![t] = NoRequest]
  BY <1>1 DEF Touch, Placed, OnProject, Finish, Advance
<1>3. CASE mongoUp
  <2>1. BulkHolds(NoRequest)'
    BY IdleFields DEF BulkHolds
  <2>2. QED
    BY <1>2, <1>3, <2>1, IdlePlaced, SaveStep DEF Touch
<1>4. CASE ~mongoUp
  <2>1. UNCHANGED <<setting, warehouse, warehouseUp, mongoUp, overlay, roster>> /\ trail' = trail
    BY <1>4 DEF Touch
  <2>2. QED
    BY <1>1, <2>1, FinishStep, RosterKept DEF Touch, Archived, Patch
<1>5. QED
  BY <1>3, <1>4

LEMMA SaveEditStep ==
  ASSUME IInv, NEW t \in setting.threads, SaveEdit(t)
  PROVE  IInv' /\ (~setting.grows => \A j \in Ids : Archived(j) => Archived(j)')
<1>1. t \in Threads /\ req[t] \in Request /\ Placed(req[t]) /\ Seen(req[t])
  BY SettingParts DEF IInv, TypeOK
<1>2. PICK q \in Request : q = req[t]
  BY <1>1
<1> DEFINE r == [q EXCEPT !.at = "roster", !.saved = TRUE]
<1>3. r \in Request
  BY DEF Request, Stage
<1>4. /\ r.at = "roster" /\ r.saved = TRUE /\ r.op = q.op /\ r.id = q.id
      /\ r.name = q.name /\ r.chosen = q.chosen /\ r.todo = q.todo
  BY DEF Request
<1>5. /\ req' = [req EXCEPT ![t] = r] /\ q.op = "edit" /\ q.at = "write"
      /\ Upsert(q.id, q.name, "unset")
      /\ UNCHANGED <<setting, warehouse, warehouseUp, mongoUp, roster, trail>>
  BY <1>2 DEF SaveEdit, Advance
<1> HIDE DEF r
<1>6. q.id \in Ids /\ q.name \in Names
  BY <1>1, <1>2, <1>5 DEF Placed, OnProject
<1>7. Placed(r)
  BY <1>1, <1>2, <1>4, <1>5, <1>6 DEF Placed, StagesOf, Reading, OnProject
<1>8. Seen(r) /\ BulkHolds(r)'
  BY <1>4, <1>5 DEF Seen, BulkHolds
<1>9. QED
  BY <1>3, <1>5, <1>6, <1>7, <1>8, SaveStep

(* services.py:34-57.  The id of a creation is above the whole warehouse, unless that
   has grown since the roster was read. *)
LEMMA SaveCreateStep ==
  ASSUME IInv, NEW t \in setting.threads, SaveCreate(t)
  PROVE  IInv' /\ (~setting.grows => \A j \in Ids : Archived(j) => Archived(j)')
<1>1. t \in Threads /\ req[t] \in Request /\ Placed(req[t]) /\ Seen(req[t])
  BY SettingParts DEF IInv, TypeOK
<1>2. PICK q \in Request : q = req[t]
  BY <1>1
<1>3. NextId(q.rows) \in Ids /\ NextId(q.rows) \notin q.rows
  BY <1>2, NextIdIsNew, SettingParts DEF SaveCreate, IInv, Request
<1>4. PICK new \in Ids : new = NextId(q.rows)
  BY <1>3
<1> DEFINE r == [q EXCEPT !.at = "reread", !.id = new]
<1>5. r \in Request
  BY DEF Request, Stage
<1>6. /\ r.at = "reread" /\ r.id = new /\ r.op = q.op /\ r.name = q.name
      /\ r.chosen = q.chosen /\ r.todo = q.todo /\ r.saved = q.saved
  BY DEF Request
<1>7. /\ q.op = "create" /\ q.at = "have" /\ Upsert(new, q.name, "active")
      /\ req' = [req EXCEPT ![t] = r]
      /\ UNCHANGED <<setting, warehouse, warehouseUp, mongoUp, roster, trail>>
  BY <1>2, <1>4 DEF SaveCreate, Advance
<1> HIDE DEF r
<1>8. ~setting.grows => new \notin warehouse
  BY <1>1, <1>2, <1>3, <1>4, <1>7 DEF Seen, KnownRows
<1>9. Placed(r)
  BY <1>1, <1>2, <1>6, <1>7 DEF Placed, StagesOf, Reading, OnProject
<1>10. Seen(r) /\ BulkHolds(r)'
  BY <1>6, <1>7 DEF Seen, BulkHolds
<1>11. q.name \in Names
  BY <1>1, <1>2, <1>7 DEF Placed, Reading
<1>12. QED
  BY <1>5, <1>7, <1>8, <1>9, <1>10, <1>11, SaveStep

LEMMA SaveArchiveStep ==
  ASSUME IInv, NEW t \in setting.threads, SaveArchive(t)
  PROVE  IInv' /\ (~setting.grows => \A j \in Ids : Archived(j) => Archived(j)')
<1>1. /\ t \in Threads /\ req[t] \in Request /\ Placed(req[t]) /\ Seen(req[t])
      /\ BulkHolds(req[t]) /\ TypeOK
  BY SettingParts DEF IInv, TypeOK
<1>2. PICK q \in Request : q = req[t]
  BY <1>1
<1> DEFINE r == [q EXCEPT !.at = "invalidate"]
<1>3. /\ r \in Request /\ r.at = "invalidate" /\ r.op = q.op /\ r.id = q.id
      /\ r.name = q.name /\ r.rows = q.rows /\ r.chosen = q.chosen
      /\ r.todo = q.todo /\ r.saved = q.saved
  BY Moved DEF Stage
<1>4. /\ req' = [req EXCEPT ![t] = r] /\ q.op \in {"archive", "bulk"}
      /\ q.at = "write" /\ Upsert(q.id, NoName, "archived")
      /\ UNCHANGED <<setting, warehouse, warehouseUp, mongoUp, roster, trail>>
  BY <1>2 DEF SaveArchive, Move, Advance
<1>5. PICK n \in Request : n = r
  BY <1>3
<1> HIDE DEF r
<1>6. Placed(n)
  BY <1>1, <1>2, <1>3, <1>4, <1>5 DEF Placed, StagesOf, OnProject, Reading
<1>7. Seen(n) /\ q.id \in warehouse /\ q.id \in Ids
  BY <1>1, <1>2, <1>3, <1>4, <1>5 DEF Seen, Placed, OnProject
<1>8. Patch(q.id)'.status = "archived" /\ \A j \in Ids \ {q.id} : Patch(j)' = Patch(j)
  BY <1>1, <1>4, <1>7, UpsertEffect
<1>9. BulkHolds(n)'
  <2> SUFFICES ASSUME ~setting.grows \/ Serial, n.op = "bulk", NEW j \in Handled(n)
               PROVE  Archived(j)'
    BY <1>4 DEF BulkHolds, Handled, Serial
  <2>1. j \in Ids /\ (j = q.id \/ j \in Handled(q))
    BY <1>3, <1>4, <1>5 DEF Handled, Request
  <2>2. QED
    BY <1>1, <1>2, <1>3, <1>5, <1>8, <2>1 DEF BulkHolds, Archived
<1>10. QED
  BY <1>3, <1>4, <1>5, <1>6, <1>7, <1>9, SaveStep

(* The name goes to the log as the overlay has it, or as the form had it. *)
LEMMA RereadStep ==
  ASSUME IInv, NEW t \in setting.threads, RereadCreated(t) \/ RereadEdited(t)
  PROVE  IInv'
<1>1. /\ t \in Threads /\ req[t] \in Request /\ Placed(req[t]) /\ trail \in [Ids -> Doc]
      /\ TypeOK
  BY SettingParts DEF IInv, TypeOK
<1>2. /\ req[t].at = "reread" \/ (req[t].op = "edit" /\ req[t].saved)
      /\ UNCHANGED <<setting, warehouse, warehouseUp, mongoUp, overlay, roster, trail>>
  BY DEF RereadCreated, RereadEdited
<1>3. req[t].id \in Ids /\ req[t].op \in {"create", "edit"}
  BY <1>1, <1>2 DEF Placed, OnProject, StagesOf, Reading, Op, Request
<1>4. Patch(req[t].id).name \in Names \cup {NoName}
  BY <1>1, <1>3, PatchIsDoc DEF Doc
<1>5. PICK name \in Names \cup {NoName} :
        Advance(t, [req[t] EXCEPT !.at = "invalidate", !.name = name])
  <2>1. req[t].name \in Names \cup {NoName}
    BY <1>1 DEF Request
  <2>2. CASE RereadCreated(t)
    BY <1>4, <2>2 DEF RereadCreated
  <2>3. CASE RereadEdited(t)
    BY <1>4, <2>1, <2>3 DEF RereadEdited
  <2>4. QED
    BY <2>2, <2>3
<1> DEFINE r == [req[t] EXCEPT !.at = "invalidate", !.name = name]
<1>6. r \in Request
  BY <1>1 DEF Request, Stage
<1>7. /\ r.at = "invalidate" /\ r.op = req[t].op /\ r.id = req[t].id /\ r.name = name
      /\ r.chosen = req[t].chosen /\ r.todo = req[t].todo /\ r.saved = req[t].saved
  BY <1>1 DEF Request
<1>8. req' = [req EXCEPT ![t] = r]
  BY <1>5 DEF Advance
<1> HIDE DEF r
<1>9. Placed(r)
  BY <1>1, <1>2, <1>3, <1>7 DEF Placed, StagesOf, Reading, OnProject
<1>10. Seen(r) /\ BulkHolds(r)
  BY <1>3, <1>7 DEF Seen, BulkHolds
<1>11. RosterWhole'
  BY <1>2, RosterKept
<1>12. QED
  BY <1>1, <1>2, <1>6, <1>8, <1>9, <1>10, <1>11, QuietStep

LEMMA InvalidateStep ==
  ASSUME IInv, NEW t \in setting.threads, Invalidate(t)
  PROVE  IInv'
<1>1. /\ t \in Threads /\ req[t] \in Request /\ Placed(req[t]) /\ Seen(req[t])
      /\ BulkHolds(req[t]) /\ trail \in [Ids -> Doc]
  BY SettingParts DEF IInv, TypeOK
<1> DEFINE r == [req[t] EXCEPT !.at = "record"]
<1>2. /\ r \in Request /\ r.at = "record" /\ r.op = req[t].op /\ r.id = req[t].id
      /\ r.name = req[t].name /\ r.rows = req[t].rows /\ r.chosen = req[t].chosen
      /\ r.todo = req[t].todo /\ r.saved = req[t].saved
  BY <1>1, Moved DEF Stage
<1>3. /\ req' = [req EXCEPT ![t] = r] /\ req[t].at = "invalidate" /\ roster' = NoRoster
      /\ UNCHANGED <<setting, warehouse, warehouseUp, mongoUp, overlay, trail>>
  BY DEF Invalidate, Move, Advance
<1> HIDE DEF r
<1>4. req[t].op \in {"create", "edit", "archive", "bulk"}
  BY <1>1, <1>3, IdleFields DEF Placed, StagesOf, Reading, Op, OnProject, Request
<1>5. Placed(r)
  BY <1>1, <1>2, <1>3, <1>4 DEF Placed, StagesOf, Reading, OnProject
<1>6. Seen(r) /\ BulkHolds(r)
  BY <1>1, <1>2, <1>3 DEF Seen, BulkHolds, Handled
<1>7. RosterWhole'
  BY <1>3, RosterKept
<1>8. QED
  BY <1>1, <1>2, <1>3, <1>5, <1>6, <1>7, QuietStep

LEMMA ReplayedIsDoc ==
  ASSUME NEW entry \in Doc, NEW r \in Request
  PROVE  /\ Replayed(entry, r) \in Doc
         /\ Replayed(entry, r).name = IF r.op \in {"create", "edit"} THEN r.name ELSE entry.name
         /\ Replayed(entry, r).status = CASE r.op = "create" -> "active"
                                          [] r.op = "edit" -> entry.status
                                          [] OTHER -> "archived"
<1>1. r.name \in Names \cup {NoName}
  BY DEF Request
<1>2. CASE r.op = "create"
  BY <1>1, <1>2 DEF Replayed, Doc
<1>3. CASE r.op = "edit"
  BY <1>1, <1>3 DEF Replayed, Doc
<1>4. CASE r.op \notin {"create", "edit"}
  BY <1>4 DEF Replayed, Doc
<1>5. QED
  BY <1>2, <1>3, <1>4

LEMMA RecordStep ==
  ASSUME IInv, NEW t \in setting.threads, Record(t)
  PROVE  IInv'
<1>1. /\ t \in Threads /\ req[t] \in Request /\ Placed(req[t]) /\ Seen(req[t])
      /\ BulkHolds(req[t]) /\ trail \in [Ids -> Doc] /\ req[t].at = "record"
  BY SettingParts DEF IInv, TypeOK, Record
<1>2. req[t].id \in Ids
  BY <1>1 DEF Placed
<1>3. trail' \in [Ids -> Doc]
  <2>1. Replayed(trail[req[t].id], req[t]) \in Doc
    BY <1>1, <1>2, ReplayedIsDoc
  <2>2. QED
    BY <1>1, <2>1 DEF Record
<1>4. UNCHANGED <<setting, warehouse, warehouseUp, mongoUp, overlay, roster>> /\ NextChosen(t)
  BY DEF Record
<1>5. RosterWhole'
  BY <1>4, RosterKept
<1>6. CASE req[t].todo = {}
  BY <1>3, <1>4, <1>5, <1>6, FinishStep DEF NextChosen
<1>7. CASE req[t].todo # {}
  <2>1. PICK id \in req[t].todo :
          Advance(t, [req[t] EXCEPT !.at = "write", !.id = id, !.todo = @ \ {id}])
    BY <1>4, <1>7 DEF NextChosen
  <2> DEFINE r == [req[t] EXCEPT !.at = "write", !.id = id, !.todo = req[t].todo \ {id}]
  <2>2. req[t].op = "bulk" /\ req[t].todo \subseteq Ids /\ req[t].chosen \subseteq Ids
    BY <1>1, <1>7 DEF Placed, Request
  <2>3. r \in Request
    BY <1>1, <2>2 DEF Request, Stage
  <2>4. /\ r.at = "write" /\ r.id = id /\ r.op = req[t].op /\ r.chosen = req[t].chosen
        /\ r.todo = req[t].todo \ {id} /\ r.saved = req[t].saved
    BY <1>1 DEF Request
  <2>5. req' = [req EXCEPT ![t] = r]
    BY <2>1 DEF Advance
  <2> HIDE DEF r
  <2>6. Placed(r)
    BY <1>1, <2>2, <2>4 DEF Placed, StagesOf, OnProject, Reading
  <2>7. Seen(r)
    BY <1>1, <2>2, <2>4 DEF Seen, Placed
  <2>8. Handled(r) \subseteq Handled(req[t])
    BY <1>1, <2>4 DEF Handled
  <2>9. BulkHolds(r)
    BY <1>1, <2>4, <2>8 DEF BulkHolds
  <2>10. QED
    BY <1>3, <1>4, <1>5, <2>3, <2>5, <2>6, <2>7, <2>9, QuietStep
<1>8. QED
  BY <1>6, <1>7

(* Around the program. *)
LEMMA AroundStep ==
  ASSUME IInv,
         \/ \E id \in setting.ids : Import(id)
         \/ Expire \/ WarehouseUpDown \/ MongoUpDown \/ UNCHANGED vars
  PROVE  IInv'
<1>1. /\ UNCHANGED <<setting, overlay, trail, req>> /\ warehouse \subseteq warehouse'
      /\ roster' \in {roster, NoRoster}
      /\ warehouse' = warehouse \/ setting.grows
      /\ warehouse' \subseteq Ids /\ warehouseUp' \in BOOLEAN /\ mongoUp' \in BOOLEAN
  BY SettingParts DEF IInv, TypeOK, Import, Expire, WarehouseUpDown, MongoUpDown, vars
<1>2. TypeOK'
  BY <1>1 DEF IInv, TypeOK
<1>3. \A rows : KnownRows(rows) => KnownRows(rows)'
  BY <1>1 DEF KnownRows
<1>4. RosterWhole'
  BY <1>1, <1>3 DEF IInv, RosterWhole
<1>5. OnlyKnownArchived'
  BY <1>1 DEF IInv, OnlyKnownArchived, Archived, Patch
<1>6. \A t \in Threads : Seen(req[t])'
  BY <1>1 DEF IInv, Seen, KnownRows
<1>7. \A t \in Threads : BulkHolds(req[t])'
  BY <1>1 DEF IInv, BulkHolds, Handled, Archived, Patch, Serial
<1>8. QED
  BY <1>2, <1>4, <1>5, <1>6, <1>7 DEF IInv

LEMMA InitIInv == Init => IInv
<1> SUFFICES ASSUME Init  PROVE IInv
  OBVIOUS
<1>1. setting \in Setting
  BY SettingsOK DEF Init
<1>2. warehouse \subseteq Ids
  BY <1>1 DEF Init, Setting
<1>3. Blank \in Doc
  BY DEF Blank, Doc
<1>4. TypeOK
  BY <1>2, <1>3, IdlePlaced DEF Init, TypeOK
<1>5. \A id \in Ids : ~Archived(id)
  BY DEF Init, Archived, Patch, Blank
<1>6. QED
  BY <1>4, <1>5, IdlePlaced, IdleFields
     DEF Init, IInv, RosterWhole, OnlyKnownArchived, BulkHolds

LEMMA IInvStep ==
  ASSUME IInv, [Next]_vars
  PROVE  IInv'
<1>1. ASSUME NEW t \in setting.threads, Serve(t)  PROVE IInv'
  <2>1. CASE \/ "browse" \in Handlers /\ Arrive(t, "browse", NoId, NoName)
             \/ \E n \in setting.names : Arrive(t, "create", NoId, n)
             \/ \E id \in setting.ids, n \in setting.names : Arrive(t, "edit", id, n)
             \/ \E op \in {"open", "archive"}, id \in setting.ids : Arrive(t, op, id, NoName)
    BY <2>1, ArriveStep
  <2>2. CASE \E ids \in SUBSET warehouse : ArriveBulk(t, ids)
    BY <2>2, ArriveBulkStep
  <2>3. CASE RosterHit(t) \/ QueryWarehouse(t) \/ QueryFailed(t) \/ StoreRoster(t)
    BY <2>3, RosterStep
  <2>4. CASE Browse(t) \/ RequireProject(t) \/ WriteFailed(t) \/ WorkerDies(t)
    BY <2>4, HandlerStep
  <2>5. CASE Touch(t) \/ SaveCreate(t) \/ SaveEdit(t) \/ SaveArchive(t)
    BY <2>5, TouchStep, SaveCreateStep, SaveEditStep, SaveArchiveStep
  <2>6. CASE RereadCreated(t) \/ RereadEdited(t) \/ Invalidate(t) \/ Record(t)
    BY <2>6, RereadStep, InvalidateStep, RecordStep
  <2>7. QED
    BY <1>1, <2>1, <2>2, <2>3, <2>4, <2>5, <2>6 DEF Serve
<1>2. QED
  BY <1>1, AroundStep DEF Next

(* What requests know of the warehouse, and what bulk actions have archived. *)
THEOREM Invariant == Spec => []IInv
BY InitIInv, IInvStep, PTL DEF Spec

(* overlay.py:55-73.  While the warehouse gains nothing, no edit, visit or creation
   brings an archived project back, however requests overlap and whatever fails. *)
THEOREM ArchivedForGood == Spec => ArchivedStays
<1>1. ASSUME IInv, [Next]_vars
      PROVE  [~setting.grows => \A id \in Ids : Archived(id) => Archived(id)']_overlay
  <2>1. CASE UNCHANGED overlay
    BY <2>1
  <2>2. ASSUME NEW t \in setting.threads,
               Touch(t) \/ SaveCreate(t) \/ SaveEdit(t) \/ SaveArchive(t)
        PROVE  ~setting.grows => \A id \in Ids : Archived(id) => Archived(id)'
    BY <1>1, <2>2, TouchStep, SaveCreateStep, SaveEditStep, SaveArchiveStep
  <2>3. ASSUME overlay' # overlay
        PROVE  \E t \in setting.threads :
                 Touch(t) \/ SaveCreate(t) \/ SaveEdit(t) \/ SaveArchive(t)
    BY <1>1, <2>3 DEF Next, Serve, vars, Arrive, ArriveBulk, RosterHit, QueryWarehouse,
       QueryFailed, StoreRoster, Browse, RequireProject, WriteFailed, WorkerDies, RereadCreated,
       RereadEdited, Invalidate, Record, Import, Expire, WarehouseUpDown, MongoUpDown
  <2>4. QED
    BY <2>1, <2>2, <2>3
<1>2. QED
  BY <1>1, Invariant, PTL DEF Spec, ArchivedStays

(* views.py:202-222.  A bulk action that reports success has archived every project
   that was chosen, whatever other requests and failures happened meanwhile. *)
THEOREM BulkArchives == Spec => BulkArchivesAll
<1>1. ASSUME IInv, [Next]_vars
      PROVE  [~setting.grows \/ Serial => \A t \in Threads :
               Record(t) /\ req[t].op = "bulk" /\ req'[t] = NoRequest
                 => \A id \in req[t].chosen : Archived(id)]_vars
  <2> SUFFICES ASSUME ~setting.grows \/ Serial, NEW t \in Threads, Record(t),
                      req[t].op = "bulk", req'[t] = NoRequest, NEW id \in req[t].chosen
               PROVE  Archived(id)
    OBVIOUS
  <2>1. req[t].at = "record" /\ req \in [Threads -> Request] /\ req[t] \in Request
    BY <1>1 DEF Record, IInv, TypeOK
  <2>2. req[t].todo = {}
    <3>1. SUFFICES ASSUME req[t].todo # {}  PROVE FALSE
      OBVIOUS
    <3>2. PICK i \in req[t].todo :
            Advance(t, [req[t] EXCEPT !.at = "write", !.id = i, !.todo = @ \ {i}])
      BY <3>1 DEF Record, NextChosen
    <3>3. req'[t].at = "write"
      BY <2>1, <3>2 DEF Advance, Request
    <3>4. QED
      BY <3>3, IdleFields
  <2>3. id \in Handled(req[t])
    BY <2>1, <2>2 DEF Handled
  <2>4. QED
    BY <1>1, <2>3 DEF IInv, BulkHolds
<1>2. QED
  BY <1>1, Invariant, PTL DEF Spec, BulkArchivesAll

-----------------------------------------------------------------------------
(* One request at a time, and nothing fails. *)

LEMMA SameDoc ==
  ASSUME NEW d \in Doc, NEW e \in Doc, d.name = e.name, d.status = e.status
  PROVE  d = e
BY DEF Doc

(* A step that writes neither the overlay nor the log, and leaves alone what the request
   has still to record. *)
LEMMA ExplainedKept ==
  ASSUME IInv, NEW t \in Threads, Explained(t), UNCHANGED <<overlay, trail>>,
         NEW r, req'[t] = r,
         \/ ~Unrecorded(req[t]) /\ ~Unrecorded(r)
         \/ /\ Unrecorded(req[t]) /\ Unrecorded(r)
            /\ req[t].at # "reread" /\ r.at # "reread"
            /\ r.op = req[t].op /\ r.id = req[t].id /\ r.name = req[t].name
  PROVE  Explained(t)'
<1>1. \A id : Patch(id)' = Patch(id)
  BY DEF Patch
<1>2. CASE ~Unrecorded(req[t]) /\ ~Unrecorded(r)
  BY <1>1, <1>2 DEF Explained, Unrecorded
<1>3. CASE /\ Unrecorded(req[t]) /\ Unrecorded(r)
           /\ req[t].at # "reread" /\ r.at # "reread"
           /\ r.op = req[t].op /\ r.id = req[t].id /\ r.name = req[t].name
  <2>1. Replayed(trail[r.id], r) = Patch(r.id)
    BY <1>3 DEF Explained, Replayed
  <2>2. \A id \in Ids : id = r.id \/ trail[id] = Patch(id)
    BY <1>3 DEF Explained
  <2>3. Unrecorded(req[t])'
    BY <1>3 DEF Unrecorded
  <2>4. Replayed(trail[req[t].id], req[t])' = Patch(req[t].id)'
    BY <1>1, <2>1 DEF Replayed, Patch
  <2>5. (\A id \in Ids : id = req[t].id \/ trail[id] = Patch(id))'
    BY <1>1, <2>2
  <2>6. (req[t].at # "reread")'
    BY <1>3
  <2>7. QED
    BY <2>3, <2>4, <2>5, <2>6 DEF Explained
<1>4. QED
  BY <1>2, <1>3

(* The steps that read. *)
LEMMA ReadingExplained ==
  ASSUME IInv, NEW t \in setting.threads, Explained(t), mongoUp, warehouseUp,
         \/ \E op, id, name : Arrive(t, op, id, name)
         \/ \E ids : ArriveBulk(t, ids)
         \/ RosterHit(t) \/ QueryWarehouse(t) \/ QueryFailed(t) \/ StoreRoster(t)
         \/ Browse(t) \/ RequireProject(t) \/ WriteFailed(t) \/ Invalidate(t)
  PROVE  Explained(t)'
<1>1. /\ t \in Threads /\ req[t] \in Request /\ Placed(req[t])
      /\ req \in [Threads -> Request]
  BY SettingParts DEF IInv, TypeOK
<1>2. UNCHANGED <<overlay, trail>>
  BY DEF Arrive, ArriveBulk, RosterHit, QueryWarehouse, QueryFailed, StoreRoster, Browse,
         RequireProject, WriteFailed, Invalidate
<1>3. ~Unrecorded(NoRequest)
  BY IdleFields DEF Unrecorded
<1>4. ASSUME NEW op, NEW id, NEW name, Arrive(t, op, id, name)  PROVE Explained(t)'
  <2> DEFINE r == [NoRequest EXCEPT !.op = op, !.at = "roster", !.id = id, !.name = name]
  <2>1. req'[t] = r /\ req[t] = NoRequest
    BY <1>1, <1>4 DEF Arrive, Advance
  <2>2. ~Unrecorded(r)
    BY IdleFields, IdlePlaced DEF Unrecorded, Request
  <2> HIDE DEF r
  <2>3. QED
    BY <1>1, <1>2, <1>3, <2>1, <2>2, ExplainedKept
<1>5. ASSUME NEW ids, ArriveBulk(t, ids)  PROVE Explained(t)'
  <2>1. PICK id : req' = [req EXCEPT ![t] =
                    [NoRequest EXCEPT !.op = "bulk", !.at = "write", !.id = id,
                                      !.chosen = ids, !.todo = ids \ {id}]]
    BY <1>5 DEF ArriveBulk, Advance
  <2> DEFINE r == [NoRequest EXCEPT !.op = "bulk", !.at = "write", !.id = id,
                                    !.chosen = ids, !.todo = ids \ {id}]
  <2>2. req'[t] = r /\ req[t] = NoRequest
    BY <1>1, <1>5, <2>1 DEF ArriveBulk
  <2>3. ~Unrecorded(r)
    BY IdleFields, IdlePlaced DEF Unrecorded, Request
  <2> HIDE DEF r
  <2>4. QED
    BY <1>1, <1>2, <1>3, <2>2, <2>3, ExplainedKept
<1>6. ASSUME NEW stage \in {"have", "fetched"}, NEW rows, req[t].at = "roster",
             Advance(t, [req[t] EXCEPT !.at = stage, !.rows = rows])
      PROVE  Explained(t)'
  <2> DEFINE r == [req[t] EXCEPT !.at = stage, !.rows = rows]
  <2>1. /\ req'[t] = r /\ r.at = stage /\ r.op = req[t].op /\ r.id = req[t].id
        /\ r.name = req[t].name /\ r.saved = req[t].saved
    BY <1>1, <1>6 DEF Advance, Request
  <2> HIDE DEF r
  <2>2. QED
    BY <1>1, <1>2, <1>6, <2>1, ExplainedKept DEF Unrecorded
<1>7. ASSUME NEW stage \in Stage \ {"reread"}, Move(t, stage), req[t].at # "reread",
             stage \in {"invalidate", "record"} <=> req[t].at \in {"invalidate", "record"}
      PROVE  Explained(t)'
  <2> DEFINE r == [req[t] EXCEPT !.at = stage]
  <2>1. /\ req'[t] = r /\ r.at = stage /\ r.op = req[t].op /\ r.id = req[t].id
        /\ r.name = req[t].name /\ r.saved = req[t].saved
    BY <1>1, <1>7 DEF Move, Advance, Request
  <2> HIDE DEF r
  <2>2. QED
    BY <1>1, <1>2, <1>7, <2>1, ExplainedKept DEF Unrecorded
<1>8. ASSUME Finish(t), ~Unrecorded(req[t])  PROVE Explained(t)'
  <2>1. req'[t] = NoRequest
    BY <1>1, <1>8 DEF Finish, Advance
  <2>2. QED
    BY <1>1, <1>2, <1>3, <1>8, <2>1, ExplainedKept
<1>9. CASE RosterHit(t) \/ QueryWarehouse(t)
  BY <1>6, <1>9 DEF RosterHit, QueryWarehouse
<1>10. CASE QueryFailed(t) \/ WriteFailed(t)
  BY <1>10 DEF QueryFailed, WriteFailed
<1>11. CASE StoreRoster(t) \/ Invalidate(t)
  BY <1>7, <1>11 DEF StoreRoster, Invalidate, Stage
<1>12. CASE Browse(t) \/ RequireProject(t)
  <2>1. ~Unrecorded(req[t]) /\ req[t].at = "have"
    BY <1>1, <1>12 DEF Browse, RequireProject, Unrecorded, Placed
  <2>2. Finish(t) \/ Move(t, "write")
    BY <1>12 DEF Browse, RequireProject
  <2>3. QED
    BY <1>7, <1>8, <2>1, <2>2 DEF Stage
<1>13. QED
  BY <1>4, <1>5, <1>9, <1>10, <1>11, <1>12

(* The steps that write, and read again what they wrote. *)
LEMMA SavingExplained ==
  ASSUME IInv, NEW t \in setting.threads, Explained(t), mongoUp,
         \/ Touch(t) \/ SaveCreate(t) \/ SaveEdit(t) \/ SaveArchive(t)
         \/ RereadCreated(t) \/ RereadEdited(t)
  PROVE  Explained(t)'
<1>1. /\ t \in Threads /\ req[t] \in Request /\ Placed(req[t])
      /\ req \in [Threads -> Request] /\ TypeOK
      /\ trail \in [Ids -> Doc] /\ UNCHANGED trail
  BY SettingParts
     DEF IInv, TypeOK, Touch, SaveCreate, SaveEdit, SaveArchive, RereadCreated, RereadEdited
<1>2. PICK q \in Request : q = req[t]
  BY <1>1
<1>3. ~Unrecorded(q) => \A id \in Ids : trail[id] = Patch(id)
  BY <1>2 DEF Explained
<1>4. CASE Touch(t)
  <2>1. q.id \in Ids /\ ~Unrecorded(q) /\ req'[t] = NoRequest /\ Upsert(q.id, NoName, "unset")
    BY <1>1, <1>2, <1>4 DEF Touch, Placed, OnProject, Unrecorded, Finish, Advance
  <2>2. \A id \in Ids : Patch(id)' = Patch(id)
    BY <1>1, <2>1, UpsertEffect, PatchIsDoc, SameDoc
  <2>3. ~Unrecorded(req[t])'
    BY <2>1, IdleFields DEF Unrecorded
  <2>4. QED
    BY <1>1, <1>3, <2>1, <2>2, <2>3 DEF Explained
<1>5. CASE SaveCreate(t)
  <2>1. NextId(q.rows) \in Ids
    BY <1>1, <1>2, <1>5, SettingParts DEF SaveCreate
  <2>2. PICK id \in Ids : id = NextId(q.rows)
    BY <2>1
  <2>3. /\ ~Unrecorded(q) /\ Upsert(id, q.name, "active") /\ q.name \in Names \cup {NoName}
        /\ req'[t].at = "reread" /\ req'[t].id = id
    BY <1>1, <1>2, <1>5, <2>2 DEF SaveCreate, Placed, Unrecorded, Advance, Request
  <2>4. Patch(id)'.status = "active" /\ \A j \in Ids \ {id} : Patch(j)' = Patch(j)
    BY <1>1, <2>3, UpsertEffect
  <2>5. QED
    BY <1>1, <1>3, <2>3, <2>4 DEF Explained, Unrecorded
<1>6. CASE SaveEdit(t)
  <2>1. /\ q.op = "edit" /\ q.at = "write" /\ q.id \in Ids /\ q.name \in Names
        /\ ~Unrecorded(q) /\ Upsert(q.id, q.name, "unset")
    BY <1>1, <1>2, <1>6 DEF SaveEdit, Placed, OnProject, Unrecorded
  <2>2. PICK r \in Request :
          /\ req'[t] = r /\ r.op = "edit" /\ r.at = "roster"
          /\ r.saved /\ r.id = q.id /\ r.name = q.name
    <3> DEFINE n == [q EXCEPT !.at = "roster", !.saved = TRUE]
    <3>1. n \in Request /\ req'[t] = n
      BY <1>1, <1>2, <1>6 DEF SaveEdit, Advance, Request, Stage
    <3>2. n.op = q.op /\ n.at = "roster" /\ n.saved /\ n.id = q.id /\ n.name = q.name
      BY DEF Request
    <3> HIDE DEF n
    <3>3. QED
      BY <2>1, <3>1, <3>2
  <2>3. /\ Patch(q.id)' \in Doc /\ Patch(q.id)'.name = q.name
        /\ Patch(q.id)'.status = trail[q.id].status
        /\ \A j \in Ids \ {q.id} : Patch(j)' = Patch(j)
    BY <1>1, <1>3, <2>1, UpsertEffect, NoNameIsNoName
  <2>4. Replayed(trail[q.id], r) = Patch(q.id)'
    <3>1. trail[q.id] \in Doc
      BY <1>1, <2>1
    <3>2. /\ Replayed(trail[q.id], r) \in Doc
          /\ Replayed(trail[q.id], r).name = q.name
          /\ Replayed(trail[q.id], r).status = trail[q.id].status
      BY <3>1, <2>2, ReplayedIsDoc
    <3>3. QED
      BY <3>2, <2>3, SameDoc
  <2>5. QED
    BY <1>1, <1>3, <2>1, <2>2, <2>3, <2>4 DEF Explained, Unrecorded
<1>7. CASE SaveArchive(t)
  <2>1. /\ q.op \in {"archive", "bulk"} /\ q.at = "write" /\ q.id \in Ids
        /\ ~Unrecorded(q) /\ Upsert(q.id, NoName, "archived")
    BY <1>1, <1>2, <1>7 DEF SaveArchive, Placed, OnProject, Unrecorded
  <2>2. PICK r \in Request : req'[t] = r /\ r.op = q.op /\ r.at = "invalidate" /\ r.id = q.id
    <3> DEFINE n == [q EXCEPT !.at = "invalidate"]
    <3>1. n \in Request /\ n.at = "invalidate" /\ n.op = q.op /\ n.id = q.id
      BY Moved DEF Stage
    <3>2. req'[t] = n
      BY <1>1, <1>2, <1>7 DEF SaveArchive, Move, Advance
    <3> HIDE DEF n
    <3>3. QED
      BY <3>1, <3>2
  <2>3. /\ Patch(q.id)' \in Doc /\ Patch(q.id)'.name = trail[q.id].name
        /\ Patch(q.id)'.status = "archived"
        /\ \A j \in Ids \ {q.id} : Patch(j)' = Patch(j)
    BY <1>1, <1>3, <2>1, UpsertEffect
  <2>4. Replayed(trail[q.id], r) = Patch(q.id)'
    <3>1. trail[q.id] \in Doc
      BY <1>1, <2>1
    <3>2. /\ Replayed(trail[q.id], r) \in Doc
          /\ Replayed(trail[q.id], r).name = trail[q.id].name
          /\ Replayed(trail[q.id], r).status = "archived"
      BY <3>1, <2>1, <2>2, ReplayedIsDoc
    <3>3. QED
      BY <3>2, <2>3, SameDoc
  <2>5. QED
    BY <1>1, <1>3, <2>1, <2>2, <2>3, <2>4 DEF Explained, Unrecorded
<1>8. ASSUME NEW name \in Names \cup {NoName}, UNCHANGED overlay, q.id \in Ids, Unrecorded(q),
             Advance(t, [q EXCEPT !.at = "invalidate", !.name = name]),
             ASSUME NEW r \in Request, r.op = q.op, r.name = name
             PROVE  Replayed(trail[q.id], r) = Patch(q.id)
      PROVE  Explained(t)'
  <2> DEFINE n == [q EXCEPT !.at = "invalidate", !.name = name]
  <2>1. n \in Request /\ req'[t] = n
    BY <1>1, <1>8 DEF Advance, Request, Stage
  <2>2. n.at = "invalidate" /\ n.op = q.op /\ n.id = q.id /\ n.name = name
    BY DEF Request
  <2> HIDE DEF n
  <2>3. Replayed(trail[q.id], n) = Patch(q.id)
    BY <1>8, <2>1, <2>2
  <2>4. \A id \in Ids : Patch(id)' = Patch(id) /\ (id = q.id \/ trail[id] = Patch(id))
    BY <1>2, <1>8 DEF Patch, Explained
  <2>5. QED
    BY <1>1, <1>8, <2>1, <2>2, <2>3, <2>4 DEF Explained, Unrecorded
<1>9. CASE RereadCreated(t)
  <2>1. /\ q.at = "reread" /\ q.op = "create" /\ q.id \in Ids /\ Unrecorded(q)
        /\ Patch(q.id).status = "active" /\ Patch(q.id) \in Doc
        /\ Advance(t, [q EXCEPT !.at = "invalidate", !.name = Patch(q.id).name])
        /\ UNCHANGED overlay
    BY <1>1, <1>2, <1>9, PatchIsDoc
       DEF RereadCreated, Placed, StagesOf, Reading, Op, OnProject, Request, Unrecorded, Explained
  <2>2. Patch(q.id).name \in Names \cup {NoName}
    BY <2>1 DEF Doc
  <2>3. ASSUME NEW r \in Request, r.op = q.op, r.name = Patch(q.id).name
        PROVE  Replayed(trail[q.id], r) = Patch(q.id)
    <3>1. trail[q.id] \in Doc
      BY <1>1, <2>1
    <3>2. /\ Replayed(trail[q.id], r) \in Doc
          /\ Replayed(trail[q.id], r).name = Patch(q.id).name
          /\ Replayed(trail[q.id], r).status = "active"
      BY <3>1, <2>1, <2>3, ReplayedIsDoc
    <3>3. QED
      BY <3>2, <2>1, SameDoc
  <2>4. QED
    BY <1>8, <2>1, <2>2, <2>3
<1>10. CASE RereadEdited(t)
  <2>1. /\ q.op = "edit" /\ q.at = "have" /\ q.saved /\ q.id \in Ids /\ Unrecorded(q)
        /\ Replayed(trail[q.id], q) = Patch(q.id) /\ UNCHANGED overlay
        /\ q.name \in Names
    BY <1>1, <1>2, <1>10 DEF RereadEdited, Placed, OnProject, Reading, Unrecorded, Explained
  <2>2. Patch(q.id).name = q.name
    BY <1>1, <2>1, ReplayedIsDoc
  <2>3. Advance(t, [q EXCEPT !.at = "invalidate", !.name = q.name])
    BY <1>2, <1>10, <2>2 DEF RereadEdited
  <2>4. ASSUME NEW r \in Request, r.op = q.op, r.name = q.name
        PROVE  Replayed(trail[q.id], r) = Patch(q.id)
    BY <2>1, <2>4 DEF Replayed
  <2>5. QED
    BY <1>8, <2>1, <2>3, <2>4
<1>11. QED
  BY <1>4, <1>5, <1>6, <1>7, <1>9, <1>10

LEMMA RecordExplained ==
  ASSUME IInv, NEW t \in setting.threads, Explained(t), mongoUp, Record(t)
  PROVE  Explained(t)'
<1>1. /\ t \in Threads /\ req[t] \in Request /\ Placed(req[t])
      /\ req \in [Threads -> Request] /\ trail \in [Ids -> Doc]
  BY SettingParts DEF IInv, TypeOK
<1>2. PICK q \in Request : q = req[t]
  BY <1>1
<1>3. /\ q.at = "record" /\ q.id \in Ids /\ UNCHANGED overlay
      /\ trail' = [trail EXCEPT ![q.id] = Replayed(trail[q.id], q)]
      /\ Replayed(trail[q.id], q) = Patch(q.id)
      /\ \A id \in Ids : id = q.id \/ trail[id] = Patch(id)
  BY <1>1, <1>2 DEF Record, Placed, Explained, Unrecorded
<1>4. \A id \in Ids : trail'[id] = Patch(id) /\ Patch(id)' = Patch(id)
  BY <1>1, <1>3 DEF Patch
<1>5. ~Unrecorded(req[t])'
  <2>1. CASE q.todo = {}
    <3>1. req'[t] = NoRequest
      BY <1>1, <1>2, <2>1 DEF Record, NextChosen, Finish, Advance
    <3>2. QED
      BY <3>1, IdleFields DEF Unrecorded
  <2>2. CASE q.todo # {}
    <3>1. PICK id \in q.todo : req'[t] = [q EXCEPT !.at = "write", !.id = id, !.todo = @ \ {id}]
      BY <1>1, <1>2, <2>2 DEF Record, NextChosen, Advance
    <3>2. req'[t].at = "write" /\ req'[t].saved = q.saved
      BY <3>1 DEF Request
    <3>3. ~q.saved
      BY <1>1, <1>2, <2>2 DEF Placed
    <3>4. QED
      BY <3>2, <3>3 DEF Unrecorded
  <2>3. QED
    BY <2>1, <2>2
<1>6. QED
  BY <1>4, <1>5 DEF Explained

LEMMA SerialStep ==
  ASSUME IInv, SerialInv, [Next]_vars
  PROVE  SerialInv'
<1> SUFFICES ASSUME Undisturbed'
             PROVE  mongoUp' /\ warehouseUp' /\ \A t \in setting'.threads : Explained(t)'
  BY DEF SerialInv
<1>1. setting' = setting
  BY DEF Next, Serve, vars, Arrive, ArriveBulk, RosterHit, QueryWarehouse,
     QueryFailed, StoreRoster, Browse, RequireProject, Touch, WriteFailed, SaveCreate, SaveEdit,
     SaveArchive, WorkerDies, RereadCreated, RereadEdited, Invalidate, Record, Import, Expire,
     WarehouseUpDown, MongoUpDown
<1>2. Undisturbed /\ mongoUp /\ warehouseUp
  BY <1>1 DEF Undisturbed, Serial, SerialInv
<1>3. PICK t \in Threads : setting.threads = {t}
  BY <1>2, OneThread DEF IInv, Undisturbed
<1>4. Explained(t)
  BY <1>2, <1>3 DEF SerialInv
<1>5. CASE Serve(t)
  <2>1. mongoUp' /\ warehouseUp'
    BY <1>2, <1>5 DEF Serve, Arrive, ArriveBulk, RosterHit, QueryWarehouse,
       QueryFailed, StoreRoster, Browse, RequireProject, Touch, WriteFailed, SaveCreate, SaveEdit,
       SaveArchive, WorkerDies, RereadCreated, RereadEdited, Invalidate, Record
  <2>2. ~WorkerDies(t)
    BY <1>2 DEF WorkerDies, Undisturbed
  <2>3. Explained(t)'
    <3>1. CASE \/ \E op, id, name : Arrive(t, op, id, name)
               \/ \E ids : ArriveBulk(t, ids)
               \/ RosterHit(t) \/ QueryWarehouse(t) \/ QueryFailed(t) \/ StoreRoster(t)
               \/ Browse(t) \/ RequireProject(t) \/ WriteFailed(t) \/ Invalidate(t)
      BY <1>2, <1>3, <1>4, <3>1, ReadingExplained
    <3>2. CASE \/ Touch(t) \/ SaveCreate(t) \/ SaveEdit(t) \/ SaveArchive(t)
               \/ RereadCreated(t) \/ RereadEdited(t)
      BY <1>2, <1>3, <1>4, <3>2, SavingExplained
    <3>3. CASE Record(t)
      BY <1>2, <1>3, <1>4, <3>3, RecordExplained
    <3>4. QED
      BY <1>5, <2>2, <3>1, <3>2, <3>3 DEF Serve
  <2>4. QED
    BY <1>1, <1>3, <2>1, <2>3
<1>6. CASE (\E id \in setting.ids : Import(id)) \/ Expire \/ UNCHANGED vars
  <2>1. UNCHANGED <<overlay, trail, req, mongoUp, warehouseUp>>
    BY <1>6 DEF Import, Expire, vars
  <2>2. Explained(t)'
    BY <1>4, <2>1 DEF Explained, Unrecorded, Patch, Replayed
  <2>3. QED
    BY <1>1, <1>2, <1>3, <2>1, <2>2
<1>7. ~WarehouseUpDown /\ ~MongoUpDown
  BY <1>2 DEF WarehouseUpDown, MongoUpDown, Undisturbed
<1>8. QED
  BY <1>3, <1>5, <1>6, <1>7 DEF Next

LEMMA InitSerial == Init => SerialInv
<1> SUFFICES ASSUME Init  PROVE SerialInv
  OBVIOUS
<1>1. TypeOK
  BY InitIInv DEF IInv
<1>2. ASSUME NEW t \in setting.threads  PROVE Explained(t)
  <2>1. req[t] = NoRequest
    BY <1>1, SettingParts DEF Init
  <2>2. ~Unrecorded(req[t])
    BY <2>1, IdleFields DEF Unrecorded
  <2>3. QED
    BY <2>2 DEF Init, Explained, Patch
<1>3. QED
  BY <1>2 DEF Init, SerialInv

(* services.py:1.  As long as one request follows the other and nothing fails, replaying
   the log gives the name and status of every project, also with imports. *)
THEOREM LogExplains == Spec => []TrailExplains
<1>1. IInv /\ SerialInv => TrailExplains
  <2> SUFFICES ASSUME IInv, SerialInv, Quiet, Undisturbed, NEW id \in Ids
               PROVE  trail[id] = Patch(id)
    BY DEF TrailExplains, Undisturbed
  <2>1. PICK t \in Threads : setting.threads = {t}
    BY OneThread DEF IInv, Undisturbed
  <2>2. Explained(t) /\ req[t] = NoRequest
    BY <2>1 DEF SerialInv, Quiet
  <2>3. QED
    BY <2>2, IdleFields DEF Explained, Unrecorded
<1>2. Init => IInv /\ SerialInv
  BY InitIInv, InitSerial
<1>3. IInv /\ SerialInv /\ [Next]_vars => (IInv /\ SerialInv)'
  BY IInvStep, SerialStep
<1>4. QED
  BY <1>1, <1>2, <1>3, PTL DEF Spec
=============================================================================
