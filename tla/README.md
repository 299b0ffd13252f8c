# RankVista in TLA+

RankVista is a Django dashboard over an Amazon ranking warehouse. The warehouse
is a MySQL database the application only reads; everything the application
itself writes (accounts, roles, departments, project overlays, the audit log)
goes to MongoDB, where it has no transactions: `transaction.atomic` opens none on
the backend used, so two statements of one request can always be separated by
another request or by a crash. gunicorn runs three worker processes of four
threads (`Dockerfile:48`); Redis, or a cache per process, sits in front of the
role table and the project roster. This directory models that system, checks it
with TLC and proves part of it with TLAPS.

## Inventory

| Component | State | Operations | What makes it hard |
|---|---|---|---|
| User administration and sessions (`accounts/models, services, forms, permissions, views, admin_views`) | accounts, sessions, audit log | sign in and out, create, edit, reset password, toggle, soft-delete, own profile, own password | the account is read, kept in memory and written back, sometimes whole; nothing locks it in between |
| Roles and grants (`accounts/roles, role_models, role_views, pages`, `sync_roles`) | role rows, permission rows, cached table | create, edit, toggle a screen, delete, recalculate the rank, sync, check | several writes per request, a rank derived from a count, a cached table with a load that races its invalidation |
| Cache helpers (`common/cache.py`) | cached values, TTL | get, set, delete, `cached_call` | errors are swallowed; a load can end after an invalidation |
| Warehouse pool (`common/sourcedb.py`) | list of connections, lock | connect, borrow, ping, query, give back, reset | threads, outages, dead connections, a limit |
| Projects and overlay (`projects/*`) | overlay documents, cached roster, audit log | list, open, create, edit, archive, bulk archive | two stores read and written in one request; ids are computed from one of them |
| Audit log (`audit/*`) | entries | record | best effort: a failed record is swallowed |
| Departments (`department_views.py`, the department forms) | departments, members | create, edit, toggle, delete, assign, validate | a deletion is two writes, and accounts and edits that were loaded before it are written after it; the form's uniqueness check knows no case, the index does |
| Bootstrap and start-up (`bootstrap_admin`, `entrypoint.sh`) | accounts, roles | migrate, sync, bootstrap | restarts half way; the command adopts an account by email or by username |
| Rank matrix (`rankings/*`, `common/dates.py`, `common/heatmap.py`) | one request's window, rows and cells; the cached newest day | resolve, pull back, fetch, fold, show | three queries over a warehouse that grows meanwhile; rows in no order; a cut at so many columns |
| Pagination (`common/pagination.py`) | the page shown | open, next, previous, number, rows per page | count and slice are two reads; pages past the end |
| Cached reads (`keywords`, `projects`, `cached_call`) | cache entries with TTLs | list, summary, counters, roster | cached calls inside cached calls, with keys that do not name what they depend on |
| Role screen (`rankvista-shell.js`, `role_views.py`) | switches, requests under way | click, answer, fail | requests and answers in any order, a failure sets the switch back |
| Modal forms (`rankvista-validate.js`, `form_modal.html`, `validation.py`) | fields, marks, button, timer | type, validate, post | late answers, a post under way, statuses that are not swapped in |
| Analytics, charts, filters, rendering | none of their own | compute, lay out | floating point, limits of axes |

Interaction: every view runs under `login_required`, `super_admin_required` or
`page_required`, which read the session, the account and the cached role table;
the services write the account or the overlay, invalidate caches, and record to
the audit log; repositories read the warehouse through the pool.

What makes them correct: an account never gains a role nobody gave it, a deleted
account never gets back in, a super admin remains; a permission check sees the
stored table, ranks follow grants, built-in roles cannot be weakened; a
connection has one owner and none leaks; an archived project stays archived, an
id identifies one project; the log explains the state; members belong to
departments that exist; a screen shows what is stored, and old values for a
bounded time. The hazards behind these are listed, at their lines, in `PROJECT.json`.

## Modules

| Module | Models | Composition |
|---|---|---|
| `UserAdmin` | the handlers and services of accounts, sessions and the log of roles | implements `AccountBook`; theorems in `UserAdminProofs` |
| `AccountBook` | what user administration promises, one step per request | abstract |
| `SourcePool` | `sourcedb.py`: pool, threads, sockets, outages | theorems in `SourcePoolProofs` |
| `RoleTable` | roles, grants, the cached table, `sync_roles`, `page_required` | theorems in `RoleTableProofs` |
| `RoleScreen` | the permission switches of a browser and their requests | extends `RoleTable`, each of its steps is one of `RoleTable` or none; theorems in `RoleTableProofs` |
| `ProjectOverlay` | roster, cache, overlay and log of the project handlers | theorems in `ProjectProofs` |
| `RankMatrix` | the ranking matrix of an ASIN, from the query string to the cells | theorems in `RankMatrixProofs` |
| `Paging` | a browser paging through a list | theorems in `PagingProofs` |
| `Directory` | departments and the department of every account | theorems in `DepartmentProofs` |
| `DepartmentForm` | the modal form in a browser, its validations and its post | extends and implements `Directory`; theorems in `DepartmentProofs` |
| `CachedReads` | cached calls inside cached calls, with a clock | theorems in `CachedReadsProofs` |
| `MC...` | the values TLC needs that a configuration cannot write, symmetry | |

**UserAdmin.** `users` is the `accounts_user` collection: email, role, `is_active`,
`is_deleted`, password (numbered in the order given; 0 is
`set_unusable_password`) and `is_superuser`. `sessions[b]` holds the user and the
password hash in the session of browser `b`. The log names an account by its email
and by nothing else (`services.py:24,38,46`), so `trail[e]` is the last role that
`USER_CREATED` and `ROLE_CHANGED` give under email `e`; an edit may change an email,
a deletion frees it (`NoEmail` is the address of a tombstone), and the unique index
refuses one that is taken (`EmailFree`). `req[t]` is the request thread `t`
serves: the stage it reached, the actor, the target and `copy`, the in-memory
`User`. Each action is one store access and the code around it: `CheckCredentials`
and `StartSession` are `login_view`; `AdmitAdmin` and `AdmitOwn` the middleware
and the decorators; `LoadTarget` is `_target`; `ReadPreviousRole`, `SaveEdit` and
`RecordAccount` are `update_user`; `SaveToggle` is `set_active`, `SaveDelete`
`soft_delete`, `SaveProfile` and `SaveOwnPassword`/`UpdateSessionHash`
`profile_view`. A save with `update_fields` writes those fields, a `ModelForm`
save or a bare `save()` the whole `copy`, through `User.save` (`Normalised`).
`issued`, `granted` and `renamed` are history variables. `Abandon` is a GET, an invalid
form, a refusal, and with `Faults` a worker that dies. `setting` says, for a whole
behaviour, which threads serve which handlers to which browsers, and which accounts and
emails there are. Usernames are left out: they are unique and change like emails, and
nothing but signing in reads them.

**SourcePool.** `pool` is `_pool`, `conn[t]` the local variable of `connection()`,
`pc[t]` the place in it, `socket[c]` what the connection object holds, `up` the
server. A block under `_lock` is one action (`PopPooled`/`PoolEmpty`, `GiveBack`,
`ResetPool`); connecting, pinging and querying are actions between them, each
with its failure. `DropConnection` and `WarehouseUpDown` are the environment.

**RoleTable.** `rows` and `grants` are the two collections, by primary key, so that
a deleted row can be written again by a stale `save()`; `cache` is the role table
by cache, `online` whether the cache answers. `LoadTable` is the miss and the
queries of `_load`, `StoreTable` the `cache_set` after it; every write action is
followed by `Invalidate` where the code has it. `Recalculate` counts and compares,
`SaveRank` saves: two steps, as in `recalculate_rank`. `SyncRole`/`CreateGrant` are
the loops of `sync_roles`. `setting` says, for a whole behaviour, which threads work and
at which handlers, which pages there are and what fails: the reads of the store, the
cache, a worker.

**RoleScreen.** `switch[p]` and `saving[p]` are the checkbox and its label,
`fetches` the requests in the order of the clicks, each with what the browser
(`client`) and the server know of it. `Click`, `Resolve` and `Reject` are the
three callbacks of `initPermissionToggles`; `Deliver`, `StoreGrant`, `UpdateRank` and
`DropTable` are `role_permission_toggle`, made of the actions of `RoleTable`. Each
thread is a worker with a cache of its own, as without `REDIS_URL`. The network
delays, reorders and loses. `ShownPages` are the pages with a switch, all there are on
the screen.

**ProjectOverlay.** `warehouse` is the set of project ids that have a row in
MySQL; `overlay` the document of each id; `roster` what the cache holds; `trail` the
name and status that replaying the audit log gives; `req[t]` the request of a
thread. Stages separate reading the roster, writing the overlay, reading it
again, invalidating and recording, since each can fail on its own: MySQL
(`QueryFailed`), MongoDB (`WriteFailed`), the process (`WorkerDies`). `Import` is
the external job that adds projects. A bulk action arrives with ids of projects in the
warehouse, as the check boxes of a listing send them, although `project_bulk_archive`
takes any (`views.py:206`): an id that no project has yet would get an archived document, and the project that
later takes the id a second life, which no listing of the program leads to.

**RankMatrix.** `ranks` is what the warehouse holds for one ASIN, `range` what
`available_range` has cached. One request goes through `project_ranks`: `Resolve`
is `resolve_window`, `Clamp` `_clamped_window`, `ListKeywords` `_keyword_page` (any set
of keywords, so that every filter and page is covered), `FetchRanks` and `FoldRow`
the query and the loop of `matrix_rows`, `FetchChecked` `tracked_dates`, and `Cell`
the cell that `build_matrix` makes of them. `FoldRow` takes the rows in any order,
since the query has no `ORDER BY`; `Import` may come between any two steps.
Days are integers, 0 a Monday; a weekly column may begin before the window.

**Paging.** `rows` is how many rows match; `Count` and `Slice` are the two reads of
a list view and `Change` may come between them; `OpenUrl`, `FollowNext`,
`FollowPrevious`, `FollowNumber` and `ChooseSize` are what the template offers.
`walk` is a history variable: what was shown since page one by following "next".
`TieBroken` says whether `order_by` ends in a unique column, as it does for users
(`selectors.py:45`).

**Directory.** `depts` and `member` are the department of each primary key and of
each account, `req[t]` what a request has loaded, checked or chosen. `CheckDept` is
the validation of the form, `SaveDept` its save (an update of a row that is gone
inserts it again); `Detach` and `Remove` are the two writes of `delete()`;
`Choose`/`SaveAccount` are the user forms, and `RewriteAccount` the other two saves of
a whole account, by the profile form and by `soft_delete`. `overtaken` is a history variable: the accounts and departments
about which a request had looked something up that another one changed before it
wrote. The properties say that nothing goes wrong outside it.

**DepartmentForm.** One browser: `form` holds what is typed, touched and painted,
the timer, the button and the post; `calls` the validations under way. `Type`, `Fire`
and `Paint` are `rankvista-validate.js`, `Answer` is `department_validate`, `Submit` the post with `markLoading`, and what follows are the
actions of `Directory`. Leaving a field does nothing: `rankvista-validate.js:94-96`
passes `true` where jQuery 3.7.1 expects the handler, which makes `.on` throw before it
binds anything. A response with a status of 400 or more is not swapped in (htmx 1.9.12).
Both libraries are outside the repository.

**CachedReads.** `entries` has, per key, the snapshot its value tells of and the TTL
left; `Start`, `Hit`, `Miss`, `Query` and `Store` are `cached_call`, nested as in
`metric_summary` and `usage_counters`. `Tick` is time; a request takes at most
`MaxDelay` ticks, as the read timeout of the pool bounds it (60 seconds,
`settings.py:168`, where `CACHE_TTL_MEDIUM` is 300).

## Runs

| Run | Question | Bounds and why they are enough |
|---|---|---|
| `SourcePool_contended` | is a connection ever shared, leaked or handed out dead; does every borrower get through | 3 threads, 2 slots, 4 connections: one thread more than slots, so closing on return happens; pairs of threads are what a violation needs |
| `UserAdmin_handlers` | what is true when requests do not overlap, and does the module implement `AccountBook`; what do edits and profile saves that overlap leave true | one request at a time: every handler on 2 accounts, or 3 accounts (actor, target, bystander) and the handlers that give or take rights, with 3 emails, so that one is free to move to; two at a time: 2 accounts, 2 browsers, 2 emails, edits and profile saves, the two that save a whole instance which may be stale; 2 passwords. All handlers overlapping are covered by the theorems |
| `RoleScreen_handlers` | do cache, ranks and grants agree with the rows between requests; can anything weaken a built-in role; in which ways can a switch end up wrong; does its label stop saying "saving"; do all workers come to see the grants | 2 built-in roles, one custom role. Handlers: one at a time with 2 and 3 pages; one at a time with an unreliable cache; two at a time with failing reads and workers that die. Switches: 2 pages, 2 clicks, 2 workers with a cache each, requests and answers lost, cache outages, workers that die: two clicks are what one switch can confuse, or two switches of one role |
| `ProjectOverlay_archive` | does an archived project come back; does a bulk action that reports success lie; does the log explain names and statuses | 2 requests, 2 projects and all three outages, no imports; or one at a time, 3 ids, 2 names, imports at any moment |
| `RankMatrix_import` | does every cell hold the best rank, are missing ranks told apart, do the columns reach what was fetched | 2 keywords, 2 observations on 3 days (two share a week, two a month), ranks 0, 3 and 4; windows of 3, 7 and 9 days, daily, weekly and monthly; `MAX_MATRIX_COLUMNS` = 2 and `MaxSpan` = 9 so that both cuts happen; two observations are what one cell can confuse |
| `Paging_walk` | do links lead to rows, is "1-25 of 90" right, does a walk see every row once | at most 9 rows and sizes 1 to 4: with size 1 the page list passes 7 and gets gaps; URLs from -1 to 11 and malformed ones |
| `DepartmentForm_overlap` | what can a deletion, or a check that is overtaken, leave behind; do the marks on the form tell what the server says | 2 departments, one account, a name in two spellings, 3 codes; two requests of any kind; or a form with 2 validations under way; or a form with one while departments are deleted |
| `CachedReads_age` | how old can what is shown be; how long may the strip tell of another snapshot than the list | TTLs 1, 2 and 6 in the order of the code's, requests of up to 1 tick, 2 threads, 2 syncs: one call inside another is as deep as the code nests them |
| `UserAdmin_race_edit` | *violated*: "without ever touching the password hash" (`forms.py:188`) | 2 requests |
| `ProjectOverlay_same_id` | *violated*: "stable public identifier" (`schema.py:27`) | 2 creations, no failure |
| `RoleScreen_crossed` | *violated*: "Never leave the switch showing a state the server did not accept" (`rankvista-shell.js:247`) | 2 clicks on the screen of `RoleScreen_handlers` |
| `DepartmentForm_refused` | *violated*: "posts back into itself so validation errors re-render in place" (`form_modal.html:1`) | one browser, nobody else |

`CHECK_DEADLOCK FALSE` is set where nobody is obliged to send a request and the
bounded passwords, keys, clicks or ids can run out.

Bounds by name: `MaxPwd` (passwords an account is ever given), `Users` and `Emails`,
`Ids` (project ids), `Pks` (primary keys of roles), `CustomCodes`, `PageKeys` and
`ShownPages`, `MaxClicks`, `MaxSnapshots`, `MaxRows`, and `Settings`, `ScreenSettings` (in
`ProjectOverlay` also `Handlers`): the combinations of threads, handlers, faults and
inputs that one run puts side by side, so that each behaviour has one. Symmetry is used
on threads, browsers, emails, names and keys, never in a run with a liveness property.

**Fairness.** `SourcePool`: a thread inside `connection()` takes its next step; a
connect and a read timeout (`sourcedb.py:47-48`) bound the waits for a connection and
for an answer. No write timeout is set: that sending a statement ends, which is short
and goes into the socket's buffer, is assumed.
`RoleScreen`: a request that has arrived is served, a worker that began goes on, the
browser runs its callbacks, and an entry expires, as its TTL (`CACHE_TTL_MEDIUM`)
says. Nobody is obliged to ask for anything, and no outage is obliged to end.

## What the violations say

* `UserAdmin_race_edit`. `update_user` saves the whole instance the view loaded.
  A password reset that lands between the two is undone: the old hash returns.
* `RoleScreen_crossed`. A failed request sets its switch back to the opposite of what
  it asked for, as if no other click had come. Turn a switch on and at once off again
  and let both requests fail: the first failure sets it to off, the second to on, and
  nobody ever stored on.
* `ProjectOverlay_same_id`. `next_project_id` takes the highest id of the roster,
  and created projects never enter the roster: the next creation gets the same id
  and its upsert replaces name, status and date of the first.
* `DepartmentForm_refused`. A refused post answers with status 422, which htmx does
  not swap in: the errors never appear and the button stays disabled. A 404 ends
  the same way. The user, role and project forms work alike.

### What overlap breaks besides

The properties of `UserAdmin_handlers`, `RoleScreen_handlers` and
`ProjectOverlay_archive` that have one request at a time as their condition are stated so
on purpose. Without it they fail, for these reasons:

* `TrailShowsRole`: the previous role is read, saved over and recorded in three
  steps (`services.py:30-49`). Even without overlap it is about accounts that were never
  renamed: entries under a former email stay there, and the log does not say whose they
  were.
* `SuperAdminRemains`: two super admins can remove each other; the next run of
  `bootstrap_admin` brings one back.
* `DeletedIsFinal`: a full save of a stale copy, by the profile form above all
  (`views.py:85`), restores whatever it had read, passwords too.
* `CachedTableCurrent`: a load that began before an invalidation is stored after
  it, or the invalidation is lost in an outage (`cache.py:34-49`); the TTL bounds
  how long (`TablesConverge`).
* `RankFollowsGrants`: counting, comparing and saving the rank are separate
  (`role_views.py:61-77`); overlapping toggles can leave an old rank for good.
* `GrantsComplete`: a worker that dies in `role_create` leaves a role without some
  of its grants.
* `TablesConverge` holds with outages of the cache, not with those of the store: a
  load that fails stores the built-in table.
* With `Seeded = FALSE`, `SuperAdminKeepsEveryPage`: a built-in code can be taken by
  hand before `sync_roles` first runs, which then adopts the row with its rank and
  pages.
* With imports, `ArchivedStays`: a project that is imported after a creation read
  the roster, and archived, is overwritten as active when the creation saves. A bulk
  action that archived it then reports a success that no longer holds
  (`BulkArchivesAll`).
* With outages, `TrailExplains`: `update_project` reads the roster again after
  its upsert, and an error there ends the request before the audit record
  (`repositories.py:226-228`).
* `MembersExist`, `NoTwins` and `DeletionHolds` name their exceptions: what is in
  `overtaken`. Each exception does happen.
* `SwitchTellsGrant` names three ways in which a switch whose requests are over shows
  something else than what is stored, and each happens: the server stored what the
  browser counts as failed, because the answer was lost or the request failed after the
  write (`Unheard`); a click was stored after a younger one (`Overtaken`); a second click
  came while the first was under way and one of them failed (`Crossed`), after which
  `catch` restores the state before *its* click. The last is the violation above.
* `VerdictsSettle` leaves out an answer to an older call that is painted last: its
  verdicts stay until the next key is pressed.

Two more things depend on an order the code does not fix:

* the badge of a weekly or monthly matrix cell. It is the badge of the best row,
  plus that of any row that comes after it: a worse row with the badge counts
  when it comes later, not when it comes first (`repositories.py:62-65`).
  `BadgeOfTheBest` states what any order guarantees.
* pages of departments sorted by their number of members
  (`department_views.py:57`): with `TieBroken = FALSE`, `WalkSeesAll` fails.

What does survive overlap is checked and proved under it: `RoleWasGranted` and
`GrantedByAnotherAdmin` (checked with edits and profile saves, proved with all
handlers), `SystemRowsStay`, `SuperAdminKeepsEveryPage`; while nothing is imported
`ArchivedStays` and `BulkArchivesAll`; the unique codes of `NoTwins`, the ages of
`CachedReads`, and `SwitchTellsGrant` and `VerdictsSettle` as they are stated.

## Proofs

Every safety property of the passing runs, invariant or action property, is also a
theorem: TLC shows it on the instance of the run, the proof for every value of the
constants. Each proof has the same form: an invariant that the steps preserve
(`IInv` or what is named below), a lemma for each action or group of actions, and a
short step from the invariant to the property. The strengthened invariants were
model-checked before they were proved.

### SourcePoolProofs

For any set of threads, any number of connection objects and any limit:

* `Types`, `Exclusive`, `NoLeak`, `Bounded`: the invariants `TypeOK`, `OneOwner`,
  `NoLeakedSocket` and `ConnectionsBounded`;
* `Alive`: the action property `BorrowedAlive`;
* `AlwaysPooled`: with `Cardinality(Threads) <= MAX_POOLED`, the deployed
  configuration (four and four), the branch that closes a returned connection is
  never taken. This one is proved and not model-checked.

Assumptions: `ThreadsFinite`, `MaxPooledNat`, `NoConnIsNoConn`, the three that
`SourcePool` declares.

None of the invariants is inductive alone. The inductive one, `IInv`, adds
`HoldsWhere`: a thread holds a connection exactly while it is pinging, querying
or giving back. Without it a thread about to give back could hold nothing, or
one about to pop something; with it, what `PopPooled` takes from the pool is
nobody else's (`OneOwner`), what `GiveBack` drops is closed (`NoLeakedSocket`), and
a thread that finds the pool empty is counted among the borrowers before it
connects (`ConnectionsBounded`).

### UserAdminProofs

For any users, emails, sessions, threads and passwords, any settings, with faults or
without, and any overlap:

* `Types`: `TypeOK`;
* `Granted`: `RoleWasGranted`, no interleaving gives an account a role that was not
  granted to it;
* `ByAnother`: the action property `GrantedByAnotherAdmin`, a grant comes from
  another account, one that had itself been made super admin before.

The code writes whole accounts back from memory, so `RoleWasGranted` is not inductive:
what a request holds in `copy` is a role that will be stored later. `IInv` therefore
also says that a copy in memory carries a granted role (`CopyGranted`), that targets
and sessions name accounts that exist (`Loaded`, `SessionsKnown`, `Known`), and that a
request that may grant is made by an account that was once made super admin, other
than its target (`Entitled`). The lemma `WritesStep` treats all saves at once: a save
writes the fields of a copy, and `Normalised` does not touch the role.

Where requests do not overlap (`Serial`, a condition inside these properties: one thread
at work):

* `AdminRemains`: `SuperAdminRemains`;
* `DeletedForGood`: the action property `DeletedIsFinal`;
* `ImplementsBook`: `KeepsTheBook`, the refinement. Initial states map to initial
  states of `AccountBook`, and every step of `UserAdmin` to a step of it or to a
  stutter;
* `LogShowsRoles`: `TrailShowsRole`, if no record is lost and no worker dies
  (`~Faults`): who looks up an account that was never renamed by its email finds its
  role, also when the email belonged to a deleted or renamed account before.

`Serial` is a condition because these fail without it, see above; workers that die
are covered by the other three. What a request has read is then still true when it
writes: its sender is an active administrator or the owner, and its copy is the
account (`Current`); passwords are numbered as they were given (`Numbered`). Every
write is then one of the changes `AccountBook` lists (`Changes`). For the log,
`Logged` and `Prior` say what the record still to be written will hold.

Assumptions: those `UserAdmin` declares (`RootIsUser` and its like, `SettingsOK`,
`MaxPwdPos`, `AbsentIsNoAccount`, `NoRoleIsNoRole`, `NoEmailIsNoEmail`,
`MarksAreNoEntries`).

### RoleTableProofs

For any pages, built-in and other codes, primary keys, threads and caches, whatever
overlaps or fails:

* `Types`: `TypeOK`;
* `SystemKept`: the action property `SystemRowsStay`, when `Seeded`;
* `SuperAdminKept`: `SuperAdminKeepsEveryPage`, when `Seeded` and `SUPER_ADMIN` is a
  built-in code.

`Seeded`: `entrypoint.sh:49` runs `sync_roles` before the server starts, and only a
failure of it is passed over. The two fail without it. An edit writes back the row it loaded, so `SystemInv` says what is in
memory too: a copy of a built-in role is the row as it is, one of another role
belongs to a row that is not built in (`CopySound`), and what is toggled, deleted or
ranked anew may be (`Unlocked`). `RowEffect` gives for all handlers at once what a step
does to the rows. From the rows follow the grants of super admin (`SuperGrants`) and
from those the tables in memory and in the caches (`TablesWhole`).

For one request at a time without failures:

* `TableCurrent`, `RanksFollow`, `GrantsWhole`: `CachedTableCurrent`,
  `RankFollowsGrants` and `GrantsComplete`, which have that condition in them.

`SerialInv` says what is right at every stage of the request under way, and so what it
has still to repair: all other threads are idle (`Alone`), the table is current while
nothing was written (`Fresh`), the row is the one that was read (`Same`), the grants
are whole but for those still to be created (`Granting`), the ranks right but for the
row being completed (`Ranks`).

For the permission switches of the browser, with any number of clicks and workers, and
requests and answers lost, late and in any order:

* `SwitchTells`: `SwitchTellsGrant`, a switch ends up wrong in the three named ways only;
* `ScreenInvariant`: `ScreenInv` always holds, and every step is a step of `RoleTable`
  or leaves it alone;
* `ScreenHarmless`: so `SystemRowsStay` and `SuperAdminKeepsEveryPage` hold here too.

The property speaks of the end; the invariant of every moment, for each page on its
own (`PageInv`), up to the three exceptions: what is stored is what the last request
stored wanted, if they were stored in order (`Stored`); the switch is where the last click put it while nothing
was rejected (`Clicked`); where clicks are made one after the other at most one
request is waiting (`Single`), and the switch and the grant differ by that request
only (`Followed`). `Served` ties the requests to the workers, so that a request is
stored once.

Assumptions: those `RoleTable` and `RoleScreen` declare. `ScreenSettingsOK` says that on
the screen all pages are shown and all workers work, and that the server has the
handler.

### ProjectProofs

For any projects, names and threads, whatever overlaps or fails:

* `ArchivedForGood`: the action property `ArchivedStays`;
* `BulkArchives`: the action property `BulkArchivesAll`;
* `NextIdIsNew`: the id of a creation is above every id of the roster it read.

For one request at a time without failures, also with imports:

* `LogExplains`: `TrailExplains`.

While the warehouse gains nothing, every roster, cached or in memory, is the whole
warehouse (`RosterWhole`, `Seen`), and only what is in the warehouse is ever archived
(`OnlyKnownArchived`); the id of a creation is therefore not that of an archived
project. `BulkHolds` follows a bulk action through its loop. For the log, `Explained`
says by what record, the one of the request under way, it lags behind the overlay.

### CachedReadsProofs

For any TTLs in the order of the code's, any number of threads and snapshots:

* `ShownCurrent`: `ShownWasCurrent`;
* `SummaryFollows`: `SummaryFollowsSnapshot`.

A tick adds one to the age of what is out of date and takes one from what is left of an
entry, so that their sum never grows (`EntriesFresh`, and `CarriedFresh` for what a
request carries from one call into the next). A lookup of the snapshot is replaced
only by a request that missed it, at most `MaxDelay` after it was stored
(`MissedLately`); from then on all that looked it up agree (`LookupAgrees`), and so
does the summary that was stored since (`SummaryAgrees`).

Assumptions: `TtlsOrdered`, and `QueriesEndInTime`, `MaxDelay <= CACHE_TTL_MEDIUM`.

### RankMatrixProofs

For any calendar, any number of keywords, observations and columns, and any order in
which rows come and imports happen:

* `BestRank`, `ToldApart`, `Badge`: `BestRankWins`, `MissingToldApart` and
  `BadgeOfTheBest`;
* `NewestChecked`, `Covered`: `NewestColumnChecked` and `ColumnsCover`, in a calendar
  in which every day is in a month (`Calendar`). The real calendar is like that; the
  instance TLC checks lists only the months that its days need.

`IInv` says that a cell holds the best of the rows folded so far (`GridBest`), that
there are cells for those rows and no others (`GridDomain`), that a badge shown was on
a row of the cell and one on a best row is shown (`GridBadge`; that no other is shown
does not hold, see above), and that every row
fetched lies in the window and on a day that the later query finds again (`Fetched`,
`AllChecked`), because an import only adds. `DInv` follows the dates from the cached
range to the window. `GreatestOnes` counts: a column that is cut off has a full set of
columns above it.

Assumptions: those `RankMatrix` declares.

### DepartmentProofs

For any departments, accounts, names, codes and threads:

* `Types`, `Members`, `Unique`: the invariants `TypeOK`, `MembersExist` and `NoTwins`;
* `Deleted`: the action property `DeletionHolds`;
* `FormImplements`: `FormSpec => Spec`, the browser does nothing to departments that
  the handlers do not do, so the other four hold with it;
* `Settled`: `VerdictsSettle`, for any number of validations, lost or late: when the
  answer painted last is the latest. It does not say that it is.

None of the first three is inductive: a request may hold a reference to a department
that is gone, or a name that is about to be taken. `IInv` says that every such request
is excused before it writes: what it chose (`ChoicesExcused`), what a deletion has
detached but not removed yet (`DetachedExcused`), what was deleted under it
(`DeletedExcused`), and names that are carried or stored side by side
(`DraftsExcused`, `PairsExcused`, `TwinsExcused`). The steps that matter are `Remove`,
which puts every holder of a reference into `overtaken`, and the check of the form,
which does so for equal names.

For the browser, `BrowserInv` says what is known before the answer is painted: unless
the timer runs, the latest call was sent for what the form holds (`Sent`); its verdict
is still the server's (`Judged`); and once painted so is the form (`Shown`).

Assumptions: `Spelling` (upper case is idempotent), `NoRowIsNoRow`, `NoDeptIsNoDept`,
`EntriesKnown` and `NoFormIsNoForm` for the form.

### PagingProofs

For lists, pages and parameters of any size:

* `Leads`: `LinksLead`, with the window of links around any page of any number;
* `SeesAll`, `IndexLine`: `WalkSeesAll` and the action property `IndexesTell`, when
  `TieBroken`, which the `order_by` of the user list is and that of the departments
  sorted by members is not.

The page count is a ceiling, written with Python's floor division; `Ceiling` says of
`NumPages` what the other lemmas need, `Links` what `PageRange` returns. `WalkInv` says
that the walk has shown the first rows of the list, as many as the pages before the
one asked for; `Drift` that the index line is off by what changed between its reads.

Assumptions: `ParametersKnown` and `GapIsNoNumber`.

### What is only model-checked

Liveness is beyond the prover: `BorrowEnds`, `SavingEnds` and `TablesConverge` stay with
TLC, and so do the four violations. That a finite set of integers has a greatest
element is proved without induction over data, from the well-founded order of finite
subsets (`MaxExists`, `Greatest`). What is proved holds of the modules: the
simplifications each names in its header are not covered.

## Not modelled

* The MongoDB client: a double-checked singleton under a lock; planned.
* Start-up besides `sync_roles`: waiting, migrations, indexes. `bootstrap_admin`
  gives `UserAdmin` its initial state, and is not an action of it: it finds the
  administrator by email or else by username, and `UserAdmin` leaves usernames out;
  planned.
  `sync_roles --reset` and `seed_demo` are run by hand.
* Analytics and charts, the overview and the movers of the rankings: arithmetic on
  floating point numbers and layout, without state.
* Filters, searches and sort orders of the lists: parsing of the query string.
* In the browser: dropdowns, skeletons, toasts and scrolling. Several of them depend
  on the order in which htmx raises its events, which is not in the repository.
* Outages of the cache are modelled for the role table only; for the other cached
  values they lengthen nothing, since a failed `cache_get` is a miss.
* Templates, formatting, labels, addresses and configuration, for good.

## Plan

Done, in this order: `UserAdmin` with `AccountBook`, `SourcePool` with its proofs,
`RoleTable`, `ProjectOverlay`, the proofs about `UserAdmin`, `RankMatrix` with its
proofs, `Paging`, `Directory` and `DepartmentForm` with their proofs, `RoleScreen`,
`CachedReads`; then the theorems that were missing: the refinement of `AccountBook`
and the rest about `UserAdmin`, all of `RoleTable`, `RoleScreen`, `ProjectOverlay`,
`CachedReads` and `Paging`, the columns and badges of `RankMatrix`, the validations of
`DepartmentForm`. Next:

1. usernames with `bootstrap_admin`: it settles, and never fails on a clash, whatever
   the accounts have become;
2. the double-checked MongoDB client;
3. axis ceilings and distribution buckets as operators checked against reference
   definitions.
