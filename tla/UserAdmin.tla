------------------------------ MODULE UserAdmin ------------------------------
(***************************************************************************)
(* Accounts, sessions and the requests that change them: apps/accounts     *)
(* (models.py, services.py, forms.py, permissions.py, views.py and         *)
(* admin_views.py).                                                        *)
(*                                                                         *)
(* A worker thread serves one request at a time.  A request reads its own  *)
(* account, then perhaps the account it is about, works on that in-memory  *)
(* User instance ("copy"), and writes it back: some handlers write only    *)
(* the fields they name, the ModelForm ones and soft_delete write every    *)
(* field of the instance.  Nothing locks the account between the read and  *)
(* the write, so every read, write, audit record and session write is an   *)
(* action of its own, and the setting decides whether they interleave:     *)
(* with one thread the module is the serial system.  The audit log names   *)
(* an account by the email it has at that moment and by nothing else, so   *)
(* the log is kept by email here too.                                      *)
(*                                                                         *)
(* Left out: usernames, departments and dates (no handler's control        *)
(* depends on them except that usernames are unique), the built-in ranks   *)
(* of role_models (the super admin's rank is the highest there is), and    *)
(* is_staff, which User.save derives from the role as it does is_superuser.*)
(***************************************************************************)
EXTENDS Integers, FiniteSets

CONSTANTS
  Users,          \* primary keys, used and unused
  Root,           \* the bootstrap administrator
  Role,           \* the values of models.Role
  SUPER_ADMIN,    \* its highest one
  Threads,        \* worker threads of all gunicorn workers
  Browsers,       \* each holds one session cookie
  Emails,         \* the addresses that forms are filled in with
  Settings,       \* bound: the surroundings that are considered
  MaxPwd,         \* bound: passwords an account is ever given
  Faults,         \* TRUE: workers may die and audit records be lost
  Absent,         \* no such account
  NoEmail,        \* the address of a deleted account, which nobody else can have
  NoSession, NoUser, NoRole, NoBrowser

ASSUME RootIsUser == Root \in Users
ASSUME SuperAdminIsRole == SUPER_ADMIN \in Role
ASSUME MaxPwdPos == MaxPwd \in Nat \ {0}
ASSUME FaultsBool == Faults \in BOOLEAN

VARIABLES
  setting,   \* one of Settings, the same all the time
  users,     \* the accounts_user collection
  sessions,  \* the session of each browser: the user and the password hash in it
  req,       \* the request each thread serves
  trail,     \* the last role that the audit log has under each email
  renamed,   \* history: the accounts whose email was changed
  issued,    \* history: how many passwords each account was given
  granted    \* history: the roles an account was ever given by an administrator

vars == <<setting, users, sessions, req, trail, renamed, issued, granted>>

(* Passwords are numbered in the order an account is given them; 0 is the
   unusable password of a deleted account. *)
Unusable == 0
Password == 0..MaxPwd

Account == [email : Emails \cup {NoEmail}, role : Role, active : BOOLEAN,
            deleted : BOOLEAN, pwd : Password, su : BOOLEAN]

ASSUME AbsentIsNoAccount == Absent \notin Account
ASSUME NoRoleIsNoRole == NoRole \notin Role
ASSUME NoEmailIsNoEmail == NoEmail \notin Emails

Session == [user : Users, pwd : Password]

(* Handlers: on another account, on one's own, and neither. *)
TargetOp == {"edit", "password", "toggle", "delete"}
AdminOp == TargetOp \cup {"create"}
OwnOp == {"profile", "own_password"}
Op == AdminOp \cup OwnOp \cup {"login", "none"}

(* Which threads serve which handlers (besides signing in) to which browsers, and which
   accounts there can be under which emails. *)
Setting == [threads : SUBSET Threads, browsers : SUBSET Browsers, accounts : SUBSET Users,
            emails : SUBSET Emails, handlers : SUBSET (AdminOp \cup OwnOp)]

ASSUME SettingsOK == Settings \subseteq Setting

(* How far a request has got. *)
Stage == {"idle", "admitted", "loaded", "previous", "saved"}

Request == [op : Op, at : Stage, browser : Browsers \cup {NoBrowser},
            actor : Users \cup {NoUser}, target : Users \cup {NoUser},
            copy : Account \cup {Absent}, prev : Role \cup {NoRole}]

NoRequest == [op |-> "none", at |-> "idle", browser |-> NoBrowser,
              actor |-> NoUser, target |-> NoUser, copy |-> Absent, prev |-> NoRole]

Exists(u) == users[u] # Absent

(* User.save: is_superuser mirrors the role of the instance being saved. *)
Normalised(a) == [a EXCEPT !.su = (a.role = SUPER_ADMIN)]

(* Mutant: the own account is no exception. *)
CanManage_Self(actor, role, target) == role = SUPER_ADMIN

(* can_manage: a super admin, never on the own account.  No role outranks
   SUPER_ADMIN, so the comparison of ranks never refuses. *)
CanManage(actor, role, target) == role = SUPER_ADMIN /\ actor # target

(* AuthenticationMiddleware: the account a browser's session stands for.  An
   inactive account is not loaded; a hash that no longer matches is refused. *)
SessionMatches(b) ==
  /\ sessions[b] # NoSession
  /\ users[sessions[b].user].active
  /\ users[sessions[b].user].pwd = sessions[b].pwd

SessionOutdated(b) ==
  /\ sessions[b] # NoSession
  /\ users[sessions[b].user].active
  /\ users[sessions[b].user].pwd # sessions[b].pwd

(* login_required. *)
MayEnter(u) == users[u].active /\ ~users[u].deleted

(* The unique index of email. *)
EmailFree(e, u) ==
  e = NoEmail \/ \A v \in Users \ {u} : Exists(v) => users[v].email # e

(* An account as UserCreateForm.save and User.save leave it. *)
NewAccount(email, role, active, pwd) ==
  Normalised([email |-> email, role |-> role, active |-> active, deleted |-> FALSE,
              pwd |-> pwd, su |-> FALSE])

FirstAccount == UNION {{NewAccount(e, r, TRUE, 1) : r \in Role} : e \in setting.emails}

Init ==
  /\ setting \in Settings
  /\ users \in [Users -> FirstAccount \cup {Absent}]
  /\ \A u \in Users : Exists(u) => u \in setting.accounts /\ EmailFree(users[u].email, u)
  /\ Exists(Root) /\ users[Root].role = SUPER_ADMIN
  /\ sessions = [b \in Browsers |-> NoSession]
  /\ req = [t \in Threads |-> NoRequest]
  /\ trail \in [Emails -> Role \cup {NoRole}]
  /\ \A u \in Users : Exists(u) => trail[users[u].email] = users[u].role
  /\ \A e \in Emails : (\A u \in Users : Exists(u) => users[u].email # e) => trail[e] = NoRole
  /\ renamed = {}
  /\ issued = [u \in Users |-> IF Exists(u) THEN 1 ELSE 0]
  /\ granted = [u \in Users |-> IF Exists(u) THEN {users[u].role} ELSE {}]

-----------------------------------------------------------------------------
(* What the handlers have in common. *)

Advance(t, r) == req' = [req EXCEPT ![t] = r]

Finish(t) == Advance(t, NoRequest)

(* A full save() of the instance; the unique index refuses an email that is taken. *)
WriteAll(u, a) ==
  /\ EmailFree(a.email, u)
  /\ users' = [users EXCEPT ![u] = Normalised(a)]
  /\ renamed' = IF Exists(u) /\ users[u].email # a.email THEN renamed \cup {u} ELSE renamed

CanRekey(u) == issued[u] < MaxPwd

(* set_password with a password the account did not have before. *)
Rekey(u) == issued' = [issued EXCEPT ![u] = issued[u] + 1]

(* record() with the role as its detail: the entry names the account by its email.
   A failure is swallowed. *)
RecordRole(email, r) ==
  \/ trail' = [trail EXCEPT ![email] = r]
  \/ Faults /\ UNCHANGED trail

-----------------------------------------------------------------------------
(* Signing in and out. *)

(* Mutant: the session is started before the user is known. *)
CheckCredentials_Anonymous(t, b, u) ==
  /\ req[t] = NoRequest
  /\ ~SessionMatches(b) /\ ~SessionOutdated(b)
  /\ Exists(u) /\ users[u].pwd # Unusable
  /\ users[u].active /\ ~users[u].deleted
  /\ Advance(t, [NoRequest EXCEPT !.op = "login", !.at = "loaded", !.browser = b,
                                  !.copy = users[u]])
  /\ UNCHANGED <<users, sessions, trail, renamed, issued, granted>>

(* LoginForm.clean: the credentials are right and the account is usable. *)
CheckCredentials(t, b, u) ==
  /\ req[t] = NoRequest
  /\ ~SessionMatches(b) /\ ~SessionOutdated(b)
  /\ Exists(u) /\ users[u].pwd # Unusable
  /\ users[u].active /\ ~users[u].deleted
  /\ Advance(t, [NoRequest EXCEPT !.op = "login", !.at = "loaded", !.browser = b,
                                  !.actor = u, !.target = u, !.copy = users[u]])
  /\ UNCHANGED <<users, sessions, trail, renamed, issued, granted>>

(* auth_login puts the hash of the instance into the session; the save that
   follows writes last_login_ip only. *)
StartSession(t) ==
  /\ req[t].op = "login" /\ req[t].at = "loaded"
  /\ sessions' = [sessions EXCEPT ![req[t].browser] =
                    [user |-> req[t].actor, pwd |-> req[t].copy.pwd]]
  /\ Finish(t)
  /\ UNCHANGED <<users, trail, renamed, issued, granted>>

Logout(b) ==
  /\ sessions[b] # NoSession
  /\ sessions' = [sessions EXCEPT ![b] = NoSession]
  /\ UNCHANGED <<users, req, trail, renamed, issued, granted>>

(* Any request of an active account whose hash has changed loses its session. *)
FlushSession(b) ==
  /\ SessionOutdated(b)
  /\ sessions' = [sessions EXCEPT ![b] = NoSession]
  /\ UNCHANGED <<users, req, trail, renamed, issued, granted>>

-----------------------------------------------------------------------------
(* Reading: the middleware, login_required and super_admin_required, _target. *)

AdmitOwn(t, b, op) ==
  /\ req[t] = NoRequest
  /\ SessionMatches(b) /\ MayEnter(sessions[b].user)
  /\ LET u == sessions[b].user
     IN  Advance(t, [NoRequest EXCEPT !.op = op, !.at = "loaded", !.browser = b,
                                      !.actor = u, !.target = u, !.copy = users[u]])
  /\ UNCHANGED <<users, sessions, trail, renamed, issued, granted>>

(* Mutant: login_required instead of super_admin_required. *)
AdmitAdmin_AnyRole(t, b, op) ==
  /\ req[t] = NoRequest
  /\ SessionMatches(b) /\ MayEnter(sessions[b].user)
  /\ Advance(t, [NoRequest EXCEPT !.op = op, !.at = "admitted", !.browser = b,
                                  !.actor = sessions[b].user])
  /\ UNCHANGED <<users, sessions, trail, renamed, issued, granted>>

AdmitAdmin(t, b, op) ==
  /\ req[t] = NoRequest
  /\ SessionMatches(b) /\ MayEnter(sessions[b].user)
  /\ users[sessions[b].user].role = SUPER_ADMIN
  /\ Advance(t, [NoRequest EXCEPT !.op = op, !.at = "admitted", !.browser = b,
                                  !.actor = sessions[b].user])
  /\ UNCHANGED <<users, sessions, trail, renamed, issued, granted>>

(* Mutant: deleted accounts can be targets. *)
LoadTarget_Deleted(t, u) ==
  /\ req[t].at = "admitted" /\ req[t].op \in TargetOp
  /\ Exists(u)
  /\ CanManage(req[t].actor, SUPER_ADMIN, u)
  /\ Advance(t, [req[t] EXCEPT !.at = "loaded", !.target = u, !.copy = users[u]])
  /\ UNCHANGED <<users, sessions, trail, renamed, issued, granted>>

LoadTarget(t, u) ==
  /\ req[t].at = "admitted" /\ req[t].op \in TargetOp
  /\ Exists(u) /\ ~users[u].deleted
  /\ CanManage(req[t].actor, SUPER_ADMIN, u)
  /\ Advance(t, [req[t] EXCEPT !.at = "loaded", !.target = u, !.copy = users[u]])
  /\ UNCHANGED <<users, sessions, trail, renamed, issued, granted>>

(* A GET, an invalid form, a 403, a 404 or a save that the unique index refuses ends the
   request before it writes; gunicorn may kill the worker, or the store fail, between
   any two steps. *)
Abandon(t) ==
  /\ req[t].at \in {"admitted", "loaded", "previous"} \/ (Faults /\ req[t].at # "idle")
  /\ Finish(t)
  /\ UNCHANGED <<users, sessions, trail, renamed, issued, granted>>

-----------------------------------------------------------------------------
(* Writing. *)

(* create_user, then its audit record. *)
InsertUser(t, u, email, role, active) ==
  /\ req[t].op = "create" /\ req[t].at = "admitted"
  /\ ~Exists(u) /\ CanRekey(u)
  /\ LET a == NewAccount(email, role, active, issued[u] + 1)
     IN  /\ WriteAll(u, a)
         /\ Advance(t, [req[t] EXCEPT !.at = "saved", !.target = u, !.copy = a])
  /\ Rekey(u)
  /\ granted' = [granted EXCEPT ![u] = granted[u] \cup {role}]
  /\ UNCHANGED <<sessions, trail>>

(* update_user reads the stored role for the audit log before it saves. *)
ReadPreviousRole(t) ==
  /\ req[t].op = "edit" /\ req[t].at = "loaded"
  /\ Advance(t, [req[t] EXCEPT !.at = "previous", !.prev = users[req[t].target].role])
  /\ UNCHANGED <<users, sessions, trail, renamed, issued, granted>>

(* UserUpdateForm.save: the fields of the form, and every other one as loaded. *)
SaveEdit(t, email, role, active) ==
  /\ req[t].op = "edit" /\ req[t].at = "previous"
  /\ LET u == req[t].target
         a == [req[t].copy EXCEPT !.email = email, !.role = role, !.active = active]
     IN  /\ WriteAll(u, a)
         /\ Advance(t, [req[t] EXCEPT !.at = "saved", !.copy = Normalised(a)])
         /\ granted' = [granted EXCEPT ![u] = granted[u] \cup {role}]
  /\ UNCHANGED <<sessions, trail, issued>>

(* Mutant: the previous role is taken from the instance the form has changed. *)
RecordAccount_SameInstance(t) ==
  /\ req[t].op \in {"create", "edit"} /\ req[t].at = "saved"
  /\ IF req[t].op = "create"
       THEN RecordRole(req[t].copy.email, req[t].copy.role)
       ELSE UNCHANGED trail
  /\ Finish(t)
  /\ UNCHANGED <<users, sessions, renamed, issued, granted>>

(* USER_CREATED carries the role; ROLE_CHANGED is written when it differs from
   the one read before the save. *)
RecordAccount(t) ==
  /\ req[t].op \in {"create", "edit"} /\ req[t].at = "saved"
  /\ IF req[t].copy.role # req[t].prev
       THEN RecordRole(req[t].copy.email, req[t].copy.role)
       ELSE UNCHANGED trail
  /\ Finish(t)
  /\ UNCHANGED <<users, sessions, renamed, issued, granted>>

(* Mutant: every reset gives the first password. *)
SavePassword_Default(t) ==
  /\ req[t].op = "password" /\ req[t].at = "loaded"
  /\ users' = [users EXCEPT ![req[t].target].pwd = 1]
  /\ Finish(t)
  /\ UNCHANGED <<sessions, trail, renamed, issued, granted>>

(* reset_password: update_fields=["password"]. *)
SavePassword(t) ==
  /\ req[t].op = "password" /\ req[t].at = "loaded"
  /\ LET u == req[t].target
     IN  /\ CanRekey(u) /\ Rekey(u)
         /\ users' = [users EXCEPT ![u].pwd = issued[u] + 1]
  /\ Finish(t)
  /\ UNCHANGED <<sessions, trail, renamed, granted>>

(* set_active: is_active is the negation of what was read; save() derives
   is_superuser from the role that was read and update_fields includes it. *)
SaveToggle(t) ==
  /\ req[t].op = "toggle" /\ req[t].at = "loaded"
  /\ LET a == Normalised(req[t].copy)
     IN  users' = [users EXCEPT ![req[t].target].active = ~a.active,
                                ![req[t].target].su = a.su]
  /\ Finish(t)
  /\ UNCHANGED <<sessions, trail, renamed, issued, granted>>

(* soft_delete: a full save of the instance, under an address of its own. *)
SaveDelete(t) ==
  /\ req[t].op = "delete" /\ req[t].at = "loaded"
  /\ WriteAll(req[t].target,
              [req[t].copy EXCEPT !.email = NoEmail, !.active = FALSE, !.deleted = TRUE,
                                  !.pwd = Unusable])
  /\ Finish(t)
  /\ UNCHANGED <<sessions, trail, issued, granted>>

(* Mutant: role is a field of the profile form. *)
SaveProfile_WithRole(t) ==
  /\ req[t].op = "profile" /\ req[t].at = "loaded"
  /\ \E r \in Role : WriteAll(req[t].actor, [req[t].copy EXCEPT !.role = r])
  /\ Finish(t)
  /\ UNCHANGED <<sessions, trail, issued, granted>>

(* profile_view, the profile form: a full save of request.user. *)
SaveProfile(t) ==
  /\ req[t].op = "profile" /\ req[t].at = "loaded"
  /\ WriteAll(req[t].actor, req[t].copy)
  /\ Finish(t)
  /\ UNCHANGED <<sessions, trail, issued, granted>>

(* profile_view, the password form: the new hash goes to the account, then to
   the session this request came with. *)
SaveOwnPassword(t) ==
  /\ req[t].op = "own_password" /\ req[t].at = "loaded"
  /\ req[t].copy.pwd # Unusable
  /\ LET u == req[t].actor
     IN  /\ CanRekey(u) /\ Rekey(u)
         /\ users' = [users EXCEPT ![u].pwd = issued[u] + 1]
         /\ Advance(t, [req[t] EXCEPT !.at = "saved", !.copy.pwd = issued[u] + 1])
  /\ UNCHANGED <<sessions, trail, renamed, granted>>

UpdateSessionHash(t) ==
  /\ req[t].op = "own_password" /\ req[t].at = "saved"
  /\ sessions' = [sessions EXCEPT ![req[t].browser] =
                    [user |-> req[t].actor, pwd |-> req[t].copy.pwd]]
  /\ Finish(t)
  /\ UNCHANGED <<users, trail, renamed, issued, granted>>

-----------------------------------------------------------------------------
Read(t) ==
  \/ \E b \in setting.browsers, u \in Users : CheckCredentials(t, b, u)
  \/ \E b \in setting.browsers, op \in OwnOp \cap setting.handlers : AdmitOwn(t, b, op)
  \/ \E b \in setting.browsers, op \in AdminOp \cap setting.handlers : AdmitAdmin(t, b, op)
  \/ \E u \in Users : LoadTarget(t, u)
  \/ ReadPreviousRole(t)
  \/ Abandon(t)

Write(t) ==
  \/ StartSession(t)
  \/ \E u \in setting.accounts, e \in setting.emails, r \in Role, a \in BOOLEAN :
        InsertUser(t, u, e, r, a)
  \/ \E e \in setting.emails, r \in Role, a \in BOOLEAN : SaveEdit(t, e, r, a)
  \/ RecordAccount(t)
  \/ SavePassword(t)
  \/ SaveToggle(t)
  \/ SaveDelete(t)
  \/ SaveProfile(t)
  \/ SaveOwnPassword(t)
  \/ UpdateSessionHash(t)

Workers == setting.threads

Next ==
  /\ UNCHANGED setting
  /\ \/ \E t \in Workers : Read(t) \/ Write(t)
     \/ \E b \in setting.browsers : Logout(b) \/ FlushSession(b)

Spec == Init /\ [][Next]_vars

-----------------------------------------------------------------------------
(* Properties. *)

TypeOK ==
  /\ setting \in Settings
  /\ users \in [Users -> Account \cup {Absent}]
  /\ sessions \in [Browsers -> Session \cup {NoSession}]
  /\ req \in [Threads -> Request]
  /\ trail \in [Emails -> Role \cup {NoRole}]
  /\ renamed \subseteq Users
  /\ issued \in [Users -> Password]
  /\ granted \in [Users -> SUBSET Role]

(* One request at a time. *)
Serial == \A s, t \in Workers : s = t

Effective(u) == Exists(u) /\ users[u].active /\ ~users[u].deleted

(* models.py:175-179, admin_views.py:24-38.  Because nobody manages the own
   account, the platform always keeps a super admin who can sign in, as long as
   requests do not overlap: whoever demotes, deactivates or deletes the others
   is one. *)
SuperAdminRemains ==
  Serial => \E u \in Users : Effective(u) /\ users[u].role = SUPER_ADMIN

(* services.py:76-89.  One request at a time, a deleted account stays deleted:
   _target refuses it and it cannot sign in, so no request that starts later brings
   it back. *)
DeletedIsFinal ==
  [][Serial => \A u \in Users : Exists(u) /\ users[u].deleted => users'[u] = users[u]]_users

(* services.py:15-49, 83-88, forms.py:155-159, 205-209.  Who looks an account up in
   the log by its email finds the role it has, except while the request that changed
   it is about to record: the record goes under the email that was saved, and neither
   an account that had the email before and was renamed or deleted, nor its records,
   can stand in the way.  This is said of accounts whose email nobody changed: the log
   does not tell which account an entry under a former email was about. *)
TrailShowsRole ==
  Serial => \A u \in Users \ renamed : Exists(u) /\ ~users[u].deleted =>
     \/ trail[users[u].email] = users[u].role
     \/ \E t \in Threads : req[t].at = "saved" /\ req[t].target = u

(* forms.py:187-188: "Edit an existing user without ever touching the password
   hash." *)
EditKeepsPassword ==
  [][\A t \in Threads, e \in Emails, r \in Role, a \in BOOLEAN :
        SaveEdit(t, e, r, a)
          => users'[req[t].target].pwd = users[req[t].target].pwd]_vars

(* models.py:175-179, forms.py:187-216, 244-259.  However requests overlap, an
   account only ever holds a role that an administrator's form gave it: a write
   of a stale copy can restore an old role, none can invent one. *)
RoleWasGranted ==
  \A u \in Users : Exists(u) => users[u].role \in granted[u]

(* permissions.py:31-44, models.py:175-179.  However requests overlap, every role is
   given by another account, one that was itself made super admin before. *)
GrantedByAnotherAdmin ==
  [][\A u \in Users : granted'[u] # granted[u] =>
        \E t \in Threads :
           /\ req[t].actor # u
           /\ req[t].actor \in Users
           /\ SUPER_ADMIN \in granted[req[t].actor]]_granted

(* An account as the abstract book has it. *)
Entry == [role : Role, active : BOOLEAN, pwd : Password]

ASSUME MarksAreNoEntries == {Absent, NoUser} \cap Entry = {}

Shelf ==
  [u \in Users |->
     IF ~Exists(u) THEN Absent
     ELSE IF users[u].deleted THEN NoUser
     ELSE [role |-> users[u].role, active |-> users[u].active, pwd |-> users[u].pwd]]

Book == INSTANCE AccountBook WITH None <- Absent, Closed <- NoUser, book <- Shelf

(* services.py:15-94, admin_views.py:24-38, views.py:67-93.  One request at a
   time, every handler, from the read of the session to the last write, amounts
   to one step of AccountBook: one change, to one account, by somebody entitled
   to it when it takes effect. *)
KeepsTheBook == (Serial => Book!Init) /\ [][Serial => Book!Next]_Shelf
=============================================================================
