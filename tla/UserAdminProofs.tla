--------------------------- MODULE UserAdminProofs ---------------------------
(***************************************************************************)
(* What holds of UserAdmin for every number of accounts, threads, browsers *)
(* and passwords, however requests overlap, workers die and audit records  *)
(* are lost.                                                               *)
(*                                                                         *)
(* A request works on a copy of an account that it loaded some time ago.   *)
(* That copy may be outdated, but the account it will be written to is the *)
(* one it was loaded from (Loaded), the role in it is one that account was *)
(* given (CopyGranted), and whoever sent a request to administer accounts  *)
(* was given the super admin role and works on another one (Entitled).     *)
(*                                                                         *)
(* The last part is about settings in which requests do not overlap        *)
(* (Serial): they keep a super admin, never touch a deleted account, keep  *)
(* the log right, and implement AccountBook.                               *)
(***************************************************************************)
EXTENDS UserAdmin, TLAPS

Begun(t) == req[t].at # "idle"
HasCopy(t) == req[t].at \in {"loaded", "previous", "saved"}

Known(t) == Begun(t) => req[t].actor \in Users /\ Exists(req[t].actor)

Loaded(t) == HasCopy(t) =>
  /\ req[t].target \in Users /\ Exists(req[t].target)
  /\ req[t].copy \in Account
  /\ req[t].op \in OwnOp => req[t].target = req[t].actor

CopyGranted(t) == HasCopy(t) => req[t].copy.role \in granted[req[t].target]

Entitled(t) == Begun(t) /\ req[t].op \in AdminOp =>
  /\ SUPER_ADMIN \in granted[req[t].actor]
  /\ HasCopy(t) => req[t].target # req[t].actor

Sound(t) == Known(t) /\ Loaded(t) /\ CopyGranted(t) /\ Entitled(t)

SessionsKnown == \A b \in Browsers : sessions[b] # NoSession => Exists(sessions[b].user)

(* Threads that the setting does not have are never asked anything. *)
Asleep == \A t \in Threads \ Workers : req[t] = NoRequest

IInv ==
  /\ TypeOK
  /\ Asleep
  /\ \A t \in Threads : Sound(t)
  /\ SessionsKnown
  /\ RoleWasGranted

(* What a step does to the accounts: nothing, or it writes one of them, with a
   role that was given to it; a role that was given stays given. *)
Writes ==
  /\ \A u \in Users : granted[u] \subseteq granted'[u]
  /\ \/ UNCHANGED users
     \/ \E u \in Users, a \in Account :
           users' = [users EXCEPT ![u] = a] /\ a.role \in granted'[u]

(* The steps of a thread in any setting. *)
AnyRead(t) ==
  \/ \E b \in Browsers, u \in Users : CheckCredentials(t, b, u)
  \/ \E b \in Browsers, op \in OwnOp : AdmitOwn(t, b, op)
  \/ \E b \in Browsers, op \in AdminOp : AdmitAdmin(t, b, op)
  \/ \E u \in Users : LoadTarget(t, u)
  \/ ReadPreviousRole(t)
  \/ Abandon(t)

AnyWrite(t) ==
  \/ StartSession(t)
  \/ \E u \in Users, e \in Emails, r \in Role, a \in BOOLEAN : InsertUser(t, u, e, r, a)
  \/ \E e \in Emails, r \in Role, a \in BOOLEAN : SaveEdit(t, e, r, a)
  \/ RecordAccount(t)
  \/ SavePassword(t)
  \/ SaveToggle(t)
  \/ SaveDelete(t)
  \/ SaveProfile(t)
  \/ SaveOwnPassword(t)
  \/ UpdateSessionHash(t)

-----------------------------------------------------------------------------
LEMMA SettingParts ==
  ASSUME TypeOK
  PROVE  /\ Workers \subseteq Threads /\ setting.browsers \subseteq Browsers
         /\ setting.accounts \subseteq Users /\ setting.emails \subseteq Emails
         /\ setting.handlers \subseteq AdminOp \cup OwnOp
BY SettingsOK DEF TypeOK, Setting, Workers

LEMMA Wider ==
  ASSUME TypeOK, Next
  PROVE  /\ setting' = setting
         /\ \/ \E t \in Workers : t \in Threads /\ (AnyRead(t) \/ AnyWrite(t))
            \/ \E b \in Browsers : Logout(b) \/ FlushSession(b)
<1>1. ASSUME NEW t \in Workers, Read(t) PROVE t \in Threads /\ AnyRead(t)
  BY <1>1, SettingParts DEF Read, AnyRead
<1>2. ASSUME NEW t \in Workers, Write(t) PROVE t \in Threads /\ AnyWrite(t)
  BY <1>2, SettingParts DEF Write, AnyWrite
<1>3. QED
  BY <1>1, <1>2, SettingParts DEF Next

LEMMA NormalisedAccount ==
  ASSUME NEW a \in Account
  PROVE  /\ Normalised(a) \in Account
         /\ Normalised(a).role = a.role /\ Normalised(a).email = a.email
BY DEF Normalised, Account

(* What create_user stores is a new account, and saving it again changes nothing. *)
LEMMA NewIsAccount ==
  ASSUME NEW email \in Emails, NEW role \in Role, NEW active \in BOOLEAN, NEW pwd \in Password
  PROVE  /\ NewAccount(email, role, active, pwd) \in Account
         /\ NewAccount(email, role, active, pwd).email = email
         /\ NewAccount(email, role, active, pwd).role = role
         /\ NewAccount(email, role, active, pwd).active = active
         /\ ~NewAccount(email, role, active, pwd).deleted
         /\ NewAccount(email, role, active, pwd).pwd = pwd
         /\ Normalised(NewAccount(email, role, active, pwd))
              = NewAccount(email, role, active, pwd)
<1> DEFINE b == [email |-> email, role |-> role, active |-> active, deleted |-> FALSE,
                 pwd |-> pwd, su |-> FALSE]
           a == NewAccount(email, role, active, pwd)
<1>1. /\ b \in Account
      /\ b.email = email /\ b.role = role /\ b.active = active /\ ~b.deleted /\ b.pwd = pwd
  BY DEF Account
<1>2. a = [b EXCEPT !.su = (b.role = SUPER_ADMIN)]
  BY DEF NewAccount, Normalised
<1> HIDE DEF b
<1>3. /\ a \in Account
      /\ a.email = email /\ a.role = role /\ a.active = active /\ ~a.deleted /\ a.pwd = pwd
      /\ a.su = (a.role = SUPER_ADMIN)
  BY <1>1, <1>2 DEF Account
<1> HIDE DEF a
<1>4. [a EXCEPT !.su = a.su] = a
  BY <1>3 DEF Account
<1>5. Normalised(a) = a
  BY <1>3, <1>4 DEF Normalised
<1>6. QED
  BY <1>3, <1>5 DEF a

(* One of the first accounts. *)
LEMMA StartsRight ==
  ASSUME Init, NEW u \in Users, Exists(u)
  PROVE  /\ users[u] \in Account /\ users[u].active /\ ~users[u].deleted
         /\ users[u].pwd = 1 /\ users[u].email \in Emails
<1>1. setting.emails \subseteq Emails
  BY SettingsOK DEF Init, Setting
<1>f. users[u] \in FirstAccount
  BY DEF Init, Exists
<1>2. PICK e \in Emails, r \in Role : users[u] = NewAccount(e, r, TRUE, 1)
  BY <1>f, <1>1 DEF FirstAccount
<1>3. 1 \in Password
  BY MaxPwdPos DEF Password
<1>y. PICK yes \in BOOLEAN : yes = TRUE
  OBVIOUS
<1> DEFINE a == NewAccount(e, r, yes, 1)
<1>4. users[u] = a
  BY <1>2, <1>y, Zenon
<1>5. /\ a \in Account /\ a.active = yes /\ ~a.deleted
      /\ a.pwd = 1 /\ a.email = e
  BY <1>3, NewIsAccount
<1> HIDE DEF a
<1>6. a.active
  BY <1>5, <1>y, Zenon
<1>7. QED
  BY <1>4, <1>5, <1>6

LEMMA TypeOKInit == Init => TypeOK
<1> SUFFICES ASSUME Init PROVE TypeOK
  OBVIOUS
<1>2. users \in [Users -> Account \cup {Absent}]
  <2>1. users \in [Users -> FirstAccount \cup {Absent}]
    BY DEF Init
  <2>2. \A u \in Users : users[u] \in Account \cup {Absent}
    BY StartsRight DEF Exists
  <2>3. QED
    BY <2>1, <2>2
<1>3. \A u \in Users : Exists(u) => users[u].role \in Role
  BY <1>2 DEF Exists, Account
<1>4. NoRequest \in Request
  BY DEF NoRequest, Request, Op, Stage
<1>5. issued \in [Users -> Password]
  BY MaxPwdPos DEF Init, Password
<1>6. granted \in [Users -> SUBSET Role]
  BY <1>3 DEF Init
<1>7. QED
  BY <1>2, <1>4, <1>5, <1>6 DEF Init, TypeOK

(* Every write, by the instance that reaches the store. *)
LEMMA WritesStep ==
  ASSUME IInv, [Next]_vars
  PROVE  Writes
<1> USE DEF IInv
<1>1. ASSUME NEW t \in Threads, NEW u \in Users, NEW email \in Emails, NEW role \in Role,
             NEW active \in BOOLEAN, InsertUser(t, u, email, role, active)
      PROVE  Writes
  <2> DEFINE a == NewAccount(email, role, active, issued[u] + 1)
  <2>1. issued[u] + 1 \in Password
    BY <1>1, MaxPwdPos DEF InsertUser, CanRekey, TypeOK, Password
  <2>2. a \in Account /\ a.role = role
    BY <2>1, NewIsAccount
  <2>3. users' = [users EXCEPT ![u] = Normalised(a)]
    BY <1>1 DEF InsertUser, WriteAll
  <2> HIDE DEF a
  <2>4. role \in granted'[u] /\ \A v \in Users : granted[v] \subseteq granted'[v]
    BY <1>1 DEF InsertUser, TypeOK
  <2>5. QED
    BY <2>2, <2>3, <2>4, NormalisedAccount DEF Writes
<1>2. ASSUME NEW t \in Threads, NEW email \in Emails, NEW role \in Role, NEW active \in BOOLEAN,
             SaveEdit(t, email, role, active)
      PROVE  Writes
  <2> DEFINE u == req[t].target
             a == [req[t].copy EXCEPT !.email = email, !.role = role, !.active = active]
  <2>1. u \in Users /\ req[t].copy \in Account
    BY <1>2 DEF SaveEdit, Sound, Loaded, HasCopy
  <2>2. a \in Account /\ a.role = role
    BY <2>1 DEF Account
  <2>3. users' = [users EXCEPT ![u] = Normalised(a)]
    BY <1>2 DEF SaveEdit, WriteAll
  <2>4. role \in granted'[u] /\ \A v \in Users : granted[v] \subseteq granted'[v]
    BY <1>2, <2>1 DEF SaveEdit, TypeOK
  <2>5. Normalised(a) \in Account /\ Normalised(a).role = role
    BY <2>2, NormalisedAccount
  <2> HIDE DEF a
  <2>6. QED
    BY <2>1, <2>3, <2>4, <2>5 DEF Writes
<1>3. ASSUME NEW t \in Threads, SavePassword(t)
      PROVE  Writes
  <2> DEFINE u == req[t].target
             a == [users[u] EXCEPT !.pwd = issued[u] + 1]
  <2>1. u \in Users /\ users[u] \in Account /\ users[u].role \in granted[u]
    BY <1>3 DEF SavePassword, Sound, Loaded, HasCopy, Exists, TypeOK, RoleWasGranted
  <2>2. issued[u] + 1 \in Password
    BY <1>3, <2>1, MaxPwdPos DEF SavePassword, CanRekey, TypeOK, Password
  <2>3. a \in Account /\ a.role = users[u].role
    BY <2>1, <2>2 DEF Account
  <2>4. users' = [users EXCEPT ![u] = a] /\ granted' = granted
    BY <1>3, <2>1 DEF SavePassword, TypeOK
  <2>5. QED
    BY <2>1, <2>3, <2>4 DEF Writes
<1>4. ASSUME NEW t \in Threads, SaveToggle(t)
      PROVE  Writes
  <2> DEFINE u == req[t].target
             b == Normalised(req[t].copy)
             a == [users[u] EXCEPT !.active = ~b.active, !.su = b.su]
  <2>1. u \in Users /\ users[u] \in Account /\ users[u].role \in granted[u] /\ b \in Account
    BY <1>4, NormalisedAccount
    DEF SaveToggle, Sound, Loaded, HasCopy, Exists, TypeOK, RoleWasGranted
  <2>2. a \in Account /\ a.role = users[u].role
    BY <2>1 DEF Account
  <2>3. users' = [users EXCEPT ![u] = a] /\ granted' = granted
    BY <1>4, <2>1 DEF SaveToggle, TypeOK
  <2>4. QED
    BY <2>1, <2>2, <2>3 DEF Writes
<1>5. ASSUME NEW t \in Threads, SaveDelete(t)
      PROVE  Writes
  <2> DEFINE u == req[t].target
             a == [req[t].copy EXCEPT !.email = NoEmail, !.active = FALSE, !.deleted = TRUE,
                                 !.pwd = Unusable]
  <2>1. u \in Users /\ req[t].copy \in Account /\ req[t].copy.role \in granted[u]
    BY <1>5 DEF SaveDelete, Sound, Loaded, CopyGranted, HasCopy
  <2>2. Unusable \in Password
    BY MaxPwdPos DEF Unusable, Password
  <2>3. a \in Account /\ a.role = req[t].copy.role
    BY <2>1, <2>2 DEF Account
  <2>4. users' = [users EXCEPT ![u] = Normalised(a)] /\ granted' = granted
    BY <1>5 DEF SaveDelete, WriteAll
  <2>5. QED
    BY <2>1, <2>3, <2>4, NormalisedAccount DEF Writes
<1>6. ASSUME NEW t \in Threads, SaveProfile(t)
      PROVE  Writes
  <2> DEFINE u == req[t].actor
  <2>1. u \in Users /\ req[t].copy \in Account /\ req[t].copy.role \in granted[u]
    BY <1>6 DEF SaveProfile, Sound, Loaded, CopyGranted, HasCopy, OwnOp
  <2>2. users' = [users EXCEPT ![u] = Normalised(req[t].copy)] /\ granted' = granted
    BY <1>6 DEF SaveProfile, WriteAll
  <2>3. QED
    BY <2>1, <2>2, NormalisedAccount DEF Writes
<1>7. ASSUME NEW t \in Threads, SaveOwnPassword(t)
      PROVE  Writes
  <2> DEFINE u == req[t].actor
             a == [users[u] EXCEPT !.pwd = issued[u] + 1]
  <2>1. u \in Users /\ users[u] \in Account /\ users[u].role \in granted[u]
    BY <1>7 DEF SaveOwnPassword, Sound, Known, Begun, Exists, TypeOK, RoleWasGranted
  <2>2. issued[u] + 1 \in Password
    BY <1>7, <2>1, MaxPwdPos DEF SaveOwnPassword, CanRekey, TypeOK, Password
  <2>3. a \in Account /\ a.role = users[u].role
    BY <2>1, <2>2 DEF Account
  <2>4. users' = [users EXCEPT ![u] = a] /\ granted' = granted
    BY <1>7, <2>1 DEF SaveOwnPassword, TypeOK
  <2>5. QED
    BY <2>1, <2>3, <2>4 DEF Writes
<1>8. ASSUME NEW t \in Threads, ReadPreviousRole(t) \/ Abandon(t) \/ StartSession(t)
                                  \/ RecordAccount(t) \/ UpdateSessionHash(t)
      PROVE  Writes
  BY <1>8 DEF ReadPreviousRole, Abandon, StartSession, RecordAccount, UpdateSessionHash, Writes
<1>9. ASSUME NEW t \in Threads, NEW b \in Browsers, NEW u \in Users, CheckCredentials(t, b, u)
      PROVE  Writes
  BY <1>9 DEF CheckCredentials, Writes
<1>10. ASSUME NEW t \in Threads, NEW b \in Browsers, NEW op \in Op,
              AdmitOwn(t, b, op) \/ AdmitAdmin(t, b, op)
       PROVE  Writes
  BY <1>10 DEF AdmitOwn, AdmitAdmin, Writes
<1>11. ASSUME NEW t \in Threads, NEW u \in Users, LoadTarget(t, u)
       PROVE  Writes
  BY <1>11 DEF LoadTarget, Writes
<1>12. ASSUME NEW b \in Browsers, Logout(b) \/ FlushSession(b)
       PROVE  Writes
  BY <1>12 DEF Logout, FlushSession, Writes
<1>13. CASE UNCHANGED vars
  BY <1>13 DEF vars, Writes
<1>14. QED
  BY <1>1, <1>2, <1>3, <1>4, <1>5, <1>6, <1>7, <1>8, <1>9, <1>10, <1>11, <1>12, <1>13,
     Wider DEF AnyRead, AnyWrite, Op

LEMMA TypeOKStep ==
  ASSUME IInv, Writes, [Next]_vars
  PROVE  TypeOK'
<1> USE DEF IInv
<1>u. users' \in [Users -> Account \cup {Absent}]
  BY DEF Writes, TypeOK
<1>z. setting' \in Settings
  BY Wider DEF vars, TypeOK
<1>r. ASSUME NEW u \in Users, NEW a, WriteAll(u, a) PROVE renamed' \subseteq Users
  BY <1>r DEF WriteAll, TypeOK
<1> USE <1>z
<1>n. NoRequest \in Request
  BY DEF NoRequest, Request, Op, Stage
<1>f. ASSUME NEW t \in Threads, Finish(t) PROVE req' \in [Threads -> Request]
  BY <1>f, <1>n DEF Finish, Advance, TypeOK
<1>1. ASSUME NEW t \in Threads, NEW b \in Browsers, NEW u \in Users, CheckCredentials(t, b, u)
      PROVE  TypeOK'
  <2>1. users[u] \in Account
    BY <1>1 DEF CheckCredentials, Exists, TypeOK
  <2>2. req' \in [Threads -> Request]
    BY <1>1, <2>1 DEF CheckCredentials, Advance, NoRequest, Request, Op, Stage, TypeOK
  <2>3. QED
    BY <1>1, <2>2 DEF CheckCredentials, TypeOK
<1>2. ASSUME NEW t \in Threads, NEW b \in Browsers, NEW op \in OwnOp, AdmitOwn(t, b, op)
      PROVE  TypeOK'
  <2>1. sessions[b].user \in Users /\ users[sessions[b].user] \in Account
    BY <1>2 DEF AdmitOwn, SessionMatches, SessionsKnown, Exists, TypeOK, Session
  <2>2. req' \in [Threads -> Request]
    BY <1>2, <2>1 DEF AdmitOwn, Advance, NoRequest, Request, Op, Stage, TypeOK
  <2>3. QED
    BY <1>2, <2>2 DEF AdmitOwn, TypeOK
<1>3. ASSUME NEW t \in Threads, NEW b \in Browsers, NEW op \in AdminOp, AdmitAdmin(t, b, op)
      PROVE  TypeOK'
  <2>1. sessions[b].user \in Users
    BY <1>3 DEF AdmitAdmin, SessionMatches, TypeOK, Session
  <2>2. req' \in [Threads -> Request]
    BY <1>3, <2>1 DEF AdmitAdmin, Advance, NoRequest, Request, Op, Stage, TypeOK
  <2>3. QED
    BY <1>3, <2>2 DEF AdmitAdmin, TypeOK
<1>4. ASSUME NEW t \in Threads, NEW u \in Users, LoadTarget(t, u)
      PROVE  TypeOK'
  <2>1. users[u] \in Account
    BY <1>4 DEF LoadTarget, Exists, TypeOK
  <2>2. req' \in [Threads -> Request]
    <3>1. req[t] \in Request
      BY DEF TypeOK
    <3>2. [req[t] EXCEPT !.at = "loaded", !.target = u, !.copy = users[u]] \in Request
      BY <3>1, <2>1 DEF Request, Stage
    <3>3. QED
      BY <1>4, <3>2 DEF LoadTarget, Advance, TypeOK
  <2>3. QED
    BY <1>4, <2>2 DEF LoadTarget, TypeOK
<1>5. ASSUME NEW t \in Threads, ReadPreviousRole(t)
      PROVE  TypeOK'
  <2>1. users[req[t].target].role \in Role
    BY <1>5 DEF ReadPreviousRole, Sound, Loaded, HasCopy, Exists, TypeOK, Account
  <2>2. req' \in [Threads -> Request]
    <3>1. req[t] \in Request
      BY DEF TypeOK
    <3>2. [req[t] EXCEPT !.at = "previous", !.prev = users[req[t].target].role] \in Request
      BY <3>1, <2>1 DEF Request, Stage
    <3>3. QED
      BY <1>5, <3>2 DEF ReadPreviousRole, Advance, TypeOK
  <2>3. QED
    BY <1>5, <2>2 DEF ReadPreviousRole, TypeOK
<1>6. ASSUME NEW t \in Threads, Abandon(t)
      PROVE  TypeOK'
  BY <1>6, <1>f DEF Abandon, TypeOK
<1>7. ASSUME NEW t \in Threads, StartSession(t)
      PROVE  TypeOK'
  <2>1. [user |-> req[t].actor, pwd |-> req[t].copy.pwd] \in Session
    BY <1>7 DEF StartSession, Sound, Known, Loaded, Begun, HasCopy, Session, Account
  <2>2. QED
    BY <1>7, <1>f, <2>1 DEF StartSession, TypeOK
<1>8. ASSUME NEW t \in Threads, NEW u \in Users, NEW email \in Emails, NEW role \in Role,
             NEW active \in BOOLEAN, InsertUser(t, u, email, role, active)
      PROVE  TypeOK'
  <2> DEFINE a == NewAccount(email, role, active, issued[u] + 1)
  <2>1. issued[u] + 1 \in Password
    BY <1>8, MaxPwdPos DEF InsertUser, CanRekey, TypeOK, Password
  <2>2. a \in Account
    BY <2>1, NewIsAccount
  <2> HIDE DEF a
  <2>3. req' \in [Threads -> Request]
    <3>1. req[t] \in Request
      BY DEF TypeOK
    <3>2. [req[t] EXCEPT !.at = "saved", !.target = u, !.copy = a] \in Request
      BY <3>1, <2>2 DEF Request, Stage
    <3>3. QED
      BY <1>8, <3>2 DEF InsertUser, Advance, TypeOK, a
  <2>4. issued' \in [Users -> Password] /\ granted' \in [Users -> SUBSET Role]
    BY <1>8, <2>1 DEF InsertUser, Rekey, TypeOK
  <2>5. QED
    BY <1>8, <1>u, <1>r, <2>3, <2>4 DEF InsertUser, TypeOK
<1>9. ASSUME NEW t \in Threads, NEW email \in Emails, NEW role \in Role, NEW active \in BOOLEAN,
             SaveEdit(t, email, role, active)
      PROVE  TypeOK'
  <2> DEFINE a == [req[t].copy EXCEPT !.email = email, !.role = role, !.active = active]
  <2>0. req[t].target \in Users
    BY <1>9 DEF SaveEdit, Sound, Loaded, HasCopy
  <2>1. req[t].copy \in Account
    BY <1>9 DEF SaveEdit, Sound, Loaded, HasCopy
  <2>2. Normalised(a) \in Account
    BY <2>1 DEF Normalised, Account
  <2>3. req' \in [Threads -> Request]
    <3>1. req[t] \in Request
      BY DEF TypeOK
    <3>2. [req[t] EXCEPT !.at = "saved", !.copy = Normalised(a)] \in Request
      BY <3>1, <2>2 DEF Request, Stage
    <3>3. QED
      BY <1>9, <3>2 DEF SaveEdit, Advance, TypeOK
  <2>4. granted' \in [Users -> SUBSET Role]
    BY <1>9 DEF SaveEdit, TypeOK
  <2>5. QED
    BY <1>9, <1>u, <1>r, <2>0, <2>3, <2>4 DEF SaveEdit, TypeOK
<1>10. ASSUME NEW t \in Threads, RecordAccount(t)
       PROVE  TypeOK'
  <2>1. req[t].copy.role \in Role
    BY <1>10 DEF RecordAccount, Sound, Loaded, HasCopy, Account
  <2>2. trail' \in [Emails -> Role \cup {NoRole}]
    BY <1>10, <2>1 DEF RecordAccount, RecordRole, TypeOK
  <2>3. QED
    BY <1>10, <1>f, <2>2 DEF RecordAccount, TypeOK
<1>11. ASSUME NEW t \in Threads, SavePassword(t)
       PROVE  TypeOK'
  <2> DEFINE u == req[t].target
  <2>1. u \in Users
    BY <1>11 DEF SavePassword, Sound, Loaded, HasCopy
  <2>2. issued[u] + 1 \in Password
    BY <1>11, <2>1, MaxPwdPos DEF SavePassword, CanRekey, TypeOK, Password
  <2>3. issued' \in [Users -> Password]
    BY <1>11, <2>2 DEF SavePassword, Rekey, TypeOK
  <2>4. QED
    BY <1>11, <1>f, <1>u, <2>3 DEF SavePassword, TypeOK
<1>12. ASSUME NEW t \in Threads, SaveToggle(t) \/ SaveDelete(t) \/ SaveProfile(t)
       PROVE  TypeOK'
  <2>1. req[t].target \in Users /\ req[t].actor \in Users
    BY <1>12 DEF SaveToggle, SaveDelete, SaveProfile, Sound, Known, Loaded, Begun, HasCopy
  <2>2. renamed' \subseteq Users
    BY <1>12, <1>r, <2>1 DEF SaveToggle, SaveDelete, SaveProfile, TypeOK
  <2>3. QED
    BY <1>12, <1>f, <1>u, <2>2 DEF SaveToggle, SaveDelete, SaveProfile, TypeOK
<1>13. ASSUME NEW t \in Threads, SaveOwnPassword(t)
       PROVE  TypeOK'
  <2> DEFINE u == req[t].actor
  <2>1. u \in Users /\ req[t].copy \in Account
    BY <1>13 DEF SaveOwnPassword, Sound, Known, Loaded, Begun, HasCopy
  <2>2. issued[u] + 1 \in Password
    BY <1>13, <2>1, MaxPwdPos DEF SaveOwnPassword, CanRekey, TypeOK, Password
  <2>3. [req[t].copy EXCEPT !.pwd = issued[u] + 1] \in Account
    BY <2>1, <2>2 DEF Account
  <2>4. req' \in [Threads -> Request]
    <3>1. req[t] \in Request
      BY DEF TypeOK
    <3>2. [req[t] EXCEPT !.at = "saved",
                         !.copy = [req[t].copy EXCEPT !.pwd = issued[u] + 1]] \in Request
      BY <3>1, <2>3 DEF Request, Stage
    <3>3. req' = [req EXCEPT ![t] =
                    [req[t] EXCEPT !.at = "saved",
                                   !.copy = [req[t].copy EXCEPT !.pwd = issued[u] + 1]]]
      BY <1>13, <3>1 DEF SaveOwnPassword, Advance, Request
    <3>4. QED
      BY <3>2, <3>3 DEF TypeOK
  <2>5. issued' \in [Users -> Password]
    BY <1>13, <2>2 DEF SaveOwnPassword, Rekey, TypeOK
  <2>6. QED
    BY <1>13, <1>u, <2>4, <2>5 DEF SaveOwnPassword, TypeOK
<1>14. ASSUME NEW t \in Threads, UpdateSessionHash(t)
       PROVE  TypeOK'
  <2>1. [user |-> req[t].actor, pwd |-> req[t].copy.pwd] \in Session
    BY <1>14 DEF UpdateSessionHash, Sound, Known, Loaded, Begun, HasCopy, Session, Account
  <2>2. QED
    BY <1>14, <1>f, <2>1 DEF UpdateSessionHash, TypeOK
<1>15. ASSUME NEW b \in Browsers, Logout(b) \/ FlushSession(b)
       PROVE  TypeOK'
  BY <1>15 DEF Logout, FlushSession, TypeOK
<1>16. CASE UNCHANGED vars
  BY <1>16 DEF vars, TypeOK
<1>17. QED
  BY <1>1, <1>2, <1>3, <1>4, <1>5, <1>6, <1>7, <1>8, <1>9, <1>10, <1>11, <1>12, <1>13,
     <1>14, <1>15, <1>16, Wider
  DEF AnyRead, AnyWrite

(* A thread whose request does not move is not disturbed by the writes of others. *)
LEMMA Undisturbed ==
  ASSUME IInv, Writes, NEW t \in Threads, req'[t] = req[t]
  PROVE  Sound(t)'
<1>1. \A u \in Users : Exists(u) => Exists(u)'
  BY AbsentIsNoAccount DEF Writes, Exists, IInv, TypeOK
<1>2. \A u \in Users : granted[u] \subseteq granted'[u]
  BY DEF Writes
<1>3. QED
  BY <1>1, <1>2 DEF IInv, Sound, Known, Loaded, CopyGranted, Entitled, Begun, HasCopy

(* Nothing is asked of an idle thread. *)
LEMMA Idle ==
  ASSUME TypeOK, NEW t \in Threads, Finish(t)
  PROVE  Sound(t)'
<1>1. req'[t] = NoRequest
  BY DEF Finish, Advance, TypeOK
<1>2. QED
  BY <1>1 DEF NoRequest, Sound, Known, Loaded, CopyGranted, Entitled, Begun, HasCopy

LEMMA SoundStep ==
  ASSUME IInv, Writes, [Next]_vars, NEW s \in Threads
  PROVE  Sound(s)'
<1> USE DEF IInv
<1>e. \A u \in Users : Exists(u) => Exists(u)'
  BY AbsentIsNoAccount DEF Writes, Exists, TypeOK
<1>g. \A u \in Users : granted[u] \subseteq granted'[u]
  BY DEF Writes
<1>o. ASSUME NEW t \in Threads, NEW r, Advance(t, r), s # t PROVE Sound(s)'
  <2>1. req'[s] = req[s]
    BY <1>o DEF Advance, TypeOK
  <2>2. QED
    BY <2>1, Undisturbed
<1>m. ASSUME NEW t \in Threads, NEW r, Advance(t, r) PROVE req'[t] = r
  BY <1>m DEF Advance, TypeOK
<1>f. ASSUME NEW t \in Threads, Finish(t) PROVE Sound(s)'
  BY <1>f, <1>o, Idle DEF Finish
<1>1. ASSUME NEW t \in Threads, NEW b \in Browsers, NEW u \in Users, CheckCredentials(t, b, u)
      PROVE  Sound(s)'
  <2> DEFINE r == [NoRequest EXCEPT !.op = "login", !.at = "loaded", !.browser = b,
                                    !.actor = u, !.target = u, !.copy = users[u]]
  <2>1. Advance(t, r) /\ UNCHANGED <<users, granted>> /\ Exists(u)
    BY <1>1 DEF CheckCredentials
  <2>2. users[u] \in Account /\ users[u].role \in granted[u]
    BY <2>1 DEF Exists, TypeOK, RoleWasGranted
  <2>3. /\ r.at = "loaded" /\ r.op = "login"
        /\ r.actor = u /\ r.target = u /\ r.copy = users[u]
    BY DEF NoRequest
  <2> HIDE DEF r
  <2>4. CASE s = t
    <3>1. req'[t] = r
      BY <2>1, <1>m
    <3>2. QED
      BY <2>1, <2>2, <2>3, <2>4, <3>1
      DEF Sound, Known, Loaded, CopyGranted, Entitled, Begun, HasCopy, Exists,
          AdminOp, TargetOp
  <2>5. QED
    BY <2>1, <2>4, <1>o
<1>2. ASSUME NEW t \in Threads, NEW b \in Browsers, NEW op \in OwnOp, AdmitOwn(t, b, op)
      PROVE  Sound(s)'
  <2> DEFINE u == sessions[b].user
             r == [NoRequest EXCEPT !.op = op, !.at = "loaded", !.browser = b,
                                    !.actor = u, !.target = u, !.copy = users[u]]
  <2>1. Advance(t, r) /\ UNCHANGED <<users, granted>>
    BY <1>2 DEF AdmitOwn
  <2>2. u \in Users /\ Exists(u) /\ users[u] \in Account /\ users[u].role \in granted[u]
    BY <1>2 DEF AdmitOwn, SessionMatches, SessionsKnown, Exists, TypeOK, Session, RoleWasGranted
  <2>3. /\ r.at = "loaded" /\ r.op = op
        /\ r.actor = u /\ r.target = u /\ r.copy = users[u]
    BY DEF NoRequest
  <2> HIDE DEF r, u
  <2>4. CASE s = t
    <3>1. req'[t] = r
      BY <2>1, <1>m
    <3>2. QED
      BY <2>1, <2>2, <2>3, <2>4, <3>1
      DEF Sound, Known, Loaded, CopyGranted, Entitled, Begun, HasCopy, Exists,
          AdminOp, TargetOp, OwnOp
  <2>5. QED
    BY <2>1, <2>4, <1>o
<1>3. ASSUME NEW t \in Threads, NEW b \in Browsers, NEW op \in AdminOp, AdmitAdmin(t, b, op)
      PROVE  Sound(s)'
  <2> DEFINE u == sessions[b].user
             r == [NoRequest EXCEPT !.op = op, !.at = "admitted", !.browser = b, !.actor = u]
  <2>1. Advance(t, r) /\ UNCHANGED <<users, granted>>
    BY <1>3 DEF AdmitAdmin
  <2>2. u \in Users /\ Exists(u) /\ SUPER_ADMIN \in granted[u]
    BY <1>3 DEF AdmitAdmin, SessionMatches, SessionsKnown, TypeOK, Session, RoleWasGranted
  <2>3. r.at = "admitted" /\ r.op = op /\ r.actor = u
    BY DEF NoRequest
  <2> HIDE DEF r, u
  <2>4. CASE s = t
    <3>1. req'[t] = r
      BY <2>1, <1>m
    <3>2. QED
      BY <2>1, <2>2, <2>3, <2>4, <3>1
      DEF Sound, Known, Loaded, CopyGranted, Entitled, Begun, HasCopy, Exists
  <2>5. QED
    BY <2>1, <2>4, <1>o
<1>4. ASSUME NEW t \in Threads, NEW u \in Users, LoadTarget(t, u)
      PROVE  Sound(s)'
  <2> DEFINE r == [req[t] EXCEPT !.at = "loaded", !.target = u, !.copy = users[u]]
  <2>1. Advance(t, r) /\ UNCHANGED <<users, granted>> /\ Exists(u) /\ u # req[t].actor
    BY <1>4 DEF LoadTarget, CanManage
  <2>2. users[u] \in Account /\ users[u].role \in granted[u]
    BY <2>1 DEF Exists, TypeOK, RoleWasGranted
  <2>3. req[t] \in Request /\ Begun(t) /\ req[t].op \in TargetOp
    BY <1>4 DEF LoadTarget, Begun, TypeOK
  <2>4. /\ r.at = "loaded" /\ r.target = u /\ r.copy = users[u]
        /\ r.op = req[t].op /\ r.actor = req[t].actor
    BY <2>3 DEF Request
  <2>5. CASE s = t
    <3>1. Known(t) /\ Entitled(t)
      BY DEF Sound
    <3> HIDE DEF r
    <3>2. req'[t] = r
      BY <2>1, <1>m
    <3>3. QED
      BY <2>1, <2>2, <2>3, <2>4, <2>5, <3>1, <3>2
      DEF Sound, Known, Loaded, CopyGranted, Entitled, Begun, HasCopy, Exists,
          AdminOp, TargetOp, OwnOp
  <2>6. QED
    BY <2>1, <2>5, <1>o
<1>5. ASSUME NEW t \in Threads, ReadPreviousRole(t)
      PROVE  Sound(s)'
  <2> DEFINE r == [req[t] EXCEPT !.at = "previous", !.prev = users[req[t].target].role]
  <2>1. Advance(t, r) /\ UNCHANGED <<users, granted>> /\ HasCopy(t) /\ Begun(t)
    BY <1>5 DEF ReadPreviousRole, HasCopy, Begun
  <2>2. /\ r.at = "previous" /\ r.target = req[t].target /\ r.copy = req[t].copy
        /\ r.op = req[t].op /\ r.actor = req[t].actor
    BY DEF Request, TypeOK
  <2>3. CASE s = t
    <3> HIDE DEF r
    <3>1. req'[t] = r /\ Sound(t)
      BY <2>1, <1>m
    <3>2. QED
      BY <2>1, <2>2, <2>3, <3>1
      DEF Sound, Known, Loaded, CopyGranted, Entitled, Begun, HasCopy, Exists
  <2>4. QED
    BY <2>1, <2>3, <1>o
<1>6. ASSUME NEW t \in Threads, NEW u \in Users, NEW email \in Emails, NEW role \in Role,
             NEW active \in BOOLEAN, InsertUser(t, u, email, role, active)
      PROVE  Sound(s)'
  <2> DEFINE a == NewAccount(email, role, active, issued[u] + 1)
             r == [req[t] EXCEPT !.at = "saved", !.target = u, !.copy = a]
  <2>1. Advance(t, r) /\ req[t].at = "admitted" /\ req[t].op = "create" /\ ~Exists(u)
    BY <1>6 DEF InsertUser
  <2>2. issued[u] + 1 \in Password
    BY <1>6, MaxPwdPos DEF InsertUser, CanRekey, TypeOK, Password
  <2>4. a \in Account /\ a.role = role /\ Normalised(a) = a
    BY <2>2, NewIsAccount
  <2>5. users'[u] = Normalised(a) /\ role \in granted'[u]
    BY <1>6 DEF InsertUser, WriteAll, TypeOK
  <2>6. /\ r.at = "saved" /\ r.target = u /\ r.copy = a
        /\ r.op = "create" /\ r.actor = req[t].actor
    BY <2>1 DEF Request, TypeOK
  <2> HIDE DEF a, r
  <2>7. Exists(u)'
    BY <2>4, <2>5, AbsentIsNoAccount DEF Exists
  <2>8. CASE s = t
    <3>1. /\ req[t].actor \in Users /\ Exists(req[t].actor)
          /\ SUPER_ADMIN \in granted[req[t].actor]
      BY <2>1 DEF Sound, Known, Entitled, Begun, AdminOp
    <3>2. req'[t] = r
      BY <2>1, <1>m
    <3>3. u # req[t].actor
      BY <3>1, <2>1
    <3>4. QED
      BY <2>4, <2>5, <2>6, <2>7, <2>8, <3>1, <3>2, <3>3, <1>e, <1>g
      DEF Sound, Known, Loaded, CopyGranted, Entitled, Begun, HasCopy, OwnOp
  <2>9. QED
    BY <2>1, <2>8, <1>o
<1>7. ASSUME NEW t \in Threads, NEW email \in Emails, NEW role \in Role, NEW active \in BOOLEAN,
             SaveEdit(t, email, role, active)
      PROVE  Sound(s)'
  <2> DEFINE u == req[t].target
             a == [req[t].copy EXCEPT !.email = email, !.role = role, !.active = active]
             c == Normalised(a)
             r == [req[t] EXCEPT !.at = "saved", !.copy = c]
  <2>1. Advance(t, r) /\ req[t].at = "previous" /\ req[t].op = "edit"
    BY <1>7 DEF SaveEdit
  <2>2. /\ u \in Users /\ Exists(u) /\ req[t].copy \in Account
        /\ req[t].actor \in Users /\ Exists(req[t].actor)
        /\ SUPER_ADMIN \in granted[req[t].actor] /\ u # req[t].actor
    BY <2>1 DEF Sound, Known, Loaded, Entitled, Begun, HasCopy, AdminOp, TargetOp
  <2>3. a \in Account /\ a.role = role
    BY <2>2 DEF Account
  <2>4. c \in Account /\ c.role = role
    BY <2>3, NormalisedAccount
  <2>5. role \in granted'[u]
    BY <1>7, <2>2 DEF SaveEdit, TypeOK
  <2>6. /\ r.at = "saved" /\ r.target = u /\ r.copy = c
        /\ r.op = "edit" /\ r.actor = req[t].actor
    BY <2>1 DEF Request, TypeOK
  <2> HIDE DEF c, r
  <2>7. CASE s = t
    <3>1. req'[t] = r
      BY <2>1, <1>m
    <3>2. QED
      BY <2>2, <2>4, <2>5, <2>6, <2>7, <3>1, <1>e, <1>g
      DEF Sound, Known, Loaded, CopyGranted, Entitled, Begun, HasCopy, OwnOp
  <2>8. QED
    BY <2>1, <2>7, <1>o
<1>8. ASSUME NEW t \in Threads, SaveOwnPassword(t)
      PROVE  Sound(s)'
  <2> DEFINE c == [req[t].copy EXCEPT !.pwd = issued[req[t].actor] + 1]
             r == [req[t] EXCEPT !.at = "saved", !.copy = c]
  <2>1. /\ req[t].at = "loaded" /\ req[t].op = "own_password" /\ granted' = granted
        /\ req[t] \in Request
    BY <1>8 DEF SaveOwnPassword, TypeOK
  <2>2. /\ req[t].actor \in Users /\ Exists(req[t].actor)
        /\ req[t].copy \in Account /\ req[t].target = req[t].actor
        /\ req[t].copy.role \in granted[req[t].actor]
    BY <2>1 DEF Sound, Known, Loaded, CopyGranted, Begun, HasCopy, OwnOp
  <2>3. issued[req[t].actor] + 1 \in Password
    BY <1>8, <2>2, MaxPwdPos DEF SaveOwnPassword, CanRekey, TypeOK, Password
  <2>4. c \in Account /\ c.role = req[t].copy.role
    BY <2>2, <2>3 DEF Account
  <2>5. Advance(t, r)
    BY <1>8, <2>1 DEF SaveOwnPassword, Advance, Request
  <2>6. /\ r.at = "saved" /\ r.target = req[t].actor /\ r.copy = c
        /\ r.op = "own_password" /\ r.actor = req[t].actor
    BY <2>1, <2>2 DEF Request
  <2> HIDE DEF c, r
  <2>7. CASE s = t
    <3>1. req'[t] = r
      BY <2>5, <1>m
    <3>2. QED
      BY <2>1, <2>2, <2>4, <2>6, <2>7, <3>1, <1>e
      DEF Sound, Known, Loaded, CopyGranted, Entitled, Begun, HasCopy, AdminOp, TargetOp
  <2>8. QED
    BY <2>5, <2>7, <1>o
<1>9. ASSUME NEW t \in Threads, \/ Abandon(t) \/ StartSession(t) \/ RecordAccount(t)
                                 \/ SavePassword(t) \/ SaveToggle(t) \/ SaveDelete(t)
                                 \/ SaveProfile(t) \/ UpdateSessionHash(t)
      PROVE  Sound(s)'
  BY <1>9, <1>f DEF Abandon, StartSession, RecordAccount, SavePassword, SaveToggle,
                    SaveDelete, SaveProfile, UpdateSessionHash
<1>10. ASSUME NEW b \in Browsers, Logout(b) \/ FlushSession(b)
       PROVE  Sound(s)'
  BY <1>10, Undisturbed DEF Logout, FlushSession
<1>11. CASE UNCHANGED vars
  BY <1>11, Undisturbed DEF vars
<1>12. QED
  BY <1>1, <1>2, <1>3, <1>4, <1>5, <1>6, <1>7, <1>8, <1>9, <1>10, <1>11, Wider
  DEF AnyRead, AnyWrite

(* A session is only ever opened or renewed for an account that exists. *)
LEMMA SessionsKnownStep ==
  ASSUME IInv, Writes, [Next]_vars
  PROVE  SessionsKnown'
<1> USE DEF IInv
<1>e. \A u \in Users : users[u] # Absent => users'[u] # Absent
  BY AbsentIsNoAccount DEF Writes, Exists, TypeOK
<1>u. \A b \in Browsers : sessions[b] # NoSession => sessions[b].user \in Users
  BY DEF TypeOK, Session
<1>1. ASSUME NEW t \in Threads, StartSession(t) \/ UpdateSessionHash(t)
      PROVE  SessionsKnown'
  <2>1. req[t].actor \in Users /\ Exists(req[t].actor)
    BY <1>1 DEF StartSession, UpdateSessionHash, Sound, Known, Begun
  <2>2. sessions' = [sessions EXCEPT ![req[t].browser] =
                       [user |-> req[t].actor, pwd |-> req[t].copy.pwd]]
    BY <1>1 DEF StartSession, UpdateSessionHash
  <2>3. ASSUME NEW b \in Browsers, sessions'[b] # NoSession
        PROVE  users'[sessions'[b].user] # Absent
    <3>1. CASE b = req[t].browser
      <4>1. sessions'[b].user = req[t].actor
        BY <2>2, <3>1 DEF TypeOK
      <4>2. QED
        BY <4>1, <2>1, <1>e DEF Exists
    <3>2. CASE b # req[t].browser
      <4>1. sessions'[b] = sessions[b]
        BY <2>2, <3>2 DEF TypeOK
      <4>2. QED
        BY <4>1, <2>3, <1>e, <1>u DEF SessionsKnown, Exists
    <3>3. QED
      BY <3>1, <3>2
  <2>4. QED
    BY <2>3 DEF SessionsKnown, Exists
<1>2. ASSUME NEW b \in Browsers, Logout(b) \/ FlushSession(b)
      PROVE  SessionsKnown'
  BY <1>2 DEF Logout, FlushSession, SessionsKnown, Exists, TypeOK
<1>3. CASE UNCHANGED sessions
  BY <1>3, <1>e, <1>u DEF SessionsKnown, Exists
<1>4. ASSUME NEW t \in Threads, AnyRead(t) PROVE UNCHANGED sessions
  BY <1>4, Zenon DEF AnyRead, CheckCredentials, AdmitOwn, AdmitAdmin, LoadTarget,
     ReadPreviousRole, Abandon
<1>5. ASSUME NEW t \in Threads, AnyWrite(t), ~StartSession(t), ~UpdateSessionHash(t)
      PROVE  UNCHANGED sessions
  BY <1>5, Zenon DEF AnyWrite, InsertUser, SaveEdit, RecordAccount, SavePassword, SaveToggle,
     SaveDelete, SaveProfile, SaveOwnPassword
<1>6. UNCHANGED vars => UNCHANGED sessions
  BY DEF vars
<1>7. QED
  BY <1>1, <1>2, <1>3, <1>4, <1>5, <1>6, Wider

(* A role is given by create_user and by the edit form, to the account written. *)
LEMMA GrantStep ==
  ASSUME IInv, [Next]_vars, NEW u \in Users, granted'[u] # granted[u]
  PROVE  \E t \in Threads, e \in Emails, r \in Role, a \in BOOLEAN :
            InsertUser(t, u, e, r, a) \/ (SaveEdit(t, e, r, a) /\ req[t].target = u)
<1>1. PICK t \in Threads :
        \/ \E v \in Users, e \in Emails, r \in Role, a \in BOOLEAN : InsertUser(t, v, e, r, a)
        \/ \E e \in Emails, r \in Role, a \in BOOLEAN : SaveEdit(t, e, r, a)
  BY Wider DEF IInv, AnyRead, AnyWrite, vars, CheckCredentials, AdmitOwn, AdmitAdmin,
     LoadTarget, ReadPreviousRole, Abandon, StartSession, RecordAccount,
     SavePassword, SaveToggle, SaveDelete, SaveProfile, SaveOwnPassword, UpdateSessionHash,
     Logout, FlushSession
<1>2. granted \in [Users -> SUBSET Role]
  BY DEF IInv, TypeOK
<1>3. ASSUME NEW v \in Users, NEW e \in Emails, NEW r \in Role, NEW a \in BOOLEAN,
             InsertUser(t, v, e, r, a)
      PROVE  v = u
  <2>1. granted' = [granted EXCEPT ![v] = granted[v] \cup {r}]
    BY <1>3 DEF InsertUser
  <2>2. QED
    BY <2>1, <1>2
<1>4. ASSUME NEW e \in Emails, NEW r \in Role, NEW a \in BOOLEAN, SaveEdit(t, e, r, a)
      PROVE  req[t].target = u
  <2>1. granted' = [granted EXCEPT ![req[t].target] = granted[req[t].target] \cup {r}]
    BY <1>4 DEF SaveEdit
  <2>2. QED
    BY <2>1, <1>2
<1>5. QED
  BY <1>1, <1>3, <1>4

LEMMA AsleepStep ==
  ASSUME TypeOK, Asleep, [Next]_vars
  PROVE  Asleep'
<1>1. ASSUME NEW t \in Workers, NEW r, Advance(t, r), setting' = setting
      PROVE  Asleep'
  BY <1>1 DEF Asleep, Advance, Workers, TypeOK
<1>2. CASE UNCHANGED <<setting, req>>
  BY <1>2 DEF Asleep, Workers
<1>3. ASSUME NEW t \in Workers, AnyRead(t) \/ AnyWrite(t), setting' = setting
      PROVE  \E r : Advance(t, r)
  BY <1>3, Zenon DEF AnyRead, AnyWrite, CheckCredentials, AdmitOwn, AdmitAdmin, LoadTarget,
     ReadPreviousRole, Abandon, StartSession, InsertUser, SaveEdit, RecordAccount,
     SavePassword, SaveToggle, SaveDelete, SaveProfile, SaveOwnPassword, UpdateSessionHash,
     Finish
<1>4. ASSUME NEW b \in Browsers, Logout(b) \/ FlushSession(b) PROVE UNCHANGED req
  BY <1>4 DEF Logout, FlushSession
<1>5. QED
  BY <1>1, <1>2, <1>3, <1>4, Wider DEF vars

LEMMA IInvInit == Init => IInv
<1>1. ASSUME Init PROVE TypeOK
  BY <1>1, TypeOKInit
<1>2. ASSUME Init, NEW t \in Threads PROVE Sound(t)
  BY <1>2 DEF Init, NoRequest, Sound, Known, Loaded, CopyGranted, Entitled, Begun, HasCopy
<1>3. ASSUME Init PROVE SessionsKnown /\ RoleWasGranted /\ Asleep
  BY <1>3 DEF Init, SessionsKnown, RoleWasGranted, Asleep
<1>4. QED
  BY <1>1, <1>2, <1>3 DEF IInv

LEMMA IInvStep == IInv /\ [Next]_vars => IInv'
<1> SUFFICES ASSUME IInv, [Next]_vars PROVE IInv'
  OBVIOUS
<1>1. Writes
  BY WritesStep
<1>2. TypeOK' /\ (\A t \in Threads : Sound(t)') /\ SessionsKnown' /\ Asleep'
  BY <1>1, TypeOKStep, SoundStep, SessionsKnownStep, AsleepStep DEF IInv
<1>3. RoleWasGranted'
  BY <1>1 DEF Writes, RoleWasGranted, Exists, IInv, TypeOK
<1>4. QED
  BY <1>2, <1>3 DEF IInv

-----------------------------------------------------------------------------
(* models.py:90-122, views.py, admin_views.py.  The invariant holds however many
   requests overlap. *)
THEOREM Invariant == Spec => []IInv
BY IInvInit, IInvStep, PTL DEF Spec

(* models.py:90-122.  Accounts, sessions, requests and the log keep their types. *)
THEOREM Types == Spec => []TypeOK
<1>1. IInv => TypeOK
  BY DEF IInv
<1>2. QED
  BY <1>1, Invariant, PTL

(* forms.py:187-216, 244-259, services.py:15-89.  No interleaving, crash or lost
   record invents a role: every account holds one that it was given. *)
THEOREM Granted == Spec => []RoleWasGranted
<1>1. IInv => RoleWasGranted
  BY DEF IInv
<1>2. QED
  BY <1>1, Invariant, PTL

(* permissions.py:31-44, models.py:175-179.  A role is only ever given by another
   account, one that was made super admin before. *)
THEOREM ByAnother == Spec => GrantedByAnotherAdmin
<1>1. ASSUME IInv, [Next]_vars, NEW u \in Users, granted'[u] # granted[u]
      PROVE  \E t \in Threads : /\ req[t].actor # u
                                /\ req[t].actor \in Users
                                /\ SUPER_ADMIN \in granted[req[t].actor]
  <2>1. \E t \in Threads, e \in Emails, r \in Role, a \in BOOLEAN :
           InsertUser(t, u, e, r, a) \/ (SaveEdit(t, e, r, a) /\ req[t].target = u)
    BY <1>1, GrantStep
  <2>2. PICK t \in Threads, e \in Emails, r \in Role, a \in BOOLEAN :
           InsertUser(t, u, e, r, a) \/ (SaveEdit(t, e, r, a) /\ req[t].target = u)
    BY <2>1
  <2>3. /\ req[t].actor \in Users /\ Exists(req[t].actor)
        /\ SUPER_ADMIN \in granted[req[t].actor]
    BY <1>1, <2>2 DEF IInv, Sound, Known, Entitled, Begun, InsertUser, SaveEdit, AdminOp, TargetOp
  <2>4. req[t].actor # u
    BY <1>1, <2>2, <2>3
    DEF IInv, Sound, Entitled, Begun, HasCopy, InsertUser, SaveEdit, AdminOp, TargetOp
  <2>5. QED
    BY <2>3, <2>4
<1>2. IInv /\ [Next]_vars =>
        [\A u \in Users : granted'[u] # granted[u] =>
           \E t \in Threads : /\ req[t].actor # u
                              /\ req[t].actor \in Users
                              /\ SUPER_ADMIN \in granted[req[t].actor]]_granted
  BY <1>1
<1>3. QED
  BY <1>2, Invariant, PTL DEF Spec, GrantedByAnotherAdmin

-----------------------------------------------------------------------------
(***************************************************************************)
(* One request at a time.  What a request has read is then still so when   *)
(* it writes: its sender is an active administrator, or the owner, and its *)
(* copy is the account that it writes (Current).  So every write is one of *)
(* the changes AccountBook lists (Changes), whether or not workers die.    *)
(***************************************************************************)
Admin(a) == Effective(a) /\ users[a].role = SUPER_ADMIN

Live(u) == Exists(u) /\ ~users[u].deleted

Current(t) ==
  /\ Begun(t) => Effective(req[t].actor)
  /\ Begun(t) /\ req[t].op \in AdminOp => Admin(req[t].actor)
  /\ HasCopy(t) => /\ req[t].copy = users[req[t].target]
                   /\ ~users[req[t].target].deleted

(* The password of an account is the last one it was given, or none. *)
Numbered ==
  \A u \in Users : IF Exists(u) THEN users[u].deleted \/ users[u].pwd = issued[u]
                                ELSE issued[u] = 0

CInv == IInv /\ Numbered /\ \A t \in Threads : Current(t)

SameRights(u, e) == e.role = users[u].role /\ e.active = users[u].active

Enrols(a, u, e) ==
  /\ Admin(a) /\ a # u /\ ~Exists(u)
  /\ ~e.deleted /\ e.pwd = issued[u] + 1
  /\ Rekey(u)

Amends(a, u, e) ==
  /\ Admin(a) /\ a # u /\ Live(u)
  /\ ~e.deleted /\ e.pwd = users[u].pwd
  /\ issued' = issued

Rekeys(a, u, e) ==
  /\ Effective(a) /\ (a = u \/ Admin(a)) /\ Live(u)
  /\ ~e.deleted /\ SameRights(u, e) /\ e.pwd = issued[u] + 1
  /\ Rekey(u)

Closes(a, u, e) ==
  /\ Admin(a) /\ a # u /\ Live(u)
  /\ e.deleted
  /\ issued' = issued

(* The profile form writes what it does not change as it was. *)
Keeps(u, e) ==
  /\ Live(u)
  /\ ~e.deleted /\ SameRights(u, e) /\ e.pwd = users[u].pwd
  /\ issued' = issued

Change(a, u, e) ==
  Enrols(a, u, e) \/ Amends(a, u, e) \/ Rekeys(a, u, e) \/ Closes(a, u, e) \/ Keeps(u, e)

Changes ==
  \/ UNCHANGED <<users, issued>>
  \/ \E a, u \in Users, e \in Account : users' = [users EXCEPT ![u] = e] /\ Change(a, u, e)

-----------------------------------------------------------------------------
LEMMA NormalisedSame ==
  ASSUME NEW a \in Account
  PROVE  /\ Normalised(a) \in Account
         /\ Normalised(a).role = a.role
         /\ Normalised(a).active = a.active
         /\ Normalised(a).deleted = a.deleted
         /\ Normalised(a).pwd = a.pwd
BY DEF Normalised, Account

(* Every write is a change by somebody entitled to it. *)
LEMMA ChangesStep ==
  ASSUME CInv, [Next]_vars
  PROVE  Changes
<1> USE DEF CInv, IInv
<1>1. ASSUME NEW t \in Threads, NEW u \in Users, NEW email \in Emails, NEW role \in Role,
             NEW active \in BOOLEAN, InsertUser(t, u, email, role, active)
      PROVE  Changes
  <2> DEFINE a == NewAccount(email, role, active, issued[u] + 1)
  <2>1. issued[u] + 1 \in Password
    BY <1>1, MaxPwdPos DEF InsertUser, CanRekey, TypeOK, Password
  <2>2. a \in Account /\ ~a.deleted /\ a.pwd = issued[u] + 1
    BY <2>1, NewIsAccount
  <2>3. users' = [users EXCEPT ![u] = Normalised(a)] /\ Rekey(u) /\ ~Exists(u)
    BY <1>1 DEF InsertUser, WriteAll
  <2>4. req[t].actor \in Users /\ Admin(req[t].actor) /\ req[t].actor # u
    BY <1>1, <2>3 DEF InsertUser, Current, Begun, AdminOp, Sound, Known, Admin, Effective
  <2> HIDE DEF a
  <2>5. Enrols(req[t].actor, u, Normalised(a))
    BY <2>2, <2>3, <2>4, NormalisedSame DEF Enrols
  <2>6. QED
    BY <2>2, <2>3, <2>4, <2>5, NormalisedSame DEF Changes, Change
<1>t. ASSUME NEW t \in Threads, HasCopy(t), req[t].op \in AdminOp
      PROVE  /\ req[t].actor \in Users /\ req[t].target \in Users
             /\ req[t].actor # req[t].target /\ Admin(req[t].actor)
             /\ Live(req[t].target) /\ req[t].copy = users[req[t].target]
             /\ req[t].copy \in Account
  BY <1>t DEF HasCopy, Begun, Current, Sound, Known, Loaded, Entitled, Live
<1>o. ASSUME NEW t \in Threads, HasCopy(t), req[t].op \in OwnOp
      PROVE  /\ req[t].actor \in Users /\ Effective(req[t].actor) /\ Live(req[t].actor)
             /\ req[t].copy = users[req[t].actor] /\ req[t].copy \in Account
  BY <1>o DEF HasCopy, Begun, Current, Sound, Known, Loaded, Live
<1>2. ASSUME NEW t \in Threads, NEW email \in Emails, NEW role \in Role, NEW active \in BOOLEAN,
             SaveEdit(t, email, role, active)
      PROVE  Changes
  <2> DEFINE u == req[t].target
             a == [req[t].copy EXCEPT !.email = email, !.role = role, !.active = active]
  <2>1. HasCopy(t) /\ req[t].op \in AdminOp
    BY <1>2 DEF SaveEdit, HasCopy, AdminOp, TargetOp
  <2>2. /\ a \in Account
        /\ a.deleted = users[u].deleted /\ a.pwd = users[u].pwd
    BY <2>1, <1>t DEF Account
  <2>3. users' = [users EXCEPT ![u] = Normalised(a)] /\ issued' = issued
    BY <1>2 DEF SaveEdit, WriteAll
  <2> HIDE DEF a
  <2>4. Amends(req[t].actor, u, Normalised(a))
    BY <2>1, <2>2, <2>3, <1>t, NormalisedSame DEF Amends, Live
  <2>5. QED
    BY <2>1, <2>2, <2>3, <2>4, <1>t, NormalisedSame DEF Changes, Change
<1>3. ASSUME NEW t \in Threads, SavePassword(t)
      PROVE  Changes
  <2> DEFINE u == req[t].target
             a == [users[u] EXCEPT !.pwd = issued[u] + 1]
  <2>1. HasCopy(t) /\ req[t].op \in AdminOp
    BY <1>3 DEF SavePassword, HasCopy, AdminOp, TargetOp
  <2>2. u \in Users /\ users[u] \in Account
    BY <2>1, <1>t
  <2>3. issued[u] + 1 \in Password
    BY <1>3, <2>2, MaxPwdPos DEF SavePassword, CanRekey, TypeOK, Password
  <2>4. /\ a \in Account /\ a.deleted = users[u].deleted
        /\ SameRights(u, a) /\ a.pwd = issued[u] + 1
    BY <2>2, <2>3 DEF Account, SameRights
  <2>5. users' = [users EXCEPT ![u] = a] /\ Rekey(u)
    BY <1>3, <2>2 DEF SavePassword, TypeOK
  <2>6. Rekeys(req[t].actor, u, a)
    BY <2>1, <2>4, <2>5, <1>t DEF Rekeys, Live, Admin
  <2>7. QED
    BY <2>1, <2>4, <2>5, <2>6, <1>t DEF Changes, Change
<1>4. ASSUME NEW t \in Threads, SaveToggle(t)
      PROVE  Changes
  <2> DEFINE u == req[t].target
             b == Normalised(req[t].copy)
             a == [users[u] EXCEPT !.active = ~b.active, !.su = b.su]
  <2>1. HasCopy(t) /\ req[t].op \in AdminOp
    BY <1>4 DEF SaveToggle, HasCopy, AdminOp, TargetOp
  <2>2. u \in Users /\ users[u] \in Account /\ b \in Account
    BY <2>1, <1>t, NormalisedSame
  <2>3. a \in Account /\ a.deleted = users[u].deleted /\ a.pwd = users[u].pwd
    BY <2>2 DEF Account
  <2>4. users' = [users EXCEPT ![u] = a] /\ issued' = issued
    BY <1>4, <2>2 DEF SaveToggle, TypeOK
  <2>5. Amends(req[t].actor, u, a)
    BY <2>1, <2>3, <2>4, <1>t DEF Amends, Live
  <2>6. QED
    BY <2>1, <2>3, <2>4, <2>5, <1>t DEF Changes, Change
<1>5. ASSUME NEW t \in Threads, SaveDelete(t)
      PROVE  Changes
  <2> DEFINE u == req[t].target
             a == [req[t].copy EXCEPT !.email = NoEmail, !.active = FALSE, !.deleted = TRUE,
                                 !.pwd = Unusable]
  <2>1. HasCopy(t) /\ req[t].op \in AdminOp
    BY <1>5 DEF SaveDelete, HasCopy, AdminOp, TargetOp
  <2>2. Unusable \in Password
    BY MaxPwdPos DEF Unusable, Password
  <2>3. a \in Account /\ a.deleted
    BY <2>1, <2>2, <1>t DEF Account
  <2>4. users' = [users EXCEPT ![u] = Normalised(a)] /\ issued' = issued
    BY <1>5 DEF SaveDelete, WriteAll
  <2> HIDE DEF a
  <2>5. Closes(req[t].actor, u, Normalised(a))
    BY <2>1, <2>3, <2>4, <1>t, NormalisedSame DEF Closes
  <2>6. QED
    BY <2>1, <2>3, <2>4, <2>5, <1>t, NormalisedSame DEF Changes, Change
<1>6. ASSUME NEW t \in Threads, SaveProfile(t)
      PROVE  Changes
  <2> DEFINE u == req[t].actor
  <2>1. HasCopy(t) /\ req[t].op \in OwnOp
    BY <1>6 DEF SaveProfile, HasCopy, OwnOp
  <2>2. users' = [users EXCEPT ![u] = Normalised(req[t].copy)] /\ issued' = issued
    BY <1>6 DEF SaveProfile, WriteAll
  <2>3. Keeps(u, Normalised(req[t].copy))
    BY <2>1, <2>2, <1>o, NormalisedSame DEF Keeps, SameRights, Live
  <2>4. QED
    BY <2>1, <2>2, <2>3, <1>o, NormalisedSame DEF Changes, Change
<1>7. ASSUME NEW t \in Threads, SaveOwnPassword(t)
      PROVE  Changes
  <2> DEFINE u == req[t].actor
             a == [users[u] EXCEPT !.pwd = issued[u] + 1]
  <2>1. HasCopy(t) /\ req[t].op \in OwnOp
    BY <1>7 DEF SaveOwnPassword, HasCopy, OwnOp
  <2>2. u \in Users /\ users[u] \in Account
    BY <2>1, <1>o
  <2>3. issued[u] + 1 \in Password
    BY <1>7, <2>2, MaxPwdPos DEF SaveOwnPassword, CanRekey, TypeOK, Password
  <2>4. /\ a \in Account /\ a.deleted = users[u].deleted
        /\ SameRights(u, a) /\ a.pwd = issued[u] + 1
    BY <2>2, <2>3 DEF Account, SameRights
  <2>5. users' = [users EXCEPT ![u] = a] /\ Rekey(u)
    BY <1>7, <2>2 DEF SaveOwnPassword, TypeOK
  <2>6. Rekeys(u, u, a)
    BY <2>1, <2>4, <2>5, <1>o DEF Rekeys, Live
  <2>7. QED
    BY <2>2, <2>4, <2>5, <2>6 DEF Changes, Change
<1>8. ASSUME NEW t \in Threads, AnyRead(t) \/ StartSession(t) \/ RecordAccount(t)
                                           \/ UpdateSessionHash(t)
      PROVE  UNCHANGED <<users, issued>>
  BY <1>8, Zenon DEF AnyRead, CheckCredentials, AdmitOwn, AdmitAdmin, LoadTarget,
     ReadPreviousRole, Abandon, StartSession, RecordAccount, UpdateSessionHash
<1>9. ASSUME NEW b \in Browsers, Logout(b) \/ FlushSession(b)
      PROVE  UNCHANGED <<users, issued>>
  BY <1>9 DEF Logout, FlushSession
<1>10. CASE UNCHANGED vars
  BY <1>10 DEF vars, Changes
<1>11. QED
  BY <1>1, <1>2, <1>3, <1>4, <1>5, <1>6, <1>7, <1>8, <1>9, <1>10, Wider
  DEF AnyWrite, Changes

LEMMA NumberedStep ==
  ASSUME CInv, Changes
  PROVE  Numbered'
<1> USE DEF CInv, IInv
<1>1. CASE UNCHANGED <<users, issued>>
  BY <1>1 DEF Numbered, Exists
<1>2. ASSUME NEW a \in Users, NEW u \in Users, NEW e \in Account,
             users' = [users EXCEPT ![u] = e], Change(a, u, e)
      PROVE  Numbered'
  <2> SUFFICES ASSUME NEW v \in Users
               PROVE  IF users'[v] # Absent
                        THEN users'[v].deleted \/ users'[v].pwd = issued'[v]
                        ELSE issued'[v] = 0
    BY DEF Numbered, Exists
  <2>1. CASE v = u
    <3>1. users'[v] = e /\ e # Absent
      BY <1>2, <2>1, AbsentIsNoAccount DEF TypeOK
    <3>2. Rekey(u) => issued'[u] = issued[u] + 1
      BY DEF Rekey, TypeOK
    <3>3. Live(u) => users[u].pwd = issued[u]
      BY DEF Live, Numbered
    <3>4. e.deleted \/ e.pwd = issued'[u]
      BY <1>2, <3>2, <3>3 DEF Change, Enrols, Amends, Rekeys, Closes, Keeps
    <3>5. QED
      BY <2>1, <3>1, <3>4
  <2>2. CASE v # u
    <3>1. users'[v] = users[v]
      BY <1>2, <2>2 DEF TypeOK
    <3>2. issued'[v] = issued[v]
      BY <1>2, <2>2 DEF Change, Enrols, Amends, Rekeys, Closes, Keeps, Rekey, TypeOK
    <3>3. QED
      BY <3>1, <3>2 DEF Numbered, Exists
  <2>3. QED
    BY <2>1, <2>2
<1>3. QED
  BY <1>1, <1>2 DEF Changes

(* The only request there is has read the accounts as they are. *)
LEMMA CurrentStep ==
  ASSUME Serial, CInv, [Next]_vars, NEW s \in Threads
  PROVE  Current(s)'
<1> USE DEF CInv, IInv
<1>w. Workers \subseteq Threads
  BY SettingParts
<1> USE <1>w
<1>i. CASE s \notin Workers
  <2>1. req'[s] = NoRequest
    BY <1>i, AsleepStep, Wider DEF Asleep, Workers, vars
  <2>2. QED
    BY <2>1 DEF NoRequest, Current, Begun, HasCopy
<1> SUFFICES ASSUME s \in Workers PROVE Current(s)'
  BY <1>i
<1>s. ASSUME NEW t \in Workers PROVE s = t
  BY DEF Serial
<1>m. ASSUME NEW t \in Workers, NEW r, Advance(t, r) PROVE req'[s] = r
  BY <1>m, <1>s DEF Advance, TypeOK
<1>f. ASSUME NEW t \in Workers, Finish(t) PROVE Current(s)'
  <2>1. req'[s] = NoRequest
    BY <1>f, <1>m DEF Finish
  <2>2. QED
    BY <2>1 DEF NoRequest, Current, Begun, HasCopy
<1>1. ASSUME NEW t \in Workers, NEW b \in Browsers, NEW u \in Users, CheckCredentials(t, b, u)
      PROVE  Current(s)'
  <2> DEFINE r == [NoRequest EXCEPT !.op = "login", !.at = "loaded", !.browser = b,
                                    !.actor = u, !.target = u, !.copy = users[u]]
  <2>1. Advance(t, r) /\ users' = users /\ Effective(u)
    BY <1>1 DEF CheckCredentials, Effective
  <2>2. /\ r.at = "loaded" /\ r.op = "login"
        /\ r.actor = u /\ r.target = u /\ r.copy = users[u]
    BY DEF NoRequest
  <2> HIDE DEF r
  <2>3. req'[s] = r
    BY <2>1, <1>m
  <2>4. QED
    BY <2>1, <2>2, <2>3 DEF Current, Begun, HasCopy, Effective, Exists, AdminOp, TargetOp
<1>2. ASSUME NEW t \in Workers, NEW b \in Browsers, NEW op \in OwnOp, AdmitOwn(t, b, op)
      PROVE  Current(s)'
  <2> DEFINE u == sessions[b].user
             r == [NoRequest EXCEPT !.op = op, !.at = "loaded", !.browser = b,
                                    !.actor = u, !.target = u, !.copy = users[u]]
  <2>1. Advance(t, r) /\ users' = users /\ Effective(u)
    BY <1>2 DEF AdmitOwn, SessionMatches, SessionsKnown, MayEnter, Effective
  <2>2. /\ r.at = "loaded" /\ r.op = op
        /\ r.actor = u /\ r.target = u /\ r.copy = users[u]
    BY DEF NoRequest
  <2> HIDE DEF r, u
  <2>3. req'[s] = r
    BY <2>1, <1>m
  <2>4. QED
    BY <2>1, <2>2, <2>3 DEF Current, Begun, HasCopy, Effective, Exists, AdminOp, TargetOp, OwnOp
<1>3. ASSUME NEW t \in Workers, NEW b \in Browsers, NEW op \in AdminOp, AdmitAdmin(t, b, op)
      PROVE  Current(s)'
  <2> DEFINE u == sessions[b].user
             r == [NoRequest EXCEPT !.op = op, !.at = "admitted", !.browser = b, !.actor = u]
  <2>1. Advance(t, r) /\ users' = users /\ Admin(u)
    BY <1>3 DEF AdmitAdmin, SessionMatches, SessionsKnown, MayEnter, Effective, Admin
  <2>2. r.at = "admitted" /\ r.op = op /\ r.actor = u
    BY DEF NoRequest
  <2> HIDE DEF r, u
  <2>3. req'[s] = r
    BY <2>1, <1>m
  <2>4. QED
    BY <2>1, <2>2, <2>3 DEF Current, Begun, HasCopy, Admin, Effective, Exists
<1>4. ASSUME NEW t \in Workers, NEW u \in Users, LoadTarget(t, u)
      PROVE  Current(s)'
  <2> DEFINE r == [req[t] EXCEPT !.at = "loaded", !.target = u, !.copy = users[u]]
  <2>1. Advance(t, r) /\ users' = users /\ ~users[u].deleted /\ Begun(t)
    BY <1>4 DEF LoadTarget, Begun
  <2>2. /\ r.at = "loaded" /\ r.target = u /\ r.copy = users[u]
        /\ r.op = req[t].op /\ r.actor = req[t].actor
    BY DEF TypeOK, Request
  <2> HIDE DEF r
  <2>3. req'[s] = r
    BY <2>1, <1>m
  <2>4. QED
    BY <2>1, <2>2, <2>3 DEF Current, Begun, HasCopy, Admin, Effective, Exists
<1>5. ASSUME NEW t \in Workers, ReadPreviousRole(t)
      PROVE  Current(s)'
  <2> DEFINE r == [req[t] EXCEPT !.at = "previous", !.prev = users[req[t].target].role]
  <2>1. Advance(t, r) /\ users' = users /\ HasCopy(t) /\ Begun(t)
    BY <1>5 DEF ReadPreviousRole, HasCopy, Begun
  <2>2. /\ r.at = "previous" /\ r.target = req[t].target /\ r.copy = req[t].copy
        /\ r.op = req[t].op /\ r.actor = req[t].actor
    BY DEF TypeOK, Request
  <2> HIDE DEF r
  <2>3. req'[s] = r
    BY <2>1, <1>m
  <2>4. QED
    BY <2>1, <2>2, <2>3 DEF Current, Begun, HasCopy, Admin, Effective, Exists
<1>6. ASSUME NEW t \in Workers, NEW u \in Users, NEW email \in Emails, NEW role \in Role,
             NEW active \in BOOLEAN, InsertUser(t, u, email, role, active)
      PROVE  Current(s)'
  <2> DEFINE a == NewAccount(email, role, active, issued[u] + 1)
             r == [req[t] EXCEPT !.at = "saved", !.target = u, !.copy = a]
  <2>1. Advance(t, r) /\ req[t].at = "admitted" /\ req[t].op = "create" /\ ~Exists(u)
    BY <1>6 DEF InsertUser
  <2>2. req[t].actor \in Users /\ Admin(req[t].actor)
    BY <2>1 DEF Current, Begun, AdminOp, Sound, Known
  <2>3. u # req[t].actor
    BY <2>1, <2>2 DEF Admin, Effective
  <2>0. issued[u] + 1 \in Password
    BY <1>6, MaxPwdPos DEF InsertUser, CanRekey, TypeOK, Password
  <2>6. ~a.deleted /\ Normalised(a) = a
    BY <2>0, NewIsAccount
  <2>4. users' = [users EXCEPT ![u] = a]
    BY <1>6, <2>6 DEF InsertUser, WriteAll
  <2>5. users'[u] = a /\ users'[req[t].actor] = users[req[t].actor]
    BY <2>2, <2>3, <2>4 DEF TypeOK
  <2>7. /\ r.at = "saved" /\ r.target = u /\ r.copy = a
        /\ r.op = req[t].op /\ r.actor = req[t].actor
    BY DEF TypeOK, Request
  <2> HIDE DEF a, r
  <2>8. req'[s] = r
    BY <2>1, <1>m
  <2>9. QED
    BY <2>2, <2>5, <2>6, <2>7, <2>8 DEF Current, Begun, HasCopy, Admin, Effective, Exists
<1>7. ASSUME NEW t \in Workers, NEW email \in Emails, NEW role \in Role, NEW active \in BOOLEAN,
             SaveEdit(t, email, role, active)
      PROVE  Current(s)'
  <2> DEFINE u == req[t].target
             a == [req[t].copy EXCEPT !.email = email, !.role = role, !.active = active]
             c == Normalised(a)
             r == [req[t] EXCEPT !.at = "saved", !.copy = c]
  <2>1. Advance(t, r) /\ req[t].at = "previous" /\ req[t].op = "edit"
    BY <1>7 DEF SaveEdit
  <2>2. /\ req[t].actor \in Users /\ Admin(req[t].actor) /\ u \in Users
        /\ u # req[t].actor /\ req[t].copy \in Account /\ ~req[t].copy.deleted
    BY <2>1 DEF Current, Begun, HasCopy, AdminOp, TargetOp, Sound, Known, Loaded, Entitled
  <2>3. users' = [users EXCEPT ![u] = c]
    BY <1>7 DEF SaveEdit, WriteAll
  <2>4. users'[u] = c /\ users'[req[t].actor] = users[req[t].actor]
    BY <2>2, <2>3 DEF TypeOK
  <2>5. a \in Account /\ ~a.deleted
    BY <2>2 DEF Account
  <2>6. ~c.deleted
    BY <2>5, NormalisedSame
  <2>7. /\ r.at = "saved" /\ r.target = u /\ r.copy = c
        /\ r.op = req[t].op /\ r.actor = req[t].actor
    BY DEF TypeOK, Request
  <2> HIDE DEF c, r
  <2>8. req'[s] = r
    BY <2>1, <1>m
  <2>9. QED
    BY <2>2, <2>4, <2>6, <2>7, <2>8 DEF Current, Begun, HasCopy, Admin, Effective, Exists
<1>8. ASSUME NEW t \in Workers, SaveOwnPassword(t)
      PROVE  Current(s)'
  <2> DEFINE u == req[t].actor
             c == [users[u] EXCEPT !.pwd = issued[u] + 1]
             r == [req[t] EXCEPT !.at = "saved", !.copy = c]
  <2>1. /\ req[t].at = "loaded" /\ req[t].op = "own_password" /\ req[t] \in Request
        /\ users' = [users EXCEPT ![u].pwd = issued[u] + 1]
    BY <1>8 DEF SaveOwnPassword, TypeOK
  <2>2. /\ u \in Users /\ Effective(u) /\ req[t].target = u /\ req[t].copy = users[u]
        /\ users[u] \in Account
    BY <2>1 DEF Current, Begun, HasCopy, OwnOp, Sound, Known, Loaded
  <2>3. Advance(t, r)
    BY <1>8, <2>1, <2>2 DEF SaveOwnPassword, Advance, Request
  <2>4. users'[u] = c
    BY <2>1, <2>2 DEF TypeOK
  <2>5. c.active = users[u].active /\ c.deleted = users[u].deleted
    BY <2>2 DEF Account
  <2>6. c # Absent
    <3>1. issued[u] + 1 \in Password
      BY <1>8, <2>2, MaxPwdPos DEF SaveOwnPassword, CanRekey, TypeOK, Password
    <3>2. c \in Account
      BY <2>2, <3>1 DEF Account
    <3>3. QED
      BY <3>2, AbsentIsNoAccount
  <2>7. /\ r.at = "saved" /\ r.target = u /\ r.copy = c
        /\ r.op = "own_password" /\ r.actor = u
    BY <2>1, <2>2 DEF Request
  <2> HIDE DEF c, r
  <2>8. req'[s] = r
    BY <2>3, <1>m
  <2>9. QED
    BY <2>2, <2>4, <2>5, <2>6, <2>7, <2>8
    DEF Current, Begun, HasCopy, Effective, Exists, AdminOp, TargetOp
<1>9. ASSUME NEW t \in Workers, \/ Abandon(t) \/ StartSession(t) \/ RecordAccount(t)
                                 \/ SavePassword(t) \/ SaveToggle(t) \/ SaveDelete(t)
                                 \/ SaveProfile(t) \/ UpdateSessionHash(t)
      PROVE  Current(s)'
  BY <1>9, <1>f DEF Abandon, StartSession, RecordAccount, SavePassword, SaveToggle,
                    SaveDelete, SaveProfile, UpdateSessionHash
<1>10. CASE UNCHANGED <<users, req>>
  BY <1>10 DEF Current, Begun, HasCopy, Admin, Effective, Exists
<1>11. ASSUME NEW b \in Browsers, Logout(b) \/ FlushSession(b)
       PROVE  UNCHANGED <<users, req>>
  BY <1>11 DEF Logout, FlushSession
<1>12. QED
  BY <1>1, <1>2, <1>3, <1>4, <1>5, <1>6, <1>7, <1>8, <1>9, <1>10, <1>11, Wider
  DEF AnyRead, AnyWrite, vars

LEMMA CInvInit == Init => CInv
<1> SUFFICES ASSUME Init PROVE CInv
  OBVIOUS
<1>1. IInv
  BY IInvInit
<1>2. \A t \in Threads : Current(t)
  BY DEF Init, NoRequest, Current, Begun, HasCopy
<1>3. ASSUME NEW u \in Users, Exists(u) PROVE users[u].pwd = 1
  BY <1>3, StartsRight
<1>4. Numbered
  BY <1>3 DEF Init, Numbered
<1>5. QED
  BY <1>1, <1>2, <1>4 DEF CInv

LEMMA CInvStep ==
  ASSUME Serial, CInv, [Next]_vars
  PROVE  CInv'
<1>1. IInv'
  BY IInvStep DEF CInv
<1>2. Numbered'
  BY ChangesStep, NumberedStep
<1>3. \A t \in Threads : Current(t)'
  BY CurrentStep
<1>4. QED
  BY <1>1, <1>2, <1>3 DEF CInv

LEMMA SerialStep ==
  ASSUME TypeOK, [Next]_vars
  PROVE  Serial' <=> Serial
BY Wider DEF Serial, Workers, vars

(* What requests keep that do not overlap, in a setting where they do not. *)
SInv == IInv /\ (Serial => CInv)

LEMMA SInvStep == SInv /\ [Next]_vars => SInv'
<1>1. IInv => TypeOK
  BY DEF IInv
<1>2. QED
  BY <1>1, CInvStep, IInvStep, SerialStep DEF SInv

(* models.py:175-179, admin_views.py:24-38.  Requests that do not overlap never leave
   the platform without a super admin who can sign in: whoever takes the role, the
   access or the account from another has it and keeps it. *)
THEOREM AdminRemains == Spec => []SuperAdminRemains
<1>1. Init => SInv /\ SuperAdminRemains
  <2> SUFFICES ASSUME Init PROVE SInv /\ SuperAdminRemains
    OBVIOUS
  <2>1. SInv
    BY CInvInit, IInvInit DEF SInv
  <2>2. users[Root].active /\ ~users[Root].deleted
    BY RootIsUser, StartsRight DEF Init
  <2>3. QED
    BY <2>1, <2>2, RootIsUser DEF Init, SuperAdminRemains, Effective
<1>2. (SInv /\ SuperAdminRemains) /\ [Next]_vars => (SInv /\ SuperAdminRemains)'
  <2> SUFFICES ASSUME SInv, SuperAdminRemains, [Next]_vars, Serial'
               PROVE  (\E u \in Users : Effective(u) /\ users[u].role = SUPER_ADMIN)'
    BY SInvStep DEF SuperAdminRemains
  <2>s. CInv /\ \E u \in Users : Admin(u)
    BY SerialStep DEF SInv, IInv, SuperAdminRemains, Admin
  <2>1. CASE UNCHANGED users
    BY <2>1, <2>s DEF Admin, Effective, Exists
  <2>2. ASSUME NEW a \in Users, NEW u \in Users, NEW e \in Account,
               users' = [users EXCEPT ![u] = e], Change(a, u, e)
        PROVE  (\E v \in Users : Effective(v) /\ users[v].role = SUPER_ADMIN)'
    <3>1. ASSUME NEW v \in Users, Admin(v), v # u \/ (~e.deleted /\ SameRights(u, e))
          PROVE  (\E w \in Users : Effective(w) /\ users[w].role = SUPER_ADMIN)'
      <4>1. /\ users'[v] # Absent /\ users'[v].active /\ ~users'[v].deleted
            /\ users'[v].role = SUPER_ADMIN
        BY <3>1, <2>2, <2>s, AbsentIsNoAccount
        DEF Admin, Effective, Exists, SameRights, CInv, IInv, TypeOK
      <4>2. QED
        BY <4>1 DEF Effective, Exists
    <3>2. CASE Enrols(a, u, e) \/ Amends(a, u, e) \/ Closes(a, u, e)
      BY <3>1, <3>2 DEF Enrols, Amends, Closes
    <3>3. CASE Rekeys(a, u, e) \/ Keeps(u, e)
      BY <3>1, <3>3, <2>s DEF Rekeys, Keeps
    <3>4. QED
      BY <2>2, <3>2, <3>3 DEF Change
  <2>3. QED
    BY <2>1, <2>2, <2>s, ChangesStep DEF Changes
<1>3. QED
  BY <1>1, <1>2, PTL DEF Spec

(* services.py:76-89.  Requests that do not overlap never touch a deleted account. *)
THEOREM DeletedForGood == Spec => DeletedIsFinal
<1>1. SInv /\ [Next]_vars =>
        [Serial => \A u \in Users :
                     Exists(u) /\ users[u].deleted => users'[u] = users[u]]_users
  <2> SUFFICES ASSUME SInv, [Next]_vars, Serial, NEW v \in Users, Exists(v), users[v].deleted
               PROVE  users'[v] = users[v]
    OBVIOUS
  <2>s. CInv
    BY DEF SInv
  <2>1. ASSUME NEW a \in Users, NEW u \in Users, NEW e \in Account,
               users' = [users EXCEPT ![u] = e], Change(a, u, e)
        PROVE  users'[v] = users[v]
    <3>1. u # v
      BY <2>1 DEF Change, Enrols, Amends, Rekeys, Closes, Keeps, Live
    <3>2. QED
      BY <2>1, <2>s, <3>1 DEF CInv, IInv, TypeOK
  <2>2. QED
    BY <2>1, <2>s, ChangesStep DEF Changes
<1>2. Init => SInv
  BY CInvInit, IInvInit DEF SInv
<1>3. QED
  BY <1>1, <1>2, SInvStep, PTL DEF Spec, DeletedIsFinal

-----------------------------------------------------------------------------
(* The account as the book has it. *)
Shown(e) ==
  IF e = Absent THEN Absent
  ELSE IF e.deleted THEN NoUser
  ELSE [role |-> e.role, active |-> e.active, pwd |-> e.pwd]

LEMMA ShelfShows == Shelf = [u \in Users |-> Shown(users[u])]
BY DEF Shelf, Shown, Exists

LEMMA ShownLive ==
  ASSUME TypeOK, NEW u \in Users
  PROVE  /\ Live(u) => /\ Shelf[u] = [role |-> users[u].role, active |-> users[u].active,
                                      pwd |-> users[u].pwd]
                       /\ Shelf[u] \in Entry
                       /\ Shelf[u].pwd = users[u].pwd /\ Shelf[u].role = users[u].role
                       /\ Shelf[u].active = users[u].active
                       /\ Shelf[u] \notin {Absent, NoUser}
         /\ Shelf[u] \notin {Absent, NoUser} => Live(u)
<1>1. CASE Live(u)
  <2>1. users[u] \in Account
    BY <1>1 DEF Live, Exists, TypeOK
  <2>2. Shelf[u] = [role |-> users[u].role, active |-> users[u].active, pwd |-> users[u].pwd]
    BY <1>1, ShelfShows DEF Shown, Live, Exists
  <2>3. Shelf[u] \in Entry
    BY <2>1, <2>2 DEF Entry, Account
  <2>4. /\ Shelf[u].pwd = users[u].pwd /\ Shelf[u].role = users[u].role
        /\ Shelf[u].active = users[u].active
    BY <2>2
  <2>5. QED
    BY <1>1, <2>2, <2>3, <2>4, MarksAreNoEntries
<1>2. CASE ~Live(u)
  BY <1>2, ShelfShows DEF Shown, Live, Exists
<1>3. QED
  BY <1>1, <1>2

LEMMA RightsReplaced ==
  ASSUME NEW e \in Entry, NEW r \in Role, NEW b \in BOOLEAN
  PROVE  [e EXCEPT !.role = r, !.active = b] = [role |-> r, active |-> b, pwd |-> e.pwd]
<1> DEFINE f == [e EXCEPT !.role = r, !.active = b]
<1>1. f \in Entry /\ f.role = r /\ f.active = b /\ f.pwd = e.pwd
  BY DEF Entry
<1> HIDE DEF f
<1>2. f = [role |-> f.role, active |-> f.active, pwd |-> f.pwd]
  BY <1>1 DEF Entry
<1>3. QED
  BY <1>1, <1>2 DEF f

(* What a change of the store is in the book. *)
LEMMA BookStep ==
  ASSUME CInv, [Next]_vars
  PROVE  Book!Next \/ UNCHANGED Shelf
<1> USE DEF CInv, IInv
<1>1. CASE UNCHANGED users
  BY <1>1 DEF Shelf, Exists
<1>2. ASSUME NEW a \in Users, NEW u \in Users, NEW e \in Account,
             users' = [users EXCEPT ![u] = e], Change(a, u, e)
      PROVE  Book!Next \/ UNCHANGED Shelf
  <2>1. Shelf' = [Shelf EXCEPT ![u] = Shown(e)]
    BY <1>2, ShelfShows DEF Shelf, Exists, Shown, TypeOK
  <2>2. /\ e.role \in Role /\ e.active \in BOOLEAN
        /\ ~e.deleted => Shown(e) = [role |-> e.role, active |-> e.active, pwd |-> e.pwd]
        /\ e.deleted => Shown(e) = NoUser
    BY AbsentIsNoAccount DEF Shown, Account
  <2>s. TypeOK
    OBVIOUS
  <2>a. Admin(a) /\ a # u => Book!Administers(a, u)
    BY ONLY <2>s, ShownLive, a \in Users DEF Book!Administers, Book!Open, Admin, Effective, Live
  <2>3. CASE Enrols(a, u, e)
    <3>1. Shelf[u] = Absent /\ Shown(e) = [role |-> e.role, active |-> e.active, pwd |-> 1]
      BY <2>2, <2>3 DEF Enrols, Shelf, Shown, Exists, Numbered
    <3>2. Book!Enrol(a, u, e.role, e.active)
      BY <2>1, <2>3, <2>a, <3>1 DEF Book!Enrol, Enrols
    <3>3. QED
      BY <2>2, <3>2 DEF Book!Next
  <2>4. CASE Amends(a, u, e)
    <3>0. Shelf[u] \in Entry /\ Shelf[u].pwd = users[u].pwd
      BY <2>4, ShownLive DEF Amends
    <3>1. PICK r \in Role, b \in BOOLEAN : e.role = r /\ e.active = b
      BY <2>2
    <3>2. Shown(e) = [Shelf[u] EXCEPT !.role = r, !.active = b]
      <4>1. [Shelf[u] EXCEPT !.role = r, !.active = b]
              = [role |-> r, active |-> b, pwd |-> users[u].pwd]
        BY <3>0, RightsReplaced
      <4>2. QED
        BY <2>2, <2>4, <3>1, <4>1 DEF Amends
    <3>3. Book!Amend(a, u, r, b)
      BY <2>1, <2>4, <2>a, <3>2, ShownLive DEF Book!Amend, Book!Open, Amends
    <3>4. QED
      BY <3>3 DEF Book!Next
  <2>5. CASE Rekeys(a, u, e)
    <3>0. Shelf[u] = [role |-> users[u].role, active |-> users[u].active, pwd |-> issued[u]]
      BY <2>5, ShownLive DEF Rekeys, Numbered, Live
    <3>1. Shown(e) = [Shelf[u] EXCEPT !.pwd = @ + 1]
      BY <2>2, <2>5, <3>0 DEF Rekeys, SameRights
    <3>2. Book!Rekey(a, u)
      BY <2>1, <2>5, <2>a, <3>1, ShownLive
      DEF Book!Rekey, Book!Open, Rekeys, Effective, Live
    <3>3. QED
      BY <3>2 DEF Book!Next
  <2>6. CASE Closes(a, u, e)
    <3>1. Book!Close(a, u)
      BY <2>1, <2>2, <2>6, <2>a, ShownLive DEF Book!Close, Book!Open, Closes
    <3>2. QED
      BY <3>1 DEF Book!Next
  <2>7. CASE Keeps(u, e)
    <3>1. Shown(e) = Shelf[u]
      BY <2>2, <2>7, ShownLive DEF Keeps, SameRights
    <3>2. QED
      BY <2>1, <3>1 DEF Shelf
  <2>8. QED
    BY <1>2, <2>3, <2>4, <2>5, <2>6, <2>7 DEF Change
<1>3. QED
  BY <1>1, <1>2, ChangesStep DEF Changes

(* services.py:15-94, admin_views.py:24-38, views.py:67-93.  Requests that do not
   overlap implement AccountBook, whether or not workers die between their steps. *)
THEOREM ImplementsBook == Spec => KeepsTheBook
<1>1. Init => Book!Init
  <2> SUFFICES ASSUME Init PROVE Book!Init
    OBVIOUS
  <2>1. TypeOK
    BY TypeOKInit
  <2>2. ASSUME NEW u \in Users, Live(u) PROVE users[u].active /\ users[u].pwd = 1
    BY <2>2, StartsRight DEF Live
  <2>3. Live(Root)
    BY RootIsUser, StartsRight DEF Init, Live
  <2>4. QED
    BY <2>1, <2>2, <2>3, RootIsUser, ShownLive DEF Book!Init, Book!Open, Init
<1>2. SInv /\ [Next]_vars => [Serial => Book!Next]_Shelf
  BY BookStep DEF SInv
<1>3. Init => SInv
  BY CInvInit, IInvInit DEF SInv
<1>4. QED
  BY <1>1, <1>2, <1>3, SInvStep, PTL DEF Spec, KeepsTheBook

-----------------------------------------------------------------------------
(* An account that is not deleted has an email of its own. *)
Addressed == \A u \in Users : Live(u) => users[u].email \in Emails

Unique ==
  \A u, v \in Users : Exists(u) /\ Exists(v) /\ u # v =>
     users[u].email # users[v].email \/ users[u].email = NoEmail

(* A write keeps that so when the index lets it pass. *)
LEMMA EmailWritten ==
  ASSUME TypeOK, Addressed, Unique, NEW u \in Users, NEW a \in Account,
         users' = [users EXCEPT ![u] = a],
         EmailFree(a.email, u), a.deleted \/ a.email \in Emails
  PROVE  Addressed' /\ Unique'
<1>1. users'[u] = a /\ \A v \in Users \ {u} : users'[v] = users[v]
  BY DEF TypeOK
<1>2. Addressed'
  BY <1>1 DEF Addressed, Live, Exists
<1>3. \A v \in Users \ {u} : Exists(v) => a.email # users[v].email \/ a.email = NoEmail
  BY DEF EmailFree
<1>4. Unique'
  BY <1>1, <1>3 DEF Unique, Exists
<1>5. QED
  BY <1>2, <1>4

LEMMA EmailKept ==
  ASSUME TypeOK, Addressed, Unique, NEW u \in Users, NEW a \in Account, Live(u),
         users' = [users EXCEPT ![u] = a], a.email = users[u].email
  PROVE  Addressed' /\ Unique'
<1>1. EmailFree(a.email, u)
  BY DEF EmailFree, Unique, Live
<1>2. a.email \in Emails
  BY DEF Addressed
<1>3. QED
  BY <1>1, <1>2, EmailWritten

LEMMA EmailsStep ==
  ASSUME CInv, Addressed, Unique, [Next]_vars
  PROVE  Addressed' /\ Unique'
<1> USE DEF CInv, IInv
<1>c. ASSUME NEW t \in Threads, HasCopy(t)
      PROVE  /\ req[t].target \in Users /\ Live(req[t].target)
             /\ req[t].copy = users[req[t].target] /\ req[t].copy \in Account
             /\ req[t].op \in OwnOp => req[t].target = req[t].actor
  BY <1>c DEF Sound, Loaded, Current, Live
<1>1. ASSUME NEW t \in Threads, NEW u \in Users, NEW email \in Emails, NEW role \in Role,
             NEW active \in BOOLEAN, InsertUser(t, u, email, role, active)
      PROVE  Addressed' /\ Unique'
  <2> DEFINE a == NewAccount(email, role, active, issued[u] + 1)
  <2>1. issued[u] + 1 \in Password
    BY <1>1, MaxPwdPos DEF InsertUser, CanRekey, TypeOK, Password
  <2>2. a \in Account /\ a.email = email /\ Normalised(a) = a
    BY <2>1, NewIsAccount
  <2>3. users' = [users EXCEPT ![u] = Normalised(a)] /\ EmailFree(a.email, u)
    BY <1>1 DEF InsertUser, WriteAll
  <2> HIDE DEF a
  <2>4. QED
    BY <2>2, <2>3, EmailWritten
<1>2. ASSUME NEW t \in Threads, NEW email \in Emails, NEW role \in Role, NEW active \in BOOLEAN,
             SaveEdit(t, email, role, active)
      PROVE  Addressed' /\ Unique'
  <2> DEFINE a == [req[t].copy EXCEPT !.email = email, !.role = role, !.active = active]
  <2>1. HasCopy(t)
    BY <1>2 DEF SaveEdit, HasCopy
  <2>2. a \in Account /\ a.email = email
    BY <2>1, <1>c DEF Account
  <2>3. users' = [users EXCEPT ![req[t].target] = Normalised(a)] /\ EmailFree(a.email, req[t].target)
    BY <1>2 DEF SaveEdit, WriteAll
  <2> HIDE DEF a
  <2>4. QED
    BY <2>1, <2>2, <2>3, <1>c, EmailWritten, NormalisedAccount
<1>3. ASSUME NEW t \in Threads, SaveDelete(t)
      PROVE  Addressed' /\ Unique'
  <2> DEFINE a == [req[t].copy EXCEPT !.email = NoEmail, !.active = FALSE, !.deleted = TRUE,
                                      !.pwd = Unusable]
  <2>1. HasCopy(t)
    BY <1>3 DEF SaveDelete, HasCopy
  <2>2. Unusable \in Password
    BY MaxPwdPos DEF Unusable, Password
  <2>3. a \in Account /\ a.deleted
    BY <2>1, <2>2, <1>c DEF Account
  <2>4. users' = [users EXCEPT ![req[t].target] = Normalised(a)] /\ EmailFree(a.email, req[t].target)
    BY <1>3 DEF SaveDelete, WriteAll
  <2> HIDE DEF a
  <2>5. QED
    BY <2>1, <2>3, <2>4, <1>c, EmailWritten, NormalisedSame, NormalisedAccount
<1>4. ASSUME NEW t \in Threads, SaveProfile(t)
      PROVE  Addressed' /\ Unique'
  <2>1. HasCopy(t) /\ req[t].op \in OwnOp
    BY <1>4 DEF SaveProfile, HasCopy, OwnOp
  <2>2. users' = [users EXCEPT ![req[t].actor] = Normalised(req[t].copy)]
    BY <1>4 DEF SaveProfile, WriteAll
  <2>3. QED
    BY <2>1, <2>2, <1>c, EmailKept, NormalisedAccount
<1>5. ASSUME NEW t \in Threads, SaveToggle(t)
      PROVE  Addressed' /\ Unique'
  <2> DEFINE u == req[t].target
             b == Normalised(req[t].copy)
             a == [users[u] EXCEPT !.active = ~b.active, !.su = b.su]
  <2>1. HasCopy(t)
    BY <1>5 DEF SaveToggle, HasCopy
  <2>2. u \in Users /\ Live(u) /\ users[u] \in Account /\ b \in Account
    BY <2>1, <1>c, NormalisedAccount
  <2>3. a \in Account /\ a.email = users[u].email
    BY <2>2 DEF Account
  <2>4. users' = [users EXCEPT ![u] = a]
    BY <1>5, <2>2 DEF SaveToggle, TypeOK
  <2> HIDE DEF a
  <2>5. QED
    BY <2>2, <2>3, <2>4, EmailKept
<1>6. ASSUME NEW t \in Threads, NEW u \in Users, HasCopy(t), u = req[t].target,
             users' = [users EXCEPT ![u].pwd = issued[u] + 1], CanRekey(u)
      PROVE  Addressed' /\ Unique'
  <2> DEFINE a == [users[u] EXCEPT !.pwd = issued[u] + 1]
  <2>1. Live(u) /\ users[u] \in Account
    BY <1>6, <1>c
  <2>2. issued[u] + 1 \in Password
    BY <1>6, MaxPwdPos DEF CanRekey, TypeOK, Password
  <2>3. a \in Account /\ a.email = users[u].email
    BY <2>1, <2>2 DEF Account
  <2>4. users' = [users EXCEPT ![u] = a]
    BY <1>6, <2>1 DEF TypeOK
  <2> HIDE DEF a
  <2>5. QED
    BY <2>1, <2>3, <2>4, EmailKept
<1>7. ASSUME NEW t \in Threads, SavePassword(t)
      PROVE  Addressed' /\ Unique'
  BY <1>7, <1>6, <1>c DEF SavePassword, HasCopy
<1>8. ASSUME NEW t \in Threads, SaveOwnPassword(t)
      PROVE  Addressed' /\ Unique'
  BY <1>8, <1>6, <1>c DEF SaveOwnPassword, HasCopy, OwnOp
<1>9. CASE UNCHANGED users
  BY <1>9 DEF Addressed, Unique, Live, Exists
<1>10. ASSUME NEW t \in Threads, AnyRead(t) \/ StartSession(t) \/ RecordAccount(t)
                                            \/ UpdateSessionHash(t)
       PROVE  UNCHANGED users
  BY <1>10, Zenon DEF AnyRead, CheckCredentials, AdmitOwn, AdmitAdmin, LoadTarget,
     ReadPreviousRole, Abandon, StartSession, RecordAccount, UpdateSessionHash
<1>11. ASSUME NEW b \in Browsers, Logout(b) \/ FlushSession(b) PROVE UNCHANGED users
  BY <1>11 DEF Logout, FlushSession
<1>12. QED
  BY <1>1, <1>2, <1>3, <1>4, <1>5, <1>7, <1>8, <1>9, <1>10, <1>11, Wider
  DEF AnyWrite, vars

-----------------------------------------------------------------------------
(* While no worker dies and no record is lost: under its email the log shows the role of
   every account that was not renamed, but of the one whose change is about to be recorded
   (Logged), and what that record will be compared with is what the log still shows
   (Prior). *)
Recording(t, u) ==
  req[t].at = "saved" /\ req[t].op \in {"create", "edit"} /\ req[t].target = u

Shows(u) == trail[users[u].email] = users[u].role

Logged ==
  \A u \in Users \ renamed : Live(u) => Shows(u) \/ \E t \in Threads : Recording(t, u)

Prior(t) ==
  /\ req[t].at \in {"admitted", "loaded"} => req[t].prev = NoRole
  /\ req[t].at = "previous" => req[t].prev = users[req[t].target].role
  /\ req[t].at = "saved" /\ req[t].op = "edit" /\ req[t].target \notin renamed =>
        req[t].prev = trail[req[t].copy.email]
  /\ req[t].at = "saved" /\ req[t].op = "create" => req[t].prev = NoRole

LInv == CInv /\ Addressed /\ Unique /\ Logged /\ \A t \in Threads : Prior(t)

Straight == \A u \in Users \ renamed : Live(u) => Shows(u)

LEMMA NothingToRecord ==
  ASSUME Serial, LInv, NEW t \in Workers,
         req[t].at # "saved" \/ req[t].op \notin {"create", "edit"}
  PROVE  Straight
<1>1. ASSUME NEW s \in Threads, NEW u \in Users PROVE ~Recording(s, u)
  <2>1. CASE s \in Workers
    BY <2>1 DEF Serial, Recording
  <2>2. CASE s \notin Workers
    BY <2>2 DEF LInv, CInv, IInv, Asleep, NoRequest, Recording
  <2>3. QED
    BY <2>1, <2>2
<1>2. QED
  BY <1>1 DEF LInv, Logged, Straight

(* A write that leaves role and email of the account alone, or closes it. *)
LEMMA RoleKept ==
  ASSUME TypeOK, Straight, trail' = trail, NEW u \in Users, NEW a \in Account,
         Live(u), users' = [users EXCEPT ![u] = a], renamed \subseteq renamed',
         a.deleted \/ (a.role = users[u].role /\ a.email = users[u].email)
  PROVE  Straight'
BY DEF Straight, Shows, Live, Exists, TypeOK

LEMMA LInvStep ==
  ASSUME ~Faults, Serial, LInv, [Next]_vars
  PROVE  LInv'
<1> USE DEF LInv, CInv, IInv
<1>w. Workers \subseteq Threads
  BY SettingParts
<1> USE <1>w
<1>c. CInv' /\ Addressed' /\ Unique'
  BY CInvStep, EmailsStep
<1>o. ASSUME NEW t \in Workers, NEW s \in Threads, s # t PROVE Prior(s)'
  <2>1. req'[s] = NoRequest
    BY <1>c, <1>o, Wider DEF Serial, Asleep, Workers, vars
  <2>2. QED
    BY <2>1 DEF NoRequest, Prior
<1>m. ASSUME NEW t \in Workers, NEW r, Advance(t, r) PROVE req'[t] = r
  BY <1>m DEF Advance, TypeOK
<1>s. ASSUME NEW t \in Workers, Prior(t)', Straight' PROVE LInv'
  BY <1>s, <1>c, <1>o DEF Straight, Logged
<1>f. ASSUME NEW t \in Workers, Finish(t), Straight' PROVE LInv'
  <2>1. req'[t] = NoRequest
    BY <1>f, <1>m DEF Finish
  <2>2. Prior(t)'
    BY <2>1 DEF NoRequest, Prior
  <2>3. QED
    BY <2>2, <1>f, <1>s
<1>q. ASSUME NEW t \in Workers, req[t].at # "saved" \/ req[t].op \notin {"create", "edit"},
             UNCHANGED <<users, trail, renamed>>
      PROVE  Straight'
  BY <1>q, NothingToRecord DEF Straight, Shows, Live, Exists
<1>k. ASSUME NEW t \in Workers, NEW u \in Users, NEW a \in Account, req[t].at = "loaded",
             Live(u), users' = [users EXCEPT ![u] = a], trail' = trail,
             renamed \subseteq renamed',
             a.deleted \/ (a.role = users[u].role /\ a.email = users[u].email)
      PROVE  Straight'
  BY <1>k, NothingToRecord, RoleKept
<1>1. ASSUME NEW t \in Workers, NEW b \in Browsers, NEW u \in Users, CheckCredentials(t, b, u)
      PROVE  LInv'
  <2> DEFINE r == [NoRequest EXCEPT !.op = "login", !.at = "loaded", !.browser = b,
                                    !.actor = u, !.target = u, !.copy = users[u]]
  <2>1. Advance(t, r) /\ UNCHANGED <<users, trail, renamed>> /\ req[t].at = "idle"
    BY <1>1 DEF CheckCredentials, NoRequest
  <2>2. r.at = "loaded" /\ r.prev = NoRole
    BY DEF NoRequest
  <2> HIDE DEF r
  <2>3. Prior(t)'
    BY <2>1, <2>2, <1>m DEF Prior
  <2>4. QED
    BY <2>1, <2>3, <1>q, <1>s
<1>2. ASSUME NEW t \in Workers, NEW b \in Browsers, NEW op \in OwnOp, AdmitOwn(t, b, op)
      PROVE  LInv'
  <2> DEFINE u == sessions[b].user
             r == [NoRequest EXCEPT !.op = op, !.at = "loaded", !.browser = b,
                                    !.actor = u, !.target = u, !.copy = users[u]]
  <2>1. Advance(t, r) /\ UNCHANGED <<users, trail, renamed>> /\ req[t].at = "idle"
    BY <1>2 DEF AdmitOwn, NoRequest
  <2>2. r.at = "loaded" /\ r.prev = NoRole
    BY DEF NoRequest
  <2> HIDE DEF r
  <2>3. Prior(t)'
    BY <2>1, <2>2, <1>m DEF Prior
  <2>4. QED
    BY <2>1, <2>3, <1>q, <1>s
<1>3. ASSUME NEW t \in Workers, NEW b \in Browsers, NEW op \in AdminOp, AdmitAdmin(t, b, op)
      PROVE  LInv'
  <2> DEFINE r == [NoRequest EXCEPT !.op = op, !.at = "admitted", !.browser = b,
                                    !.actor = sessions[b].user]
  <2>1. Advance(t, r) /\ UNCHANGED <<users, trail, renamed>> /\ req[t].at = "idle"
    BY <1>3 DEF AdmitAdmin, NoRequest
  <2>2. r.at = "admitted" /\ r.prev = NoRole
    BY DEF NoRequest
  <2> HIDE DEF r
  <2>3. Prior(t)'
    BY <2>1, <2>2, <1>m DEF Prior
  <2>4. QED
    BY <2>1, <2>3, <1>q, <1>s
<1>4. ASSUME NEW t \in Workers, NEW u \in Users, LoadTarget(t, u)
      PROVE  LInv'
  <2> DEFINE r == [req[t] EXCEPT !.at = "loaded", !.target = u, !.copy = users[u]]
  <2>1. Advance(t, r) /\ UNCHANGED <<users, trail, renamed>> /\ req[t].at = "admitted"
    BY <1>4 DEF LoadTarget
  <2>2. r.at = "loaded" /\ r.prev = req[t].prev
    BY DEF TypeOK, Request
  <2> HIDE DEF r
  <2>3. Prior(t)'
    BY <2>1, <2>2, <1>m DEF Prior
  <2>4. QED
    BY <2>1, <2>3, <1>q, <1>s
<1>5. ASSUME NEW t \in Workers, ReadPreviousRole(t)
      PROVE  LInv'
  <2> DEFINE r == [req[t] EXCEPT !.at = "previous", !.prev = users[req[t].target].role]
  <2>1. Advance(t, r) /\ UNCHANGED <<users, trail, renamed>> /\ req[t].at = "loaded"
    BY <1>5 DEF ReadPreviousRole
  <2>2. r.at = "previous" /\ r.target = req[t].target /\ r.prev = users[req[t].target].role
    BY DEF TypeOK, Request
  <2> HIDE DEF r
  <2>3. Prior(t)'
    BY <2>1, <2>2, <1>m DEF Prior
  <2>4. QED
    BY <2>1, <2>3, <1>q, <1>s
<1>6. ASSUME NEW t \in Workers, NEW u \in Users, NEW email \in Emails, NEW role \in Role,
             NEW active \in BOOLEAN, InsertUser(t, u, email, role, active)
      PROVE  LInv'
  <2> DEFINE a == NewAccount(email, role, active, issued[u] + 1)
             r == [req[t] EXCEPT !.at = "saved", !.target = u, !.copy = a]
  <2>1. /\ Advance(t, r) /\ req[t].at = "admitted" /\ req[t].op = "create"
        /\ trail' = trail /\ users' = [users EXCEPT ![u] = Normalised(a)]
        /\ renamed \subseteq renamed'
    BY <1>6 DEF InsertUser, WriteAll
  <2>2. r.at = "saved" /\ r.op = "create" /\ r.target = u /\ r.prev = req[t].prev
    BY <2>1 DEF TypeOK, Request
  <2> HIDE DEF a, r
  <2>3. Prior(t)' /\ Recording(t, u)'
    BY <2>1, <2>2, <1>m DEF Prior, Recording
  <2>4. Straight
    BY <2>1, NothingToRecord
  <2>5. Logged'
    <3>1. ASSUME NEW v \in Users, v \notin renamed', Live(v)', v # u PROVE Shows(v)'
      BY <2>1, <2>4, <3>1 DEF Straight, Shows, Live, Exists, TypeOK
    <3>2. QED
      BY <2>3, <3>1 DEF Logged
  <2>6. QED
    BY <2>3, <2>5, <1>c, <1>o
<1>7. ASSUME NEW t \in Workers, NEW email \in Emails, NEW role \in Role, NEW active \in BOOLEAN,
             SaveEdit(t, email, role, active)
      PROVE  LInv'
  <2> DEFINE u == req[t].target
             a == [req[t].copy EXCEPT !.email = email, !.role = role, !.active = active]
             c == Normalised(a)
             r == [req[t] EXCEPT !.at = "saved", !.copy = c]
  <2>1. /\ Advance(t, r) /\ req[t].at = "previous" /\ req[t].op = "edit"
        /\ trail' = trail /\ users' = [users EXCEPT ![u] = c]
        /\ renamed' = IF Exists(u) /\ users[u].email # a.email THEN renamed \cup {u} ELSE renamed
    BY <1>7 DEF SaveEdit, WriteAll
  <2>2. r.at = "saved" /\ r.op = "edit" /\ r.target = u /\ r.prev = req[t].prev /\ r.copy = c
    BY <2>1 DEF TypeOK, Request
  <2>3. u \in Users /\ Live(u) /\ req[t].copy \in Account
    BY <2>1 DEF Sound, Loaded, Current, HasCopy, Live
  <2>a. a \in Account
    BY <2>3 DEF Account
  <2> HIDE DEF a
  <2>b. c.email = a.email
    BY <2>a, NormalisedAccount
  <2> HIDE DEF c, r
  <2>4. Straight
    BY <2>1, NothingToRecord
  <2>5. u \notin renamed' => req[t].prev = trail[c.email]
    <3>1. req[t].prev = users[u].role
      BY <2>1 DEF Prior
    <3>2. u \notin renamed' => u \notin renamed /\ users[u].email = c.email
      BY <2>1, <2>3, <2>b DEF Live
    <3>3. QED
      BY <3>1, <3>2, <2>3, <2>4 DEF Straight, Shows
  <2>6. /\ Prior(t)'
        /\ req'[t].at = "saved" /\ req'[t].op = "edit" /\ req'[t].target = u
    BY <2>1, <2>2, <2>5, <1>m DEF Prior
  <2>7. Logged'
    <3>1. ASSUME NEW v \in Users, v \notin renamed', Live(v)', v # u PROVE Shows(v)'
      BY <2>1, <2>4, <3>1 DEF Straight, Shows, Live, Exists, TypeOK
    <3>2. QED
      BY <2>6, <3>1 DEF Logged, Recording
  <2>8. QED
    BY <2>6, <2>7, <1>c, <1>o
<1>8. ASSUME NEW t \in Workers, RecordAccount(t)
      PROVE  LInv'
  <2> DEFINE u == req[t].target
             e == req[t].copy.email
  <2>1. /\ req[t].op \in {"create", "edit"} /\ req[t].at = "saved"
        /\ users' = users /\ renamed' = renamed /\ Finish(t)
    BY <1>8 DEF RecordAccount
  <2>2. /\ u \in Users /\ Live(u) /\ req[t].copy \in Account
        /\ req[t].copy = users[u]
    BY <2>1 DEF Sound, Loaded, Current, HasCopy, Live
  <2>3. req[t].copy.role \in Role /\ e \in Emails
    BY <2>2 DEF Account, Addressed
  <2>4. ASSUME NEW v \in Users \ renamed, v # u, Live(v)
        PROVE  Shows(v) /\ users[v].email # e /\ users[v].email \in Emails
    <3>1. ASSUME NEW s \in Threads PROVE ~Recording(s, v)
      BY <2>4 DEF Serial, Asleep, NoRequest, Recording
    <3>2. QED
      BY <2>2, <2>3, <2>4, <3>1, NoEmailIsNoEmail DEF Logged, Unique, Addressed, Live
  <2>5. /\ u \notin renamed => trail'[e] = users[u].role
        /\ \A f \in Emails \ {e} : trail'[f] = trail[f]
    <3>1. CASE req[t].copy.role # req[t].prev
      <4>1. trail' = [trail EXCEPT ![e] = req[t].copy.role]
        BY <1>8, <3>1 DEF RecordAccount, RecordRole
      <4>2. QED
        BY <4>1, <2>2, <2>3 DEF TypeOK
    <3>2. CASE req[t].copy.role = req[t].prev
      <4>1. trail' = trail
        BY <1>8, <3>2 DEF RecordAccount
      <4>2. req[t].op = "edit"
        BY <2>1, <2>3, <3>2, NoRoleIsNoRole DEF Prior
      <4>3. QED
        BY <2>1, <2>2, <3>2, <4>1, <4>2 DEF Prior
    <3>3. QED
      BY <3>1, <3>2
  <2>6. Straight'
    <3>1. ASSUME NEW v \in Users, v \notin renamed, Live(v)
          PROVE  trail'[users[v].email] = users[v].role
      BY <2>2, <2>4, <2>5, <3>1 DEF Shows
    <3>2. QED
      BY <2>1, <3>1 DEF Straight, Shows, Live, Exists
  <2>7. QED
    BY <2>1, <2>6, <1>f
<1>t. ASSUME NEW t \in Workers, req[t].at = "loaded"
      PROVE  /\ req[t].target \in Users /\ Live(req[t].target)
             /\ req[t].actor \in Users
             /\ users[req[t].target] \in Account /\ users[req[t].actor] \in Account
             /\ req[t].copy = users[req[t].target]
             /\ req[t].op \in OwnOp => req[t].target = req[t].actor
  BY <1>t DEF HasCopy, Begun, Sound, Known, Loaded, Current, Live, Exists, TypeOK
<1>9. ASSUME NEW t \in Workers, SavePassword(t)
      PROVE  LInv'
  <2> DEFINE u == req[t].target
             a == [users[u] EXCEPT !.pwd = issued[u] + 1]
  <2>1. /\ req[t].at = "loaded" /\ Finish(t) /\ trail' = trail
        /\ renamed \subseteq renamed'
    BY <1>9 DEF SavePassword
  <2>2. issued[u] + 1 \in Password
    BY <1>9, <2>1, <1>t, MaxPwdPos DEF SavePassword, CanRekey, TypeOK, Password
  <2>3. a \in Account /\ a.role = users[u].role /\ a.email = users[u].email
    BY <2>1, <2>2, <1>t DEF Account
  <2>4. users' = [users EXCEPT ![u] = a]
    BY <1>9, <2>1, <1>t DEF SavePassword, TypeOK
  <2>5. Straight'
    BY <2>1, <2>3, <2>4, <1>t, <1>k
  <2>6. QED
    BY <2>1, <2>5, <1>f
<1>10. ASSUME NEW t \in Workers, SaveToggle(t)
       PROVE  LInv'
  <2> DEFINE u == req[t].target
             b == Normalised(req[t].copy)
             a == [users[u] EXCEPT !.active = ~b.active, !.su = b.su]
  <2>1. /\ req[t].at = "loaded" /\ Finish(t) /\ trail' = trail
        /\ renamed \subseteq renamed'
    BY <1>10 DEF SaveToggle
  <2>2. b \in Account
    BY <2>1, <1>t, NormalisedAccount
  <2>3. a \in Account /\ a.role = users[u].role /\ a.email = users[u].email
    BY <2>1, <2>2, <1>t DEF Account
  <2>4. users' = [users EXCEPT ![u] = a]
    BY <1>10, <2>1, <1>t DEF SaveToggle, TypeOK
  <2>5. Straight'
    BY <2>1, <2>3, <2>4, <1>t, <1>k
  <2>6. QED
    BY <2>1, <2>5, <1>f
<1>11. ASSUME NEW t \in Workers, SaveDelete(t)
       PROVE  LInv'
  <2> DEFINE u == req[t].target
             a == [req[t].copy EXCEPT !.email = NoEmail, !.active = FALSE, !.deleted = TRUE,
                                 !.pwd = Unusable]
  <2>1. /\ req[t].at = "loaded" /\ Finish(t) /\ trail' = trail
        /\ renamed \subseteq renamed'
    BY <1>11 DEF SaveDelete, WriteAll
  <2>2. Unusable \in Password
    BY MaxPwdPos DEF Unusable, Password
  <2>3. a \in Account /\ a.deleted
    BY <2>1, <2>2, <1>t DEF Account
  <2>4. users' = [users EXCEPT ![u] = Normalised(a)]
    BY <1>11 DEF SaveDelete, WriteAll
  <2> HIDE DEF a
  <2>5. Straight'
    BY <2>1, <2>3, <2>4, <1>t, <1>k, NormalisedSame
  <2>6. QED
    BY <2>1, <2>5, <1>f
<1>12. ASSUME NEW t \in Workers, SaveProfile(t)
       PROVE  LInv'
  <2>1. /\ req[t].at = "loaded" /\ req[t].op \in OwnOp /\ Finish(t) /\ trail' = trail
        /\ renamed \subseteq renamed'
    BY <1>12 DEF SaveProfile, WriteAll, OwnOp
  <2>2. users' = [users EXCEPT ![req[t].actor] = Normalised(req[t].copy)]
    BY <1>12 DEF SaveProfile, WriteAll
  <2>3. Straight'
    BY <2>1, <2>2, <1>t, <1>k, NormalisedAccount
  <2>4. QED
    BY <2>1, <2>3, <1>f
<1>13. ASSUME NEW t \in Workers, SaveOwnPassword(t)
       PROVE  LInv'
  <2> DEFINE u == req[t].actor
             a == [users[u] EXCEPT !.pwd = issued[u] + 1]
             r == [req[t] EXCEPT !.at = "saved",
                                 !.copy = [req[t].copy EXCEPT !.pwd = issued[u] + 1]]
  <2>1. /\ req[t].at = "loaded" /\ req[t].op = "own_password" /\ trail' = trail
        /\ req[t] \in Request /\ renamed' = renamed
    BY <1>13 DEF SaveOwnPassword, TypeOK
  <2>2. issued[u] + 1 \in Password
    BY <1>13, <2>1, <1>t, MaxPwdPos DEF SaveOwnPassword, CanRekey, TypeOK, Password
  <2>3. a \in Account /\ a.role = users[u].role /\ a.email = users[u].email
    BY <2>1, <2>2, <1>t DEF Account
  <2>4. users' = [users EXCEPT ![u] = a]
    BY <1>13, <2>1, <1>t DEF SaveOwnPassword, TypeOK
  <2>a. u \in Users /\ Live(u)
    BY <2>1, <1>t DEF OwnOp
  <2>5. Straight'
    BY <2>1, <2>3, <2>4, <2>a, <1>k
  <2>6. Advance(t, r) /\ r.at = "saved" /\ r.op = "own_password"
    BY <1>13, <2>1 DEF SaveOwnPassword, Advance, Request
  <2> HIDE DEF r
  <2>7. Prior(t)'
    BY <2>6, <1>m DEF Prior
  <2>8. QED
    BY <2>5, <2>7, <1>s
<1>14. ASSUME NEW t \in Workers, Abandon(t) \/ StartSession(t) \/ UpdateSessionHash(t)
       PROVE  LInv'
  <2>1. /\ req[t].at # "saved" \/ req[t].op \notin {"create", "edit"}
        /\ UNCHANGED <<users, trail, renamed>> /\ Finish(t)
    BY <1>14 DEF Abandon, StartSession, UpdateSessionHash
  <2>2. QED
    BY <2>1, <1>q, <1>f
<1>15. CASE UNCHANGED <<users, req, trail, renamed>>
  BY <1>15, <1>c DEF Logged, Shows, Prior, Recording, Live, Exists
<1>16. ASSUME NEW b \in Browsers, Logout(b) \/ FlushSession(b)
       PROVE  UNCHANGED <<users, req, trail, renamed>>
  BY <1>16 DEF Logout, FlushSession
<1>17. QED
  BY <1>1, <1>2, <1>3, <1>4, <1>5, <1>6, <1>7, <1>8, <1>9, <1>10, <1>11, <1>12, <1>13,
     <1>14, <1>15, <1>16, Wider
  DEF AnyRead, AnyWrite, vars

(* services.py:15-49, 83-88, forms.py:155-159, 205-209.  One request at a time and no
   record lost: under the email of an account that was never renamed the log has the role
   it holds, but for the change that is about to be recorded, whoever had that email
   before. *)
THEOREM LogShowsRoles ==
  ASSUME ~Faults
  PROVE  Spec => []TrailShowsRole
<1> DEFINE HInv == SInv /\ (Serial => LInv)
<1>1. Init => HInv
  <2> SUFFICES ASSUME Init PROVE HInv
    OBVIOUS
  <2>1. CInv /\ SInv
    BY CInvInit, IInvInit DEF SInv
  <2>2. Addressed
    BY StartsRight DEF Addressed, Live
  <2>3. Unique
    BY StartsRight, NoEmailIsNoEmail DEF Init, Unique, EmailFree
  <2>4. Logged /\ \A t \in Threads : Prior(t)
    BY DEF Init, Logged, Shows, Live, Prior, NoRequest
  <2>5. QED
    BY <2>1, <2>2, <2>3, <2>4 DEF LInv
<1>2. HInv /\ [Next]_vars => HInv'
  <2>1. SInv => TypeOK
    BY DEF SInv, IInv
  <2>2. QED
    BY <2>1, SInvStep, LInvStep, SerialStep
<1>3. HInv => TrailShowsRole
  BY DEF LInv, Logged, Shows, Recording, Live, TrailShowsRole
<1>4. QED
  BY <1>1, <1>2, <1>3, PTL DEF Spec

=============================================================================
