------------------------------ MODULE Directory ------------------------------
(***************************************************************************)
(* Departments and their members: apps/accounts/department_views.py, the   *)
(* department form and the department field of the user forms (forms.py),  *)
(* and the models behind them (models.py).                                 *)
(*                                                                         *)
(* A request loads a department or an account, checks its form against the *)
(* collections, and writes; MongoDB keeps no reference whole, and deleting *)
(* a department takes two writes, so the requests of several threads       *)
(* interleave between loading, checking and writing.                       *)
(*                                                                         *)
(* Left out: descriptions, dates, the audit records and messages, the      *)
(* check that the actor is a super admin and every field of an account     *)
(* besides its department (UserAdmin), and the list (Paging).  The queries *)
(* of one form's validation are one step.                                  *)
(***************************************************************************)
EXTENDS Integers, FiniteSets

CONSTANTS
  Depts,     \* primary keys of departments
  Accounts,  \* primary keys of accounts
  Names,     \* department names a form may carry
  Folded,    \* Folded[n]: the name without case, as iexact compares it
  Codes,     \* department codes a form may carry, in any case
  Upper,     \* Upper[c]: the code in upper case
  Threads,
  NoRow,     \* a key that is not in use
  Removed,   \* a key whose row was deleted
  NoDept,    \* department is null
  Absent     \* no such account

ASSUME Spelling == /\ DOMAIN Folded = Names
                   /\ Upper \in [Codes -> Codes]
                   /\ \A c \in Codes : Upper[Upper[c]] = Upper[c]

VARIABLES
  depts,     \* accounts_department
  member,    \* the department of each account
  req,       \* the request each thread serves
  overtaken  \* history: the accounts and departments about which a request had
             \* looked something up that another request changed before it wrote

vars == <<depts, member, req, overtaken>>

Row == [name : Names, code : Codes, active : BOOLEAN]

ASSUME NoRowIsNoRow == NoRow \notin Row /\ Removed \notin Row /\ NoRow # Removed
ASSUME NoDeptIsNoDept == NoDept \notin Depts /\ Absent \notin Depts \cup Accounts \cup {NoDept}

Request ==
  [op : {"none", "create", "edit", "toggle", "delete", "add", "assign", "rewrite"},
   at : {"idle", "loaded", "valid", "detached"},
   dept : Depts \cup {NoDept}, copy : Row \cup {NoRow},
   account : Accounts \cup {Absent}, choice : Depts \cup {NoDept}]

NoRequest == [op |-> "none", at |-> "idle", dept |-> NoDept, copy |-> NoRow,
              account |-> Absent, choice |-> NoDept]

Live(d) == depts[d] \notin {NoRow, Removed}

(* The choices of the department field: "Only active departments". *)
Assignable == {d \in Depts : Live(d) /\ depts[d].active}

Init ==
  /\ depts = [d \in Depts |-> NoRow]
  /\ member \in [Accounts -> {NoDept, Absent}]
  /\ req = [t \in Threads |-> NoRequest]
  /\ overtaken = {}

Advance(t, r) == req' = [req EXCEPT ![t] = r]
Finish(t) == Advance(t, NoRequest)

-----------------------------------------------------------------------------
(* Departments. *)

(* Mutant: no 404 for a department that is gone, the form starts from blanks. *)
LoadDept_Any(t, op, d) ==
  /\ req[t] = NoRequest
  /\ depts[d] # NoRow
  /\ \E row \in {r \in Row : ~Live(d) \/ r = depts[d]} :
        Advance(t, [NoRequest EXCEPT !.op = op, !.at = "loaded", !.dept = d, !.copy = row])
  /\ UNCHANGED <<depts, member, overtaken>>

(* _department, for edit, toggle and delete. *)
LoadDept(t, op, d) ==
  /\ req[t] = NoRequest
  /\ Live(d)
  /\ Advance(t, [NoRequest EXCEPT !.op = op, !.at = "loaded", !.dept = d,
                                  !.copy = depts[d]])
  /\ UNCHANGED <<depts, member, overtaken>>

StartCreate(t, d) ==
  /\ req[t] = NoRequest
  /\ depts[d] = NoRow /\ \A s \in Threads : req[s].dept # d
  /\ Advance(t, [NoRequest EXCEPT !.op = "create", !.at = "loaded", !.dept = d])
  /\ UNCHANGED <<depts, member, overtaken>>

(* clean_code and Department.save. *)
Normalised(c) == Upper[c]

(* Mutant: names are compared as they are. *)
Clash_Exact(d, name, code) ==
  \E e \in Depts \ {d} : Live(e) /\ (depts[e].name = name \/ depts[e].code = Normalised(code))

(* clean_name, clean_code: another department with the name or code, in any case. *)
Clash(d, name, code) ==
  \E e \in Depts \ {d} :
     Live(e) /\ (Folded[depts[e].name] = Folded[name] \/ depts[e].code = Normalised(code))

CheckDept(t, name, code, active) ==
  /\ req[t].op \in {"create", "edit"} /\ req[t].at = "loaded"
  /\ ~Clash(req[t].dept, name, code)
  /\ Advance(t, [req[t] EXCEPT !.at = "valid",
                   !.copy = [name |-> name, code |-> Normalised(code), active |-> active]])
  /\ overtaken' = overtaken \cup
       {req[t].dept : s \in {s \in Threads \ {t} : /\ req[s].at = "valid"
                                                /\ req[s].copy # NoRow
                                                /\ Folded[req[s].copy.name] = Folded[name]}}
  /\ UNCHANGED <<depts, member>>

(* The unique indexes on name and code, exact ones. *)
Indexed(d, row) ==
  \E e \in Depts \ {d} : Live(e) /\ (depts[e].name = row.name \/ depts[e].code = row.code)

(* form.save: an insert, or an update of the whole row, which inserts it again when
   it is gone.  A breach of an index ends the request. *)
SaveDept(t) ==
  /\ req[t].op \in {"create", "edit"} /\ req[t].at = "valid"
  /\ depts' = IF Indexed(req[t].dept, req[t].copy) THEN depts
              ELSE [depts EXCEPT ![req[t].dept] = req[t].copy]
  /\ Finish(t)
  /\ UNCHANGED <<member, overtaken>>

(* save(update_fields): is_active is the negation of what was read; an error when
   the row is gone. *)
SaveToggle(t) ==
  /\ req[t].op = "toggle" /\ req[t].at = "loaded"
  /\ depts' = IF Live(req[t].dept)
                THEN [depts EXCEPT ![req[t].dept].active = ~req[t].copy.active]
                ELSE depts
  /\ Finish(t)
  /\ UNCHANGED <<member, overtaken>>

(* Mutant: on_delete is DO_NOTHING. *)
Detach_Nobody(t) ==
  /\ req[t].op = "delete" /\ req[t].at = "loaded"
  /\ Advance(t, [req[t] EXCEPT !.at = "detached"])
  /\ UNCHANGED <<depts, member, overtaken>>

(* delete(): SET_NULL detaches the members by one query ... *)
Detach(t) ==
  /\ req[t].op = "delete" /\ req[t].at = "loaded"
  /\ member' = [u \in Accounts |-> IF member[u] = req[t].dept THEN NoDept ELSE member[u]]
  /\ Advance(t, [req[t] EXCEPT !.at = "detached"])
  /\ UNCHANGED <<depts, overtaken>>

(* ... and then the row goes. *)
Remove(t) ==
  /\ req[t].op = "delete" /\ req[t].at = "detached"
  /\ LET d == req[t].dept
         others == Threads \ {t}
     IN  /\ depts' = [depts EXCEPT ![d] = Removed]
         /\ overtaken' = overtaken
              \cup {req[s].account : s \in {s \in others : req[s].choice = d}}
              \cup {req[s].dept : s \in {s \in others : req[s].dept = d}}
  /\ Finish(t)
  /\ UNCHANGED member

-----------------------------------------------------------------------------
(* Accounts. *)

(* Mutant: an account that does not exist is None, not a 404. *)
LoadAccount_None(t, op, u) ==
  /\ req[t] = NoRequest
  /\ Advance(t, [NoRequest EXCEPT !.op = op, !.at = "loaded", !.account = u,
                                  !.choice = member[u]])
  /\ UNCHANGED <<depts, member, overtaken>>

(* user_edit loads its target; "rewrite" stands for the other two that save a whole
   account: the profile form, which has it from the middleware, and soft_delete. *)
LoadAccount(t, op, u) ==
  /\ req[t] = NoRequest
  /\ member[u] # Absent
  /\ Advance(t, [NoRequest EXCEPT !.op = op, !.at = "loaded", !.account = u,
                                  !.choice = member[u]])
  /\ UNCHANGED <<depts, member, overtaken>>

StartAccount(t, u) ==
  /\ req[t] = NoRequest
  /\ member[u] = Absent /\ \A s \in Threads : req[s].account # u
  /\ Advance(t, [NoRequest EXCEPT !.op = "add", !.at = "loaded", !.account = u])
  /\ UNCHANGED <<depts, member, overtaken>>

(* is_valid of the two user forms: the chosen department, or none. *)
Choose(t, d) ==
  /\ req[t].op \in {"assign", "add"} /\ req[t].at = "loaded"
  /\ d \in Assignable \cup {NoDept}
  /\ Advance(t, [req[t] EXCEPT !.at = "valid", !.choice = d])
  /\ UNCHANGED <<depts, member, overtaken>>

(* The whole account as it is in memory, its department among the rest. *)
WriteMember(t) ==
  /\ LET deleting == {s \in Threads : req[s].at = "detached" /\ req[s].dept = req[t].choice}
     IN  overtaken' = IF deleting = {} THEN overtaken ELSE overtaken \cup {req[t].account}
  /\ member' = [member EXCEPT ![req[t].account] = req[t].choice]
  /\ Finish(t)
  /\ UNCHANGED depts

(* create_user and update_user save the account with what the form chose. *)
SaveAccount(t) ==
  /\ req[t].op \in {"assign", "add"} /\ req[t].at = "valid"
  /\ WriteMember(t)

(* The profile form (views.py:85) and soft_delete (services.py:87) save the account
   with the department it had when they loaded it. *)
RewriteAccount(t) ==
  /\ req[t].op = "rewrite" /\ req[t].at = "loaded"
  /\ WriteMember(t)

(* A GET, an invalid form, a worker that dies between two steps. *)
Abandon(t) ==
  /\ req[t] # NoRequest
  /\ Finish(t)
  /\ UNCHANGED <<depts, member, overtaken>>

-----------------------------------------------------------------------------
Serve(t) ==
  \/ \E op \in {"edit", "toggle", "delete"}, d \in Depts : LoadDept(t, op, d)
  \/ \E d \in Depts : StartCreate(t, d)
  \/ \E n \in Names, c \in Codes, a \in BOOLEAN : CheckDept(t, n, c, a)
  \/ SaveDept(t) \/ SaveToggle(t)
  \/ Detach(t) \/ Remove(t)
  \/ \E op \in {"assign", "rewrite"}, u \in Accounts : LoadAccount(t, op, u)
  \/ \E u \in Accounts : StartAccount(t, u)
  \/ \E d \in Depts \cup {NoDept} : Choose(t, d)
  \/ SaveAccount(t) \/ RewriteAccount(t)
  \/ Abandon(t)

Next == \E t \in Threads : Serve(t)

Spec == Init /\ [][Next]_vars

-----------------------------------------------------------------------------
(* Properties. *)

TypeOK ==
  /\ depts \in [Depts -> Row \cup {NoRow, Removed}]
  /\ member \in [Accounts -> Depts \cup {NoDept, Absent}]
  /\ req \in [Threads -> Request]
  /\ overtaken \subseteq Depts \cup Accounts

(* department_views.py:186: "Members are detached rather than deleted; SET_NULL
   keeps the accounts intact."  No account refers to a department that is gone,
   unless a request that had the account and the department in hand overlapped the
   deletion: it writes the reference back, and MongoDB does not mind. *)
MembersExist ==
  \A u \in Accounts : member[u] \in Depts => Live(member[u]) \/ u \in overtaken

(* forms.py:94-114, models.py:28-46.  Codes are unique in any case, whatever
   overlaps; names are in any case too, except two that were checked side by side,
   because the index behind the form tells upper from lower case. *)
NoTwins ==
  \A d, e \in Depts : Live(d) /\ Live(e) /\ d # e =>
     /\ Upper[depts[d].code] # Upper[depts[e].code]
     /\ depts[d].name # depts[e].name
     /\ Folded[depts[d].name] # Folded[depts[e].name] \/ {d, e} \cap overtaken # {}

(* department_views.py:31-39, 127-131.  A deleted department returns only through
   an edit that was under way when it was deleted, which inserts it again. *)
DeletionHolds ==
  [][\A d \in Depts : depts[d] = Removed /\ depts'[d] # Removed => d \in overtaken]_depts
=============================================================================
