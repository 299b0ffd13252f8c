-------------------------- MODULE DepartmentProofs --------------------------
(***************************************************************************)
(* What holds of Directory for any departments, accounts, spellings and    *)
(* threads; and that the form in the browser does nothing that the         *)
(* handlers of Directory do not do.                                        *)
(*                                                                         *)
(* A request may hold a reference to a department that was deleted in the  *)
(* meantime, or a name that another request is about to store.  The        *)
(* invariant says that every such request, and every account it may still  *)
(* write to, is in overtaken before anything is written.                   *)
(***************************************************************************)
EXTENDS DepartmentForm, TLAPS

DeptOps == {"create", "edit", "toggle", "delete"}
AccountOps == {"add", "assign", "rewrite"}

Checked(t) == req[t].op \in DeptOps /\ req[t].at = "valid"

Shape ==
  \A t \in Threads :
     /\ req[t].op \notin DeptOps \cup AccountOps => req[t] = NoRequest
     /\ req[t].op \in DeptOps =>
          req[t].dept \in Depts /\ req[t].account = Absent /\ req[t].choice = NoDept
     /\ req[t].at = "detached" => req[t].op = "delete"
     /\ Checked(t) \/ req[t].op \in DeptOps \ {"create"} => req[t].copy \in Row
     /\ req[t].op \in AccountOps =>
          req[t].account \in Accounts /\ req[t].dept = NoDept /\ req[t].copy = NoRow

(* What a request has chosen, or a deletion has left behind, is excused before it
   is written. *)
ChoicesExcused ==
  \A t \in Threads : req[t].choice \in Depts =>
     Live(req[t].choice) \/ req[t].account \in overtaken

DetachedExcused ==
  \A t \in Threads, u \in Accounts :
     req[t].at = "detached" /\ member[u] = req[t].dept => u \in overtaken

DeletedExcused ==
  \A t \in Threads : req[t].dept \in Depts =>
     depts[req[t].dept] # Removed \/ req[t].dept \in overtaken

(* Codes are stored, and carried, in upper case, and the index tells rows apart. *)
CodesUpper ==
  /\ \A d \in Depts : Live(d) => Upper[depts[d].code] = depts[d].code
  /\ \A t \in Threads : Checked(t) => Upper[req[t].copy.code] = req[t].copy.code

RowsDiffer ==
  \A d, e \in Depts : Live(d) /\ Live(e) /\ d # e =>
     depts[d].code # depts[e].code /\ depts[d].name # depts[e].name

Excused(d, e) == d \in overtaken \/ e \in overtaken

TwinsExcused ==
  \A d, e \in Depts :
     /\ Live(d) /\ Live(e) /\ d # e
     /\ Folded[depts[d].name] = Folded[depts[e].name]
     => Excused(d, e)

DraftsExcused ==
  \A t \in Threads, e \in Depts :
     /\ Checked(t) /\ Live(e) /\ req[t].dept # e
     /\ Folded[req[t].copy.name] = Folded[depts[e].name]
     => Excused(req[t].dept, e)

PairsExcused ==
  \A s, t \in Threads :
     /\ Checked(s) /\ Checked(t) /\ req[s].dept # req[t].dept
     /\ Folded[req[s].copy.name] = Folded[req[t].copy.name]
     => Excused(req[s].dept, req[t].dept)

MembersInv == MembersExist /\ ChoicesExcused /\ DetachedExcused /\ DeletedExcused
NamesInv == CodesUpper /\ RowsDiffer /\ TwinsExcused /\ DraftsExcused /\ PairsExcused

IInv == TypeOK /\ Shape /\ MembersInv /\ NamesInv

-----------------------------------------------------------------------------
LEMMA InitInv == Init => IInv
<1> SUFFICES ASSUME Init PROVE IInv
  OBVIOUS
<1>1. \A d \in Depts : ~Live(d)
  BY DEF Init, Live
<1>2. \A t \in Threads : req[t] = NoRequest
  BY DEF Init
<1>3. TypeOK
  BY DEF Init, TypeOK, Request, NoRequest
<1>4. Shape
  BY <1>2 DEF Shape, NoRequest, DeptOps, AccountOps, Checked
<1>5. \A u \in Accounts : member[u] \notin Depts
  BY NoDeptIsNoDept DEF Init
<1>6. MembersInv
  BY <1>2, <1>5, NoDeptIsNoDept
     DEF MembersInv, MembersExist, ChoicesExcused, DetachedExcused, DeletedExcused, NoRequest
<1>7. NamesInv
  BY <1>1, <1>2
     DEF NamesInv, CodesUpper, RowsDiffer, TwinsExcused, DraftsExcused, PairsExcused, Checked,
         NoRequest, DeptOps
<1>8. QED
  BY <1>3, <1>4, <1>6, <1>7 DEF IInv

(* Toggling keeps name and code. *)
LEMMA ToggledRow ==
  ASSUME NEW row \in Row, NEW a \in BOOLEAN
  PROVE  /\ [row EXCEPT !.active = a] \in Row
         /\ [row EXCEPT !.active = a].name = row.name
         /\ [row EXCEPT !.active = a].code = row.code
BY DEF Row

LEMMA Toggled ==
  ASSUME TypeOK, Shape, NEW t \in Threads, SaveToggle(t), NEW d \in Depts
  PROVE  /\ Live(d)' <=> Live(d)
         /\ depts'[d] = Removed <=> depts[d] = Removed
         /\ Live(d) => depts'[d].name = depts[d].name /\ depts'[d].code = depts[d].code
<1>1. req[t].dept \in Depts /\ req[t].copy \in Row
  BY DEF SaveToggle, Shape, DeptOps
<1>2. CASE ~Live(req[t].dept) \/ d # req[t].dept
  BY <1>1, <1>2 DEF SaveToggle, TypeOK, Live
<1>3. CASE Live(req[t].dept) /\ d = req[t].dept
  <2>1. depts[d] \in Row
    BY <1>3 DEF Live, TypeOK
  <2>2. (~req[t].copy.active) \in BOOLEAN
    BY <1>1
  <2>3. depts'[d] = [depts[d] EXCEPT !.active = ~req[t].copy.active]
    BY <1>1, <1>3 DEF SaveToggle, TypeOK
  <2>4. /\ depts'[d] \in Row
        /\ depts'[d].name = depts[d].name /\ depts'[d].code = depts[d].code
    BY <2>1, <2>2, <2>3, ToggledRow
  <2>5. QED
    BY <1>3, <2>4, NoRowIsNoRow DEF Live
<1>4. QED
  BY <1>2, <1>3

LEMMA TypeStep == IInv /\ [Next]_vars => TypeOK'
<1> SUFFICES ASSUME IInv, [Next]_vars PROVE TypeOK'
  OBVIOUS
<1> USE NoDeptIsNoDept, Spelling DEF TypeOK, Request, Advance, Finish, NoRequest
<1>0. TypeOK /\ Shape
  BY DEF IInv
<1>1. ASSUME NEW t \in Threads, NEW op \in {"edit", "toggle", "delete"}, NEW d \in Depts,
             LoadDept(t, op, d)
      PROVE  TypeOK'
  BY <1>0, <1>1 DEF LoadDept, Live
<1>2. ASSUME NEW t \in Threads, NEW d \in Depts, StartCreate(t, d)
      PROVE  TypeOK'
  BY <1>0, <1>2 DEF StartCreate
<1>3. ASSUME NEW t \in Threads, NEW n \in Names, NEW c \in Codes, NEW a \in BOOLEAN,
             CheckDept(t, n, c, a)
      PROVE  TypeOK'
  <2>1. [name |-> n, code |-> Normalised(c), active |-> a] \in Row
    BY DEF Row, Normalised
  <2>2. req[t].dept \in Depts
    BY <1>0, <1>3 DEF CheckDept, Shape, DeptOps
  <2> DEFINE row == [name |-> n, code |-> Normalised(c), active |-> a]
  <2>3. [req[t] EXCEPT !.at = "valid", !.copy = row] \in Request
    <3> HIDE DEF row
    <3>1. row \in Row
      BY <2>1 DEF row
    <3>2. req[t] \in Request
      BY <1>0
    <3>3. QED
      BY <3>1, <3>2
  <2>4. req' = [req EXCEPT ![t] = [req[t] EXCEPT !.at = "valid", !.copy = row]]
    BY <1>3 DEF CheckDept
  <2> HIDE DEF row
  <2>5. req' \in [Threads -> Request]
    BY <1>0, <2>3, <2>4
  <2>6. overtaken' \subseteq Depts \cup Accounts
    BY <1>0, <1>3, <2>2 DEF CheckDept
  <2>7. QED
    BY <1>0, <1>3, <2>5, <2>6 DEF CheckDept
<1>4. ASSUME NEW t \in Threads, SaveDept(t)
      PROVE  TypeOK'
  <2>1. req[t].dept \in Depts /\ req[t].copy \in Row
    BY <1>0, <1>4 DEF SaveDept, Shape, Checked, DeptOps
  <2>2. QED
    <3>1. req' \in [Threads -> Request]
      BY <1>0, <1>4 DEF SaveDept
    <3>2. depts' \in [Depts -> Row \cup {NoRow, Removed}]
      BY <1>0, <1>4, <2>1 DEF SaveDept
    <3>3. QED
      BY <1>0, <1>4, <3>1, <3>2 DEF SaveDept
<1>5. ASSUME NEW t \in Threads, SaveToggle(t)
      PROVE  TypeOK'
  <2>1. req[t].dept \in Depts
    BY <1>0, <1>5 DEF SaveToggle, Shape, DeptOps
  <2>2. req[t].copy \in Row /\ Live(req[t].dept) =>
          [depts[req[t].dept] EXCEPT !.active = ~req[t].copy.active] \in Row
    BY <1>0, <2>1 DEF Live, Row
  <2>3. req[t].copy \in Row
    BY <1>0, <1>5 DEF SaveToggle, Shape, DeptOps
  <2>4. depts' \in [Depts -> Row \cup {NoRow, Removed}]
    BY <1>0, <1>5, <2>1, <2>2, <2>3 DEF SaveToggle
  <2>5. req' \in [Threads -> Request]
    BY <1>0, <1>5 DEF SaveToggle
  <2>6. QED
    BY <1>0, <1>5, <2>4, <2>5 DEF SaveToggle
<1>6. ASSUME NEW t \in Threads, Detach(t)
      PROVE  TypeOK'
  BY <1>0, <1>6 DEF Detach
<1>7. ASSUME NEW t \in Threads, Remove(t)
      PROVE  TypeOK'
  <2>1. req[t].dept \in Depts
    BY <1>0, <1>7 DEF Remove, Shape, DeptOps
  <2>2. \A s \in Threads : req[s].choice = req[t].dept => req[s].account \in Accounts
    BY <1>0, <2>1 DEF Shape, DeptOps, AccountOps
  <2>3. overtaken' \subseteq Depts \cup Accounts
    BY <1>0, <1>7, <2>1, <2>2 DEF Remove
  <2>4. QED
    BY <1>0, <1>7, <2>1, <2>3 DEF Remove
<1>8. ASSUME NEW t \in Threads, NEW op \in {"assign", "rewrite"}, NEW u \in Accounts,
             LoadAccount(t, op, u)
      PROVE  TypeOK'
  BY <1>0, <1>8 DEF LoadAccount
<1>9. ASSUME NEW t \in Threads, NEW u \in Accounts, StartAccount(t, u)
      PROVE  TypeOK'
  BY <1>0, <1>9 DEF StartAccount
<1>10. ASSUME NEW t \in Threads, NEW d \in Depts \cup {NoDept}, Choose(t, d)
      PROVE  TypeOK'
  <2>1. req[t] \in Request
    BY <1>0
  <2>2. [req[t] EXCEPT !.at = "valid", !.choice = d] \in Request
    BY <2>1
  <2>3. QED
    BY <1>0, <1>10, <2>2 DEF Choose
<1>11. ASSUME NEW t \in Threads, SaveAccount(t) \/ RewriteAccount(t)
      PROVE  TypeOK'
  <2>1. req[t].account \in Accounts
    BY <1>0, <1>11 DEF SaveAccount, RewriteAccount, WriteMember, Shape, AccountOps
  <2>2. QED
    BY <1>0, <1>11, <2>1 DEF SaveAccount, RewriteAccount, WriteMember
<1>12. ASSUME NEW t \in Threads, Abandon(t)
      PROVE  TypeOK'
  BY <1>0, <1>12 DEF Abandon
<1>13. CASE UNCHANGED vars
  BY <1>0, <1>13 DEF vars
<1>14. QED
  BY <1>1, <1>2, <1>3, <1>4, <1>5, <1>6, <1>7, <1>8, <1>9, <1>10, <1>11, <1>12, <1>13
     DEF Next, Serve

LEMMA ShapeStep == IInv /\ [Next]_vars => Shape'
<1> SUFFICES ASSUME IInv, [Next]_vars PROVE Shape'
  OBVIOUS
<1> USE NoDeptIsNoDept, NoRowIsNoRow, Spelling
       DEF TypeOK, Shape, Checked, DeptOps, AccountOps, Request, Advance, Finish, NoRequest
<1>0. TypeOK /\ Shape
  BY DEF IInv
<1>1. ASSUME NEW t \in Threads, NEW op \in {"edit", "toggle", "delete"}, NEW d \in Depts,
             LoadDept(t, op, d)
      PROVE  Shape'
  BY <1>0, <1>1 DEF LoadDept, Live
<1>2. ASSUME NEW t \in Threads, NEW d \in Depts, StartCreate(t, d)
      PROVE  Shape'
  BY <1>0, <1>2 DEF StartCreate
<1>3. ASSUME NEW t \in Threads, NEW n \in Names, NEW c \in Codes, NEW a \in BOOLEAN,
             CheckDept(t, n, c, a)
      PROVE  Shape'
  BY <1>0, <1>3 DEF CheckDept, Normalised, Row
<1>4. ASSUME NEW t \in Threads, SaveDept(t)
      PROVE  Shape'
  BY <1>0, <1>4 DEF SaveDept
<1>5. ASSUME NEW t \in Threads, SaveToggle(t)
      PROVE  Shape'
  BY <1>0, <1>5 DEF SaveToggle
<1>6. ASSUME NEW t \in Threads, Detach(t)
      PROVE  Shape'
  BY <1>0, <1>6 DEF Detach
<1>7. ASSUME NEW t \in Threads, Remove(t)
      PROVE  Shape'
  BY <1>0, <1>7 DEF Remove
<1>8. ASSUME NEW t \in Threads, NEW op \in {"assign", "rewrite"}, NEW u \in Accounts,
             LoadAccount(t, op, u)
      PROVE  Shape'
  BY <1>0, <1>8 DEF LoadAccount
<1>9. ASSUME NEW t \in Threads, NEW u \in Accounts, StartAccount(t, u)
      PROVE  Shape'
  BY <1>0, <1>9 DEF StartAccount
<1>10. ASSUME NEW t \in Threads, NEW d \in Depts \cup {NoDept}, Choose(t, d)
      PROVE  Shape'
  BY <1>0, <1>10 DEF Choose
<1>11. ASSUME NEW t \in Threads, SaveAccount(t) \/ RewriteAccount(t)
      PROVE  Shape'
  BY <1>0, <1>11 DEF SaveAccount, RewriteAccount, WriteMember
<1>12. ASSUME NEW t \in Threads, Abandon(t)
      PROVE  Shape'
  BY <1>0, <1>12 DEF Abandon
<1>13. CASE UNCHANGED vars
  BY <1>0, <1>13 DEF vars
<1>14. QED
  BY <1>1, <1>2, <1>3, <1>4, <1>5, <1>6, <1>7, <1>8, <1>9, <1>10, <1>11, <1>12, <1>13
     DEF Next, Serve

LEMMA MembersStep == IInv /\ [Next]_vars => MembersInv'
<1> SUFFICES ASSUME IInv, [Next]_vars PROVE MembersInv'
  OBVIOUS
<1> USE NoDeptIsNoDept, NoRowIsNoRow
       DEF MembersInv, MembersExist, ChoicesExcused, DetachedExcused, DeletedExcused,
           TypeOK, Shape, Checked, DeptOps, AccountOps, Advance, Finish, NoRequest, Live
<1>0. TypeOK /\ Shape /\ MembersInv
  BY DEF IInv
<1>1. ASSUME NEW t \in Threads, NEW op \in {"edit", "toggle", "delete"}, NEW d \in Depts,
             LoadDept(t, op, d)
      PROVE  MembersInv'
  BY <1>0, <1>1 DEF LoadDept
<1>2. ASSUME NEW t \in Threads, NEW d \in Depts, StartCreate(t, d)
      PROVE  MembersInv'
  BY <1>0, <1>2 DEF StartCreate
<1>3. ASSUME NEW t \in Threads, NEW n \in Names, NEW c \in Codes, NEW a \in BOOLEAN,
             CheckDept(t, n, c, a)
      PROVE  MembersInv'
  BY <1>0, <1>3 DEF CheckDept
<1>4. ASSUME NEW t \in Threads, SaveDept(t)
      PROVE  MembersInv'
  BY <1>0, <1>4 DEF SaveDept
<1>5. ASSUME NEW t \in Threads, SaveToggle(t)
      PROVE  MembersInv'
  <2>1. \A d \in Depts : (Live(d)' <=> Live(d)) /\ (depts'[d] = Removed <=> depts[d] = Removed)
    BY <1>0, <1>5, Toggled
  <2>2. \A s \in Threads : req'[s] = req[s] \/ req'[s] = NoRequest
    BY <1>0, <1>5 DEF SaveToggle
  <2>3. QED
    BY <1>0, <1>5, <2>1, <2>2 DEF SaveToggle
<1>6. ASSUME NEW t \in Threads, Detach(t)
      PROVE  MembersInv'
  BY <1>0, <1>6 DEF Detach
<1>7. ASSUME NEW t \in Threads, Remove(t)
      PROVE  MembersInv'
  BY <1>0, <1>7 DEF Remove
<1>8. ASSUME NEW t \in Threads, NEW op \in {"assign", "rewrite"}, NEW u \in Accounts,
             LoadAccount(t, op, u)
      PROVE  MembersInv'
  BY <1>0, <1>8 DEF LoadAccount
<1>9. ASSUME NEW t \in Threads, NEW u \in Accounts, StartAccount(t, u)
      PROVE  MembersInv'
  BY <1>0, <1>9 DEF StartAccount
<1>10. ASSUME NEW t \in Threads, NEW d \in Depts \cup {NoDept}, Choose(t, d)
      PROVE  MembersInv'
  BY <1>0, <1>10 DEF Choose, Assignable
<1>11. ASSUME NEW t \in Threads, SaveAccount(t) \/ RewriteAccount(t)
      PROVE  MembersInv'
  BY <1>0, <1>11 DEF SaveAccount, RewriteAccount, WriteMember
<1>12. ASSUME NEW t \in Threads, Abandon(t)
      PROVE  MembersInv'
  BY <1>0, <1>12 DEF Abandon
<1>13. CASE UNCHANGED vars
  BY <1>0, <1>13 DEF vars
<1>14. QED
  BY <1>1, <1>2, <1>3, <1>4, <1>5, <1>6, <1>7, <1>8, <1>9, <1>10, <1>11, <1>12, <1>13
     DEF Next, Serve

(* A step that stores no name, and checks none, keeps what is said of names. *)
LEMMA NamesKept ==
  ASSUME NamesInv, overtaken \subseteq overtaken',
         \A d \in Depts : Live(d)' =>
            Live(d) /\ depts'[d].name = depts[d].name /\ depts'[d].code = depts[d].code,
         \A t \in Threads : Checked(t)' =>
            Checked(t) /\ req'[t].dept = req[t].dept /\ req'[t].copy = req[t].copy
  PROVE  NamesInv'
<1> USE DEF NamesInv
<1>1. CodesUpper'
  BY DEF CodesUpper
<1>2. RowsDiffer'
  BY DEF RowsDiffer
<1>3. TwinsExcused'
  BY DEF TwinsExcused, Excused
<1>4. DraftsExcused'
  BY DEF DraftsExcused, Excused
<1>5. PairsExcused'
  BY DEF PairsExcused, Excused
<1>6. QED
  BY <1>1, <1>2, <1>3, <1>4, <1>5

(* A request passes the check of its form. *)
LEMMA CheckStep ==
  ASSUME IInv, NEW t \in Threads, NEW n \in Names, NEW c \in Codes, NEW a \in BOOLEAN,
         CheckDept(t, n, c, a)
  PROVE  NamesInv'
<1> DEFINE row == [name |-> n, code |-> Upper[c], active |-> a]
<1> USE DEF NamesInv
<1>1. /\ req[t].dept \in Depts /\ req[t] \in Request
      /\ UNCHANGED depts /\ overtaken \subseteq overtaken'
      /\ \A s \in Threads \ {t} : req'[s] = req[s]
      /\ req'[t] = [req[t] EXCEPT !.at = "valid", !.copy = row]
  BY DEF IInv, TypeOK, Shape, CheckDept, Advance, Normalised, DeptOps
<1>2. req'[t].dept = req[t].dept /\ req'[t].copy = row
  BY <1>1 DEF Request
<1>3. row.name = n /\ row.code = Upper[c] /\ Upper[row.code] = row.code
  BY Spelling
<1> HIDE DEF row
<1>4. ~Clash(req[t].dept, n, c)
  BY DEF CheckDept
<1>5. CodesUpper'
  BY <1>1, <1>2, <1>3 DEF IInv, CodesUpper, Live, Checked
<1>6. RowsDiffer' /\ TwinsExcused'
  BY <1>1 DEF IInv, RowsDiffer, TwinsExcused, Excused, Live
<1>7. DraftsExcused'
  <2>1. ASSUME NEW e \in Depts, Live(e), e # req[t].dept
        PROVE  Folded[n] # Folded[depts[e].name]
    BY <1>4, <2>1 DEF Clash
  <2>2. \A s \in Threads \ {t} : Checked(s)' <=> Checked(s)
    BY <1>1 DEF Checked
  <2>3. ASSUME NEW s \in Threads, NEW e \in Depts, Checked(s)', Live(e)', req'[s].dept # e,
               Folded[req'[s].copy.name] = Folded[depts'[e].name]
        PROVE  req'[s].dept \in overtaken' \/ e \in overtaken'
    <3>1. CASE s = t
      BY <1>1, <1>2, <1>3, <2>1, <2>3, <3>1 DEF Live
    <3>2. CASE s # t
      BY <1>1, <2>2, <2>3, <3>2 DEF IInv, DraftsExcused, Excused, Live
    <3>3. QED
      BY <3>1, <3>2
  <2>4. QED
    BY <2>3 DEF DraftsExcused, Excused
<1>8. PairsExcused'
  <2>1. \A s \in Threads \ {t} :
           Checked(s) /\ Folded[req[s].copy.name] = Folded[n] => req[t].dept \in overtaken'
    <3>1. \A s \in Threads : Checked(s) => req[s].at = "valid" /\ req[s].copy # NoRow
      BY NoRowIsNoRow DEF IInv, Shape, Checked
    <3>2. QED
      BY <3>1 DEF CheckDept
  <2>2. \A s \in Threads \ {t} : Checked(s)' <=> Checked(s)
    BY <1>1 DEF Checked
  <2>3. ASSUME NEW s \in Threads, NEW u \in Threads, Checked(s)', Checked(u)',
               req'[s].dept # req'[u].dept,
               Folded[req'[s].copy.name] = Folded[req'[u].copy.name]
        PROVE  req'[s].dept \in overtaken' \/ req'[u].dept \in overtaken'
    <3>1. CASE s = t /\ u # t
      BY <1>1, <1>2, <1>3, <2>1, <2>2, <2>3, <3>1 DEF Excused
    <3>2. CASE s # t /\ u = t
      BY <1>1, <1>2, <1>3, <2>1, <2>2, <2>3, <3>2 DEF Excused
    <3>3. CASE s # t /\ u # t
      BY <1>1, <2>2, <2>3, <3>3 DEF IInv, PairsExcused, Excused
    <3>4. QED
      BY <2>3, <3>1, <3>2, <3>3
  <2>4. QED
    BY <2>3 DEF PairsExcused, Excused
<1>9. QED
  BY <1>5, <1>6, <1>7, <1>8

(* A row is inserted or written over: what the check missed was excused before. *)
LEMMA SaveStep ==
  ASSUME IInv, NEW t \in Threads, SaveDept(t)
  PROVE  NamesInv'
<1>1. PICK d \in Depts, row \in Row :
      /\ req[t].dept = d /\ req[t].copy = row /\ Checked(t) /\ UNCHANGED overtaken
      /\ \A s \in Threads : Checked(s)' => s # t /\ req'[s] = req[s] /\ Checked(s)
  BY DEF IInv, TypeOK, Shape, SaveDept, Checked, Finish, Advance, NoRequest, DeptOps
<1>2. CASE Indexed(d, row)
  <2>1. depts' = depts
    BY <1>1, <1>2 DEF SaveDept
  <2>2. QED
    BY <1>1, <2>1, NamesKept DEF IInv, Live
<1>3. CASE ~Indexed(d, row)
  <2>1. /\ Live(d)' /\ depts'[d] = row
        /\ \A e \in Depts \ {d} : depts'[e] = depts[e] /\ (Live(e)' <=> Live(e))
    BY <1>1, <1>3, NoRowIsNoRow DEF IInv, TypeOK, SaveDept, Live
  <2> USE DEF NamesInv
  <2>2. Upper[row.code] = row.code
    BY <1>1 DEF IInv, CodesUpper
  <2>3. CodesUpper'
    BY <1>1, <2>1, <2>2 DEF IInv, CodesUpper
  <2>4. RowsDiffer'
    BY <1>3, <2>1 DEF IInv, RowsDiffer, Indexed
  <2>5. \A e \in Depts : Live(e) /\ e # d /\ Folded[row.name] = Folded[depts[e].name]
           => Excused(d, e)
    BY <1>1 DEF IInv, DraftsExcused
  <2>6. TwinsExcused'
    BY <1>1, <2>1, <2>5 DEF IInv, TwinsExcused, Excused
  <2>7. \A s \in Threads : Checked(s) /\ req[s].dept # d /\
           Folded[req[s].copy.name] = Folded[row.name] => Excused(req[s].dept, d)
    BY <1>1 DEF IInv, PairsExcused
  <2>8. DraftsExcused'
    BY <1>1, <2>1, <2>7 DEF IInv, DraftsExcused, Excused
  <2>9. PairsExcused'
    BY <1>1 DEF IInv, PairsExcused, Excused
  <2>10. QED
    BY <2>3, <2>4, <2>6, <2>8, <2>9
<1>4. QED
  BY <1>2, <1>3

LEMMA NamesStep == IInv /\ [Next]_vars => NamesInv'
<1> SUFFICES ASSUME IInv, [Next]_vars PROVE NamesInv'
  OBVIOUS
<1> USE DEF TypeOK, Shape, Checked, DeptOps, AccountOps, Advance, Finish, NoRequest, Live
<1>0. TypeOK /\ Shape /\ NamesInv
  BY DEF IInv
<1>1. ASSUME NEW t \in Threads, NEW op \in {"edit", "toggle", "delete"}, NEW d \in Depts,
             LoadDept(t, op, d)
      PROVE  NamesInv'
  BY <1>0, <1>1, NamesKept DEF LoadDept
<1>2. ASSUME NEW t \in Threads, NEW d \in Depts, StartCreate(t, d)
      PROVE  NamesInv'
  BY <1>0, <1>2, NamesKept DEF StartCreate
<1>3. ASSUME NEW t \in Threads, NEW n \in Names, NEW c \in Codes, NEW a \in BOOLEAN,
             CheckDept(t, n, c, a)
      PROVE  NamesInv'
  BY <1>3, CheckStep
<1>4. ASSUME NEW t \in Threads, SaveDept(t)
      PROVE  NamesInv'
  BY <1>4, SaveStep
<1>5. ASSUME NEW t \in Threads, SaveToggle(t)
      PROVE  NamesInv'
  <2>1. \A d \in Depts : Live(d)' =>
          Live(d) /\ depts'[d].name = depts[d].name /\ depts'[d].code = depts[d].code
    BY <1>0, <1>5, Toggled
  <2>2. \A s \in Threads : req'[s] = req[s] \/ req'[s] = NoRequest
    BY <1>0, <1>5 DEF SaveToggle
  <2>3. QED
    BY <1>0, <1>5, <2>1, <2>2, NamesKept DEF SaveToggle
<1>6. ASSUME NEW t \in Threads, Detach(t)
      PROVE  NamesInv'
  BY <1>0, <1>6, NamesKept DEF Detach
<1>7. ASSUME NEW t \in Threads, Remove(t)
      PROVE  NamesInv'
  BY <1>0, <1>7, NamesKept DEF Remove
<1>8. ASSUME NEW t \in Threads, NEW op \in {"assign", "rewrite"}, NEW u \in Accounts,
             LoadAccount(t, op, u)
      PROVE  NamesInv'
  BY <1>0, <1>8, NamesKept DEF LoadAccount
<1>9. ASSUME NEW t \in Threads, NEW u \in Accounts, StartAccount(t, u)
      PROVE  NamesInv'
  BY <1>0, <1>9, NamesKept DEF StartAccount
<1>10. ASSUME NEW t \in Threads, NEW d \in Depts \cup {NoDept}, Choose(t, d)
      PROVE  NamesInv'
  BY <1>0, <1>10, NamesKept DEF Choose
<1>11. ASSUME NEW t \in Threads, SaveAccount(t) \/ RewriteAccount(t)
      PROVE  NamesInv'
  BY <1>0, <1>11, NamesKept DEF SaveAccount, RewriteAccount, WriteMember
<1>12. ASSUME NEW t \in Threads, Abandon(t)
      PROVE  NamesInv'
  BY <1>0, <1>12, NamesKept DEF Abandon
<1>13. CASE UNCHANGED vars
  BY <1>0, <1>13, NamesKept DEF vars
<1>14. QED
  BY <1>1, <1>2, <1>3, <1>4, <1>5, <1>6, <1>7, <1>8, <1>9, <1>10, <1>11, <1>12, <1>13
     DEF Next, Serve

-----------------------------------------------------------------------------
LEMMA Inductive == Spec => []IInv
<1>1. Init => IInv
  BY InitInv
<1>2. IInv /\ [Next]_vars => IInv'
  BY TypeStep, ShapeStep, MembersStep, NamesStep DEF IInv
<1>3. QED
  BY <1>1, <1>2, PTL DEF Spec

(* department_views.py, forms.py: departments, members and requests keep their shape. *)
THEOREM Types == Spec => []TypeOK
<1>1. IInv => TypeOK
  BY DEF IInv
<1>2. QED
  BY <1>1, Inductive, PTL

(* department_views.py:181-187.  However requests overlap, an account that refers to a
   deleted department was being written while the department was deleted. *)
THEOREM Members == Spec => []MembersExist
<1>1. IInv => MembersExist
  BY DEF IInv, MembersInv
<1>2. QED
  BY <1>1, Inductive, PTL

(* forms.py:94-114, models.py:28-46.  However requests overlap, no two departments have
   the same code in any case, and none the same name unless checked side by side. *)
THEOREM Unique == Spec => []NoTwins
<1>1. IInv => NoTwins
  BY DEF IInv, NamesInv, CodesUpper, RowsDiffer, TwinsExcused, Excused, NoTwins
<1>2. QED
  BY <1>1, Inductive, PTL

(* department_views.py:31-39, 126-131.  Only an edit that was under way at the deletion
   brings a department back. *)
THEOREM Deleted == Spec => DeletionHolds
<1> DEFINE Kept == \A d \in Depts : depts[d] = Removed /\ depts'[d] # Removed => d \in overtaken
<1>1. IInv /\ [Next]_vars => [Kept]_depts
  <2> SUFFICES ASSUME IInv, [Next]_vars, NEW d \in Depts, depts[d] = Removed,
                      depts'[d] # Removed
               PROVE  d \in overtaken
    OBVIOUS
  <2>1. PICK t \in Threads : SaveDept(t) \/ SaveToggle(t) \/ Remove(t)
    BY DEF Next, Serve, vars, LoadDept, StartCreate, CheckDept, Detach, LoadAccount,
           StartAccount, Choose, SaveAccount, RewriteAccount, WriteMember, Abandon
  <2>2. req[t].dept \in Depts
    BY <2>1 DEF IInv, Shape, SaveDept, SaveToggle, Remove, DeptOps
  <2>3. SaveDept(t) /\ req[t].dept = d
    BY <2>1, <2>2 DEF IInv, TypeOK, SaveDept, SaveToggle, Remove, Live
  <2>4. QED
    BY <2>2, <2>3 DEF IInv, MembersInv, DeletedExcused
<1>2. QED
  BY <1>1, Inductive, PTL DEF Spec, DeletionHolds

-----------------------------------------------------------------------------
(* The form refers to departments, and holds names and codes, or blanks. *)
Entry(content) ==
  /\ content = [name |-> content.name, code |-> content.code]
  /\ content.name \in Names \cup {Blank} /\ content.code \in Codes \cup {Blank}

FormRecord(f) ==
  f = [pk |-> f.pk, content |-> f.content, touched |-> f.touched, timer |-> f.timer,
       painted |-> f.painted, blocked |-> f.blocked, disabled |-> f.disabled,
       post |-> f.post, posted |-> f.posted]

FormOK ==
  form # NoForm \/ calls # {} =>
    /\ FormRecord(form)
    /\ form.pk \in Depts \cup {NoDept}
    /\ Entry(form.content) /\ Entry(form.posted)

LEMMA OpenStep ==
  ASSUME TypeOK, NEW pk \in Depts \cup {NoDept}, Open(pk)
  PROVE  FormOK'
<1> DEFINE content == IF pk = NoDept THEN [name |-> Blank, code |-> Blank]
                      ELSE [name |-> depts[pk].name, code |-> depts[pk].code]
<1>1. Entry(content)
  <2>1. CASE pk = NoDept
    BY <2>1 DEF Entry
  <2>2. CASE pk # NoDept
    <3>1. depts[pk] \in Row
      BY <2>2 DEF Open, TypeOK, Live
    <3>2. depts[pk].name \in Names /\ depts[pk].code \in Codes
      BY <3>1 DEF Row
    <3>3. QED
      BY <2>2, <3>2 DEF Entry
  <2>3. QED
    BY <2>1, <2>2
<1>2. form' = NewForm(pk, content)
  BY DEF Open
<1> HIDE DEF content
<1>3. FormRecord(form') /\ form'.pk = pk /\ form'.content = content /\ form'.posted = content
  BY <1>2 DEF NewForm, FormRecord
<1>4. QED
  BY <1>1, <1>3 DEF FormOK

LEMMA TypeInForm ==
  ASSUME FormOK,
         NEW f \in Fields, NEW value, Type(f, value),
         \/ f = "name" /\ value \in Names \cup {Blank}
         \/ f = "code" /\ value \in Codes \cup {Blank}
  PROVE  FormOK'
<1>1. form # NoForm /\ FormRecord(form) /\ form.pk \in Depts \cup {NoDept}
      /\ Entry(form.content) /\ Entry(form.posted)
  BY DEF FormOK, Type
<1> DEFINE content == [form.content EXCEPT ![f] = value]
<1>2. Entry(content)
  BY <1>1 DEF Entry, Fields
<1>3. form' = [form EXCEPT !.content = content, !.touched = @ \cup {f}, !.timer = TRUE]
  BY <1>1 DEF Type, FormRecord
<1> HIDE DEF content
<1>4. FormRecord(form') /\ form'.pk = form.pk /\ form'.content = content
      /\ form'.posted = form.posted
  BY <1>1, <1>3 DEF FormRecord
<1>5. QED
  BY <1>1, <1>2, <1>4 DEF FormOK

(* Everything else leaves the entries as they are, or closes the form. *)
LEMMA SameEntries ==
  ASSUME FormOK,
         \/ form' = form /\ (calls = {} => calls' = {})
         \/ form' = NoForm /\ calls' = {}
         \/ /\ form # NoForm \/ calls # {}
            /\ FormRecord(form')
            /\ form'.pk = form.pk /\ form'.content = form.content
            /\ form'.posted \in {form.posted, form.content}
  PROVE  FormOK'
BY DEF FormOK

LEMMA FormOKStep == TypeOK /\ FormOK /\ [FormNext]_formVars => FormOK'
<1> SUFFICES ASSUME TypeOK, FormOK, FormNext PROVE FormOK'
  BY DEF formVars, browserVars, FormOK
<1> USE DEF FormRecord
<1>1. form # NoForm \/ calls # {} => FormRecord(form)
  BY DEF FormOK
<1>2. ASSUME NEW pk \in Depts \cup {NoDept}, Open(pk) PROVE FormOK'
  BY <1>2, OpenStep
<1>3. ASSUME NEW n \in FormNames, Type("name", n) PROVE FormOK'
  BY <1>3, TypeInForm, EntriesKnown DEF Fields
<1>4. ASSUME NEW c \in FormCodes, Type("code", c) PROVE FormOK'
  BY <1>4, TypeInForm, EntriesKnown DEF Fields
<1>6. ASSUME NEW t \in Threads, Submit(t) PROVE FormOK'
  BY <1>1, <1>6, SameEntries DEF Submit
<1>7. CASE SubmitMissing
  BY <1>1, <1>7, SameEntries DEF SubmitMissing
<1>8. CASE Close
  BY <1>8, SameEntries DEF Close, Gone
<1>9. CASE Fire
  BY <1>1, <1>9, SameEntries DEF Fire
<1>10. ASSUME NEW c \in calls, Paint(c) PROVE FormOK'
  BY <1>1, <1>10, SameEntries DEF Paint
<1>11. ASSUME NEW c \in calls, Answer(c) \/ Lose(c) PROVE FormOK'
  BY <1>11, SameEntries DEF Answer, Lose
<1>12. ASSUME NEW t \in Threads, Posting, Post(t) PROVE FormOK'
  BY <1>1, <1>12, SameEntries DEF Posting, Post, Accept, browserVars, Refuse, Saved, Gone, PostLost
<1>13. ASSUME NEW t \in Threads, Rival(t) PROVE FormOK'
  BY <1>13, SameEntries DEF Rival
<1>14. QED
  BY <1>2, <1>3, <1>4, <1>6, <1>7, <1>8, <1>9, <1>10, <1>11, <1>12, <1>13
     DEF FormNext, User

(* What the browser and the requests beside it do to departments and accounts are
   steps of the handlers. *)
LEMMA FormStep == FormOK /\ [FormNext]_formVars => [Next]_vars
<1> SUFFICES ASSUME FormOK, FormNext PROVE [Next]_vars
  BY DEF formVars
<1>1. CASE User
  <2>1. ASSUME NEW t \in Threads, Submit(t)
        PROVE  [Next]_vars
    <3>1. CASE form.pk = NoDept
      BY <2>1, <3>1 DEF Submit, Next, Serve
    <3>2. CASE form.pk # NoDept
      <4>1. LoadDept(t, "edit", form.pk) /\ form.pk \in Depts
        BY <2>1, <3>2 DEF Submit, FormOK
      <4>2. QED
        BY <4>1 DEF Next, Serve
    <3>3. QED
      BY <3>1, <3>2
  <2>2. QED
    BY <1>1, <2>1 DEF User, Open, Type, SubmitMissing, Close, vars
<1>2. CASE Fire \/ \E c \in calls : Answer(c) \/ Paint(c) \/ Lose(c)
  BY <1>2 DEF Fire, Answer, Paint, Lose, vars
<1>3. ASSUME NEW t \in Threads, Posting, Post(t)
      PROVE  [Next]_vars
  <2>1. CASE Accept(t)
    <3>1. form.posted.name \in Names /\ form.posted.code \in Codes
      BY <1>3, <2>1 DEF Posting, Accept, FormOK, Entry
    <3>2. CheckDept(t, form.posted.name, form.posted.code, TRUE)
      BY <2>1 DEF Accept
    <3>3. QED
      BY <3>1, <3>2 DEF Next, Serve
  <2>2. CASE Refuse(t)
    BY <2>2 DEF Refuse, Next, Serve, Abandon, NoRequest
  <2>3. CASE Saved(t) \/ PostLost(t)
    BY <2>3 DEF Saved, PostLost, Next, Serve
  <2>4. QED
    BY <1>3, <2>1, <2>2, <2>3 DEF Post
<1>4. ASSUME NEW t \in Threads, Rival(t)
      PROVE  [Next]_vars
  BY <1>4 DEF Rival, Next
<1>5. QED
  BY <1>1, <1>2, <1>3, <1>4 DEF FormNext

(* form_modal.html, rankvista-validate.js: the form implements the handlers.  Whatever
   is typed, validated, lost or posted, departments and accounts change only as
   Directory says; so what is proved of Spec holds with the browser too. *)
THEOREM FormImplements == FormSpec => Spec
<1>1. FormInit => Init /\ FormOK
  BY DEF FormInit, FormOK
<1>2. TypeOK /\ FormOK /\ [FormNext]_formVars => FormOK' /\ [Next]_vars
  BY FormOKStep, FormStep
<1>3. TypeOK /\ [FormNext]_formVars /\ FormOK => FormOK'
  BY <1>2
<1>4. Init => IInv
  BY InitInv
<1>5. IInv /\ [Next]_vars => IInv' /\ TypeOK
  BY TypeStep, ShapeStep, MembersStep, NamesStep DEF IInv
<1>6. IInv => TypeOK
  BY DEF IInv
<1>7. IInv /\ FormOK /\ [FormNext]_formVars => (IInv /\ FormOK)' /\ [Next]_vars
  BY <1>2, <1>5, <1>6
<1>8. FormSpec => [](IInv /\ FormOK)
  BY <1>1, <1>4, <1>7, PTL DEF FormSpec
<1>9. QED
  BY <1>1, <1>7, <1>8, PTL DEF FormSpec, Spec

-----------------------------------------------------------------------------
(* The validations of a form, of which several may be under way: the one that is current
   was sent for what the form holds unless the timer runs, and its verdict is still that
   of the server. *)
Verdicts == {"valid", "invalid"}

CallState ==
  [content : Contents, touched : SUBSET Fields,
   verdict : {<<>>} \cup UNION {[T -> Verdicts] : T \in SUBSET Fields}, current : BOOLEAN]

BrowserTypes ==
  /\ form \in FormState \cup {NoForm}
  /\ calls \subseteq CallState
  /\ history \in [told : BOOLEAN, refused : BOOLEAN]
  /\ form = NoForm => calls = {} /\ ~history.told

Sent ==
  \A c \in calls :
     c.current /\ ~form.timer => c.content = form.content /\ c.touched = form.touched

Judged ==
  \A c \in calls : c.verdict # <<>> =>
     /\ c.verdict \in [c.touched -> Verdicts]
     /\ c.current => \A f \in c.touched : c.verdict[f] = Verdict(form.pk, c.content, f)

Shown ==
  history.told /\ ~form.timer =>
     /\ \A f \in form.touched : form.painted[f] = Verdict(form.pk, form.content, f)
     /\ form.blocked <=> \E f \in form.touched : form.painted[f] = "invalid"

BrowserInv == BrowserTypes /\ Sent /\ Judged /\ Shown

(* The server answers alike while the departments stay as they are. *)
LEMMA SameVerdict ==
  ASSUME depts' = depts
  PROVE  \A pk, content, f : Verdict(pk, content, f)' = Verdict(pk, content, f)
BY DEF Verdict, Errors, Live

LEMMA VerdictType ==
  ASSUME NEW pk, NEW content, NEW f
  PROVE  Verdict(pk, content, f) \in Verdicts
BY DEF Verdict, Verdicts

(* Nothing is sent or answered, and the form keeps what validation is about. *)
LEMMA NothingNew ==
  ASSUME BrowserInv, depts' = depts,
         form' \in FormState \cup {NoForm}, form' = NoForm <=> form = NoForm,
         form'.pk = form.pk, form'.content = form.content, form'.touched = form.touched,
         form'.timer = form.timer, form'.painted = form.painted,
         form'.blocked = form.blocked,
         calls' \subseteq calls,
         history' \in [told : BOOLEAN, refused : BOOLEAN], history'.told = history.told
  PROVE  BrowserInv'
<1>1. BrowserTypes' /\ Sent'
  BY DEF BrowserInv, BrowserTypes, Sent
<1>2. Judged' /\ Shown'
  BY SameVerdict DEF BrowserInv, Judged, Shown
<1>3. QED
  BY <1>1, <1>2 DEF BrowserInv

(* Typing and leaving a field start the timer: what was sent is out of date. *)
LEMMA TimerStarts ==
  ASSUME BrowserInv, depts' = depts, form # NoForm,
         form' \in FormState, form'.pk = form.pk, form'.timer = TRUE,
         calls' = calls, history' = history
  PROVE  BrowserInv'
<1>1. BrowserTypes' /\ Sent' /\ Shown'
  BY NoFormIsNoForm DEF BrowserInv, BrowserTypes, Sent, Shown
<1>2. Judged'
  BY SameVerdict DEF BrowserInv, Judged
<1>3. QED
  BY <1>1, <1>2 DEF BrowserInv

LEMMA OpenShown ==
  ASSUME TypeOK, BrowserInv, NEW pk \in Depts \cup {NoDept}, Open(pk)
  PROVE  BrowserInv'
<1> DEFINE content == IF pk = NoDept THEN [name |-> Blank, code |-> Blank]
                      ELSE [name |-> depts[pk].name, code |-> depts[pk].code]
<1>1. content \in Contents
  <2>1. CASE pk = NoDept
    BY <2>1 DEF Contents
  <2>2. CASE pk # NoDept
    <3>1. depts[pk] \in Row
      BY <2>2 DEF Open, TypeOK, Live
    <3>2. QED
      BY <2>2, <3>1 DEF Row, Contents
  <2>3. QED
    BY <2>1, <2>2
<1>2. form' = NewForm(pk, content) /\ calls = {} /\ calls' = {}
      /\ history' = history /\ ~history.told
  BY DEF Open, BrowserInv, BrowserTypes
<1> HIDE DEF content
<1>3. NewForm(pk, content) \in FormState
  BY <1>1 DEF NewForm, FormState, Fields
<1>4. QED
  BY <1>2, <1>3, NoFormIsNoForm DEF BrowserInv, BrowserTypes, Sent, Judged, Shown

LEMMA ClosedShown ==
  ASSUME BrowserInv, Gone
  PROVE  BrowserInv'
BY DEF Gone, NoHistory, BrowserInv, BrowserTypes, Sent, Judged, Shown

LEMMA FireShown ==
  ASSUME BrowserInv, Fire
  PROVE  BrowserInv'
<1> DEFINE sent == [content |-> form.content, touched |-> form.touched, verdict |-> <<>>,
                    current |-> TRUE]
           older == {[c EXCEPT !.current = FALSE] : c \in calls}
<1>1. form \in FormState /\ form' = [form EXCEPT !.timer = FALSE] /\ depts' = depts
  BY DEF Fire, BrowserInv, BrowserTypes, vars
<1>2. /\ form' \in FormState /\ form'.pk = form.pk /\ form'.content = form.content
      /\ form'.touched = form.touched
  BY <1>1 DEF FormState
<1>3. /\ sent \in CallState /\ sent.verdict = <<>>
      /\ sent.content = form.content /\ sent.touched = form.touched
  BY <1>1 DEF CallState, FormState
<1>4. \A c \in older : /\ c \in CallState /\ ~c.current
                       /\ \E o \in calls : c.verdict = o.verdict /\ c.touched = o.touched
  <2>1. ASSUME NEW o \in calls
        PROVE  LET c == [o EXCEPT !.current = FALSE]
               IN  /\ c \in CallState /\ ~c.current
                   /\ c.verdict = o.verdict /\ c.touched = o.touched
    BY DEF BrowserInv, BrowserTypes, CallState
  <2>2. QED
    BY <2>1
<1>5. calls' = older \cup {sent}
  BY DEF Fire
<1>6. history' \in [told : BOOLEAN, refused : BOOLEAN] /\ history'.told = FALSE
  BY DEF Fire, BrowserInv, BrowserTypes
<1> HIDE DEF sent, older
<1>7. BrowserTypes'
  BY <1>2, <1>3, <1>4, <1>5, <1>6, NoFormIsNoForm DEF BrowserTypes
<1>8. Sent'
  BY <1>2, <1>3, <1>4, <1>5 DEF Sent
<1>9. Judged'
  BY <1>3, <1>4, <1>5 DEF BrowserInv, Judged
<1>10. Shown'
  BY <1>6 DEF Shown
<1>11. QED
  BY <1>7, <1>8, <1>9, <1>10 DEF BrowserInv

LEMMA AnswerShown ==
  ASSUME BrowserInv, NEW c \in calls, Answer(c)
  PROVE  BrowserInv'
<1> DEFINE verdict == [f \in c.touched |-> Verdict(form.pk, c.content, f)]
           answered == [c EXCEPT !.verdict = verdict]
<1>1. c \in CallState /\ c.touched \in SUBSET Fields
  BY DEF BrowserInv, BrowserTypes, CallState
<1>2. /\ verdict \in [c.touched -> Verdicts]
      /\ \A f \in c.touched : verdict[f] = Verdict(form.pk, c.content, f)
  BY VerdictType
<1>3. /\ form' = form /\ history' = history /\ depts' = depts
      /\ calls' = (calls \ {c}) \cup {answered}
  BY DEF Answer, vars
<1> HIDE DEF verdict
<1>4. /\ answered \in CallState /\ answered.verdict = verdict
      /\ answered.content = c.content /\ answered.touched = c.touched
      /\ answered.current = c.current
  BY <1>1, <1>2 DEF CallState
<1> HIDE DEF answered
<1>5. BrowserTypes' /\ Sent'
  BY <1>3, <1>4 DEF BrowserInv, BrowserTypes, Sent
<1>6. Judged'
  BY <1>2, <1>3, <1>4, SameVerdict DEF BrowserInv, Judged
<1>7. Shown'
  BY <1>3, SameVerdict DEF BrowserInv, Shown
<1>8. QED
  BY <1>5, <1>6, <1>7 DEF BrowserInv

(* When the answer painted is that of the current call, it is about what the form holds
   and is what the server would say. *)
LEMMA PaintShown ==
  ASSUME BrowserInv, NEW c \in calls, Paint(c)
  PROVE  BrowserInv'
<1> DEFINE painted == [f \in Fields |->
                         IF f \notin form.touched THEN form.painted[f]
                         ELSE IF f \in c.touched THEN c.verdict[f] ELSE "none"]
           blocked == \E f \in c.touched : c.verdict[f] = "invalid"
<1>1. form \in FormState /\ form # NoForm /\ c \in CallState
  BY NoFormIsNoForm DEF BrowserInv, BrowserTypes
<1>2. /\ form.touched \in SUBSET Fields /\ c.touched \in SUBSET Fields
      /\ form.painted \in [Fields -> {"none", "valid", "invalid"}]
      /\ c.verdict \in [c.touched -> Verdicts]
  BY <1>1 DEF FormState, CallState, BrowserInv, Judged, Paint
<1>3. painted \in [Fields -> {"none", "valid", "invalid"}] /\ blocked \in BOOLEAN
  BY <1>2 DEF Verdicts
<1>4. /\ form' = [form EXCEPT !.painted = painted, !.blocked = blocked]
      /\ calls' = calls \ {c} /\ depts' = depts
      /\ history' = [history EXCEPT !.told = c.current]
  BY DEF Paint, vars
<1>5. \A f \in form.touched : f \in c.touched => painted[f] = c.verdict[f]
  BY <1>2
<1>6. blocked <=> \E f \in c.touched : c.verdict[f] = "invalid"
  OBVIOUS
<1> HIDE DEF painted, blocked
<1>7. /\ form' \in FormState /\ form'.pk = form.pk /\ form'.content = form.content
      /\ form'.touched = form.touched /\ form'.timer = form.timer
      /\ form'.painted = painted /\ form'.blocked = blocked
  BY <1>1, <1>3, <1>4 DEF FormState
<1>8. history' \in [told : BOOLEAN, refused : BOOLEAN] /\ history'.told = c.current
  BY <1>1, <1>4 DEF BrowserInv, BrowserTypes, CallState
<1>9. BrowserTypes' /\ Sent'
  BY <1>4, <1>7, <1>8, NoFormIsNoForm DEF BrowserInv, BrowserTypes, Sent
<1>10. Judged'
  BY <1>4, <1>7, SameVerdict DEF BrowserInv, Judged
<1>11. Shown'
  <2> SUFFICES ASSUME c.current, ~form.timer PROVE Shown'
    BY <1>7, <1>8 DEF Shown
  <2>1. c.content = form.content /\ c.touched = form.touched
    BY DEF BrowserInv, Sent
  <2>2. \A f \in form.touched : painted[f] = Verdict(form.pk, form.content, f)
    BY <1>5, <2>1 DEF BrowserInv, Judged, Paint
  <2>3. blocked <=> \E f \in form.touched : painted[f] = "invalid"
    BY <1>5, <1>6, <2>1
  <2>4. QED
    BY <1>4, <1>7, <2>2, <2>3, SameVerdict DEF Shown
<1>12. QED
  BY <1>9, <1>10, <1>11 DEF BrowserInv

(* Another browser changes a department: the answers given so far are out of date. *)
LEMMA RivalShown ==
  ASSUME BrowserInv, NEW t \in Threads, Rival(t)
  PROVE  BrowserInv'
<1>1. CASE depts' = depts
  BY <1>1, NothingNew DEF Rival, BrowserInv, BrowserTypes
<1>2. CASE depts' # depts
  <2>1. /\ form' = form
        /\ calls' = {[c EXCEPT !.current = @ /\ c.verdict = <<>>] : c \in calls}
        /\ history' = [history EXCEPT !.told = FALSE]
    BY <1>2 DEF Rival
  <2>2. ASSUME NEW o \in calls
        PROVE  LET c == [o EXCEPT !.current = @ /\ o.verdict = <<>>]
               IN  /\ c \in CallState
                   /\ c.content = o.content /\ c.touched = o.touched
                   /\ c.verdict = o.verdict
                   /\ c.current <=> o.current /\ o.verdict = <<>>
    <3>1. PICK now \in BOOLEAN : now = (o.current /\ o.verdict = <<>>)
      OBVIOUS
    <3>2. o \in CallState
      BY DEF BrowserInv, BrowserTypes
    <3>3. [o EXCEPT !.current = @ /\ o.verdict = <<>>] = [o EXCEPT !.current = now]
      BY <3>1, <3>2
    <3>4. LET c == [o EXCEPT !.current = now]
          IN  /\ c \in CallState
              /\ c.content = o.content /\ c.touched = o.touched
              /\ c.verdict = o.verdict /\ c.current = now
      BY <3>1, <3>2 DEF CallState
    <3>5. QED
      BY <3>1, <3>3, <3>4
  <2>3. \A c \in calls' : c \in CallState /\ \E o \in calls :
           /\ c.content = o.content /\ c.touched = o.touched /\ c.verdict = o.verdict
           /\ c.current <=> o.current /\ o.verdict = <<>>
    <3> SUFFICES ASSUME NEW c \in calls'
                 PROVE  c \in CallState /\ \E o \in calls :
                          /\ c.content = o.content /\ c.touched = o.touched
                          /\ c.verdict = o.verdict
                          /\ c.current <=> o.current /\ o.verdict = <<>>
      OBVIOUS
    <3>1. PICK o \in calls : c = [o EXCEPT !.current = @ /\ o.verdict = <<>>]
      BY <2>1
    <3>2. /\ c \in CallState
          /\ c.content = o.content /\ c.touched = o.touched /\ c.verdict = o.verdict
          /\ c.current <=> o.current /\ o.verdict = <<>>
      BY <2>2, <3>1
    <3>3. QED
      BY <3>2
  <2>4. history' \in [told : BOOLEAN, refused : BOOLEAN] /\ history'.told = FALSE
    BY <2>1 DEF BrowserInv, BrowserTypes
  <2>5. calls = {} => calls' = {}
    BY <2>1
  <2>6. BrowserTypes' /\ Sent' /\ Judged' /\ Shown'
    BY <2>1, <2>3, <2>4, <2>5 DEF BrowserInv, BrowserTypes, Sent, Judged, Shown
  <2>7. QED
    BY <2>6 DEF BrowserInv
<1>3. QED
  BY <1>1, <1>2

LEMMA BrowserStep == TypeOK /\ FormOK /\ BrowserInv /\ [FormNext]_formVars => BrowserInv'
<1> SUFFICES ASSUME TypeOK, FormOK, BrowserInv, [FormNext]_formVars PROVE BrowserInv'
  OBVIOUS
<1>0. /\ form # NoForm => form \in FormState
      /\ history \in [told : BOOLEAN, refused : BOOLEAN]
  BY DEF BrowserInv, BrowserTypes
<1>1. ASSUME NEW pk \in Depts \cup {NoDept}, Open(pk) PROVE BrowserInv'
  BY <1>1, OpenShown
<1>2. ASSUME NEW f \in Fields, NEW value, Type(f, value),
             \/ f = "name" /\ value \in Names \cup {Blank}
             \/ f = "code" /\ value \in Codes \cup {Blank}
      PROVE  BrowserInv'
  <2>1. PICK content \in Contents : content = [form.content EXCEPT ![f] = value]
    BY <1>0, <1>2 DEF Type, FormState, Contents, Fields
  <2>2. PICK touched \in SUBSET Fields : touched = form.touched \cup {f}
    BY <1>0, <1>2 DEF Type, FormState
  <2>3. form' = [form EXCEPT !.content = content, !.touched = touched, !.timer = TRUE]
    BY <1>0, <1>2, <2>1, <2>2 DEF Type, FormState
  <2>4. form' \in FormState /\ form'.pk = form.pk /\ form'.timer = TRUE
    BY <1>0, <1>2, <2>3 DEF Type, FormState
  <2>5. QED
    BY <1>2, <2>4, TimerStarts DEF Type, vars
<1>3. ASSUME NEW n \in FormNames, Type("name", n) PROVE BrowserInv'
  BY <1>2, <1>3, EntriesKnown DEF Fields
<1>4. ASSUME NEW k \in FormCodes, Type("code", k) PROVE BrowserInv'
  BY <1>2, <1>4, EntriesKnown DEF Fields
<1>6. ASSUME NEW t \in Threads, Submit(t) PROVE BrowserInv'
  <2>1. /\ form' \in FormState /\ form'.pk = form.pk /\ form'.content = form.content
        /\ form'.touched = form.touched /\ form'.timer = form.timer
        /\ form'.painted = form.painted /\ form'.blocked = form.blocked
    BY <1>0, <1>6 DEF Submit, FormState
  <2>2. form # NoForm /\ depts' = depts /\ calls' = calls /\ history' = history
    BY <1>6 DEF Submit, StartCreate, LoadDept
  <2>3. QED
    BY <1>0, <2>1, <2>2, NothingNew, NoFormIsNoForm
<1>7. CASE SubmitMissing
  <2>1. /\ form' \in FormState /\ form'.pk = form.pk /\ form'.content = form.content
        /\ form'.touched = form.touched /\ form'.timer = form.timer
        /\ form'.painted = form.painted /\ form'.blocked = form.blocked
    BY <1>0, <1>7 DEF SubmitMissing, FormState
  <2>2. form # NoForm /\ depts' = depts /\ calls' = calls /\ history' = history
    BY <1>7 DEF SubmitMissing, vars
  <2>3. QED
    BY <1>0, <2>1, <2>2, NothingNew, NoFormIsNoForm
<1>8. CASE Close
  BY <1>8, ClosedShown DEF Close
<1>9. CASE Fire
  BY <1>9, FireShown
<1>10. ASSUME NEW c \in calls, Answer(c) PROVE BrowserInv'
  BY <1>10, AnswerShown
<1>11. ASSUME NEW c \in calls, Paint(c) PROVE BrowserInv'
  BY <1>11, PaintShown
<1>12. ASSUME NEW c \in calls, Lose(c) PROVE BrowserInv'
  BY <1>0, <1>12, NothingNew DEF Lose, vars
<1>13. ASSUME NEW t \in Threads, Posting, Post(t) PROVE BrowserInv'
  <2>1. CASE Accept(t)
    <3>1. form' = form /\ calls' = calls /\ history' = history /\ depts' = depts
      BY <2>1 DEF Accept, CheckDept, browserVars
    <3>2. QED
      BY <1>0, <1>13, <3>1, NothingNew DEF Posting
  <2>2. ASSUME form # NoForm, form' = [form EXCEPT !.post = NoThread], calls' = calls,
               history' \in [told : BOOLEAN, refused : BOOLEAN],
               history'.told = history.told, depts' = depts
        PROVE  BrowserInv'
    <3>1. /\ form' \in FormState /\ form'.pk = form.pk /\ form'.content = form.content
          /\ form'.touched = form.touched /\ form'.timer = form.timer
          /\ form'.painted = form.painted /\ form'.blocked = form.blocked
      BY <1>0, <2>2 DEF FormState
    <3>2. QED
      BY <2>2, <3>1, NothingNew, NoFormIsNoForm
  <2>3. CASE Refuse(t)
    BY <1>0, <1>13, <2>2, <2>3 DEF Posting, Refuse
  <2>4. CASE PostLost(t)
    BY <1>0, <1>13, <2>2, <2>4 DEF Posting, PostLost, Abandon
  <2>5. CASE Saved(t)
    <3>1. CASE Indexed(req[t].dept, req[t].copy)
      BY <1>0, <1>13, <2>2, <2>5, <3>1 DEF Posting, Saved, SaveDept
    <3>2. CASE ~Indexed(req[t].dept, req[t].copy)
      <4>1. Gone
        BY <2>5, <3>2 DEF Saved
      <4>2. QED
        BY <4>1, ClosedShown
    <3>3. QED
      BY <3>1, <3>2
  <2>6. QED
    BY <1>13, <2>1, <2>3, <2>4, <2>5 DEF Post
<1>14. ASSUME NEW t \in Threads, Rival(t) PROVE BrowserInv'
  BY <1>14, RivalShown
<1>15. CASE UNCHANGED formVars
  BY <1>0, <1>15, NothingNew DEF formVars, vars, browserVars, BrowserInv, BrowserTypes
<1>16. QED
  BY <1>1, <1>3, <1>4, <1>6, <1>7, <1>8, <1>9, <1>10, <1>11, <1>12, <1>13, <1>14,
     <1>15 DEF FormNext, User

(* rankvista-validate.js:20-70, 83-88.  Once nothing is under way and the last answer
   painted was that of the latest call, the form shows what the server says of it, for
   any number of calls, lost ones, and departments that change meanwhile.  An older answer
   painted after the latest one is not covered: its verdicts stay. *)
THEOREM Settled == FormSpec => []VerdictsSettle
<1>1. FormInit => IInv /\ FormOK /\ BrowserInv
  BY InitInv DEF FormInit, FormOK, BrowserInv, BrowserTypes, Sent, Judged, Shown, NoHistory
<1>2. IInv /\ FormOK /\ BrowserInv /\ [FormNext]_formVars => (IInv /\ FormOK /\ BrowserInv)'
  BY FormOKStep, FormStep, BrowserStep, TypeStep, ShapeStep, MembersStep, NamesStep DEF IInv
<1>3. BrowserInv => VerdictsSettle
  BY DEF BrowserInv, Shown, VerdictsSettle
<1>4. QED
  BY <1>1, <1>2, <1>3, PTL DEF FormSpec
=============================================================================
