----------------------------- MODULE AccountBook -----------------------------
(***************************************************************************)
(* What user administration promises, with every request a single step:    *)
(* an account is enrolled, amended, given a new password and closed, each  *)
(* time by another account that is at that moment an open, active super    *)
(* admin; only its owner may also change its password; a closed account    *)
(* and a replaced password never come back.                                *)
(***************************************************************************)
EXTENDS Integers

CONSTANTS Users, Role, SUPER_ADMIN,
          None,     \* never enrolled
          Closed    \* deleted

VARIABLE book

Open(u) == book[u] \notin {None, Closed}

Administers(a, u) ==
  /\ a # u
  /\ Open(a) /\ book[a].active /\ book[a].role = SUPER_ADMIN

Enrol(a, u, role, active) ==
  /\ Administers(a, u)
  /\ book[u] = None
  /\ book' = [book EXCEPT ![u] = [role |-> role, active |-> active, pwd |-> 1]]

Amend(a, u, role, active) ==
  /\ Administers(a, u)
  /\ Open(u)
  /\ book' = [book EXCEPT ![u].role = role, ![u].active = active]

Rekey(a, u) ==
  /\ Open(u)
  /\ Administers(a, u) \/ (a = u /\ book[a].active)
  /\ book' = [book EXCEPT ![u].pwd = @ + 1]

Close(a, u) ==
  /\ Administers(a, u)
  /\ Open(u)
  /\ book' = [book EXCEPT ![u] = Closed]

Init ==
  /\ \A u \in Users : Open(u) => book[u].active /\ book[u].pwd = 1
  /\ \E a \in Users : Open(a) /\ book[a].role = SUPER_ADMIN

Next ==
  \E a, u \in Users :
     \/ \E r \in Role, active \in BOOLEAN : Enrol(a, u, r, active) \/ Amend(a, u, r, active)
     \/ Rekey(a, u)
     \/ Close(a, u)

Spec == Init /\ [][Next]_book
=============================================================================
