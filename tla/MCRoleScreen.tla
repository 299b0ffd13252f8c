----------------------------- MODULE MCRoleScreen -----------------------------
(* RoleTable and RoleScreen on small instances: pages that every role opens by default,
   p1 and p3, and one for super admins, p2; the super admin and user roles are built in. *)
EXTENDS RoleScreen, TLC

CONSTANTS p1, p2, p3, local1, local2, t1, t2, k1, k2, k3

MCPageMin == (p1 :> 10) @@ (p2 :> 30) @@ (p3 :> 10)
MCBuiltIns == <<"SUPER_ADMIN", "USER">>
MCPerProcess == (t1 :> local1) @@ (t2 :> local2)

MCScreenSettings ==
  {[threads |-> Threads, handlers |-> {"lookup", "toggle"}, pages |-> {p1, p2},
    faults |-> {"cache", "worker"}]}

(* One request at a time and two or three pages, of which half a grant's rank is
   rounded; one at a time while the cache comes and goes; two at a time, workers that
   die and reads that fail, and the page for super admins alone. *)
HandlerSettings ==
  {[threads |-> {t1}, handlers |-> Handlers, pages |-> pages, faults |-> {}] :
      pages \in {{p1, p2}, {p1, p2, p3}}} \cup
  {[threads |-> {t1}, handlers |-> Handlers, pages |-> {p2}, faults |-> {"cache"}]} \cup
  {[threads |-> Threads, handlers |-> handlers, pages |-> {p2},
    faults |-> {"store", "worker"}] :
      handlers \in {Handlers \ {"lookup", "sync"}, Handlers \ {"toggle"},
                  {"toggle", "sync", "create"}}}

MCSettings == MCScreenSettings \cup HandlerSettings

(* Primary keys are interchangeable: the built-in roles have the last two. *)
Placed == rows[k2] = SystemRow("SUPER_ADMIN") /\ rows[k3] = SystemRow("USER")

(* The handlers at work without a screen, and the screen. *)
NoClicks ==
  /\ switch = [p \in ShownPages |-> FALSE]
  /\ saving = [p \in ShownPages |-> FALSE]
  /\ fetches = <<>>
  /\ serving = [t \in Threads |-> 0]

HandlerInit == Init /\ setting \in HandlerSettings /\ NoClicks
HandlerNext == setting \in HandlerSettings /\ Next /\ UNCHANGED screenVars

MCInit == (ScreenInit \/ HandlerInit) /\ Placed
MCNext == (setting \in ScreenSettings /\ ScreenNext) \/ HandlerNext
MCSpec == MCInit /\ [][MCNext]_allVars /\ ScreenFairness
=============================================================================
