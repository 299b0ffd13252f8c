------------------------------ MODULE RoleScreen ------------------------------
(***************************************************************************)
(* The permission switches of one role on the role screen, against the     *)
(* server of RoleTable: initPermissionToggles of rankvista-shell.js and    *)
(* role_permission_toggle of apps/accounts/role_views.py.                  *)
(*                                                                         *)
(* A click turns the switch at once and sends the wanted state; nothing    *)
(* stops a second click while the first is being saved.  Requests travel   *)
(* side by side, workers serve them side by side, and answers come back in *)
(* any order or not at all.  Permission checks go on meanwhile.            *)
(*                                                                         *)
(* Left out: the toasts, the other roles of the screen, reloading it, and  *)
(* other administrators who change the same role.                          *)
(***************************************************************************)
EXTENDS RoleTable

CONSTANTS
  Shown,      \* the role whose switches are clicked
  ShownPages, \* the pages that have a switch
  ScreenSettings, \* bound: the surroundings of the screen that are considered
  InitialGrants, \* the pages it may open at first, one of these sets
  MaxClicks,  \* bound: clicks, on all switches together
  Checkers,   \* bound: the threads that also serve permission checks
  Losses      \* requests and answers may be lost

ASSUME InitialGrantsSets == InitialGrants \subseteq SUBSET ShownPages
ASSUME ShownPagesArePages == ShownPages \subseteq PageKeys
ASSUME ScreenSettingsOK ==
  /\ ScreenSettings \subseteq Settings
  /\ \A s \in ScreenSettings :
       s.pages = ShownPages /\ s.threads = Threads /\ "toggle" \in s.handlers
ASSUME CheckersAreThreads == Checkers \subseteq Threads
ASSUME MaxClicksNat == MaxClicks \in Nat
ASSUME LossesBool == Losses \in BOOLEAN

VARIABLES
  switch,    \* is the switch of each page on
  saving,    \* does its label say is-saving
  fetches,   \* the requests, in the order of the clicks
  serving    \* the request each thread works for, 0 for none

screenVars == <<switch, saving, fetches, serving>>
allVars == <<vars, screenVars>>

(* A fetch: the page and the wanted state; client, is the promise waiting, resolved
   or rejected; server, is the request sent, lost, serving, ok or failed; wrote, the
   grant is stored; late, a younger click on the page was stored first; eager,
   another request of the page was under way at the time of the click. *)
Ids == 1..Len(fetches)
Of(p) == {i \in Ids : fetches[i].page = p}
Waiting(p) == {i \in Of(p) : fetches[i].client = "waiting"}
Granted(p) == grants[Shown][p] = "allowed"

(* A role that was created on the screen, beside the built-in ones. *)
ScreenInit ==
  /\ setting \in ScreenSettings
  /\ \E granted \in InitialGrants, code \in CustomCodes :
       /\ rows \in [Pks -> {NoRow} \cup {SystemRow(c) : c \in BuiltInCodes} \cup
                     {[code |-> code, rank |-> RankOf(Cardinality(granted)),
                       system |-> FALSE, active |-> TRUE]}]
       /\ PksOf(code) = {Shown}
       /\ \A c \in BuiltInCodes : Cardinality(PksOf(c)) = 1
       /\ grants = [pk \in Pks |-> [p \in Pages |->
                      IF pk = Shown THEN IF p \in granted THEN "allowed" ELSE "denied"
                      ELSE IF Live(pk) THEN DefaultGrant(p, rows[pk].code) ELSE "none"]]
  /\ cache = [k \in Caches |-> NoTable]
  /\ online = TRUE
  /\ req = [t \in Threads |-> NoRequest]
  /\ switch = [p \in Pages |-> Granted(p)]
  /\ saving = [p \in Pages |-> FALSE]
  /\ fetches = <<>>
  /\ serving = [t \in Threads |-> 0]

-----------------------------------------------------------------------------
(* The browser. *)

(* The change event: the box shows the new state already. *)
Click(p) ==
  /\ Len(fetches) < MaxClicks
  /\ switch' = [switch EXCEPT ![p] = ~@]
  /\ saving' = [saving EXCEPT ![p] = TRUE]
  /\ fetches' = Append(fetches,
       [page |-> p, allowed |-> ~switch[p], client |-> "waiting", server |-> "sent",
        wrote |-> FALSE, late |-> FALSE, eager |-> Waiting(p) # {}])
  /\ UNCHANGED <<vars, serving>>

(* then: an answer that says ok. *)
Resolve(i) ==
  /\ fetches[i].client = "waiting" /\ fetches[i].server = "ok"
  /\ saving' = [saving EXCEPT ![fetches[i].page] = FALSE]
  /\ fetches' = [fetches EXCEPT ![i].client = "resolved"]
  /\ UNCHANGED <<vars, switch, serving>>

(* Mutant: a failure leaves the label as it is. *)
Reject_Saving(i) ==
  /\ fetches[i].client = "waiting"
  /\ fetches[i].server \in {"failed", "lost"} \/ Losses
  /\ switch' = [switch EXCEPT ![fetches[i].page] = ~fetches[i].allowed]
  /\ fetches' = [fetches EXCEPT ![i].client = "rejected"]
  /\ UNCHANGED <<vars, saving, serving>>

(* Mutant: a failure leaves the switch as it is. *)
Reject_Keeps(i) ==
  /\ fetches[i].client = "waiting"
  /\ fetches[i].server \in {"failed", "lost"} \/ Losses
  /\ saving' = [saving EXCEPT ![fetches[i].page] = FALSE]
  /\ fetches' = [fetches EXCEPT ![i].client = "rejected"]
  /\ UNCHANGED <<vars, switch, serving>>

(* catch: an answer that says otherwise, or a connection that breaks, wherever the
   request is by then.  The switch goes back to the state before this click. *)
Reject(i) ==
  /\ fetches[i].client = "waiting"
  /\ fetches[i].server \in {"failed", "lost"} \/ Losses
  /\ switch' = [switch EXCEPT ![fetches[i].page] = ~fetches[i].allowed]
  /\ saving' = [saving EXCEPT ![fetches[i].page] = FALSE]
  /\ fetches' = [fetches EXCEPT ![i].client = "rejected"]
  /\ UNCHANGED <<vars, serving>>

LoseRequest(i) ==
  /\ Losses /\ fetches[i].server = "sent"
  /\ fetches' = [fetches EXCEPT ![i].server = "lost"]
  /\ UNCHANGED <<vars, switch, saving, serving>>

-----------------------------------------------------------------------------
(* The server. *)

Answer(t, outcome) ==
  /\ fetches' = [fetches EXCEPT ![serving[t]].server = outcome]
  /\ serving' = [serving EXCEPT ![t] = 0]

Deliver(t, i) ==
  /\ fetches[i].server = "sent"
  /\ LoadRole(t, "toggle", Shown)
  /\ serving' = [serving EXCEPT ![t] = i]
  /\ fetches' = [fetches EXCEPT ![i].server = "serving"]
  /\ UNCHANGED <<switch, saving>>

StoreGrant(t) ==
  /\ serving[t] # 0
  /\ LET f == fetches[serving[t]]
         younger == {j \in Of(f.page) : j > serving[t] /\ fetches[j].wrote}
     IN  /\ WriteGrant(t, f.page, IF f.allowed THEN "allowed" ELSE "denied")
         /\ fetches' = [fetches EXCEPT ![serving[t]].wrote = TRUE,
                                       ![serving[t]].late = (younger # {})]
  /\ UNCHANGED <<switch, saving, serving>>

UpdateRank(t) ==
  /\ serving[t] # 0
  /\ Recalculate(t) \/ SaveRank(t)
  /\ UNCHANGED screenVars

DropTable(t) ==
  /\ serving[t] # 0
  /\ Invalidate(t)
  /\ Answer(t, "ok")
  /\ UNCHANGED <<switch, saving>>

(* A refusal, an error of the store, a worker that dies. *)
FailRequest(t) ==
  /\ serving[t] # 0
  /\ Abandon(t)
  /\ Answer(t, "failed")
  /\ UNCHANGED <<switch, saving>>

CheckPermission(t) ==
  /\ serving[t] = 0 /\ t \in Checkers
  /\ Check(t)
  /\ UNCHANGED screenVars

Surroundings ==
  /\ (\E k \in Caches : Expire(k)) \/ CacheUpDown
  /\ UNCHANGED screenVars

Settle(i) == Resolve(i) \/ Reject(i)

Work(t) ==
  \/ \E i \in Ids : Deliver(t, i)
  \/ StoreGrant(t) \/ UpdateRank(t) \/ DropTable(t) \/ FailRequest(t)
  \/ CheckPermission(t)

ScreenNext ==
  \/ \E p \in Pages : Click(p)
  \/ \E i \in Ids : Settle(i) \/ LoseRequest(i)
  \/ \E t \in Threads : Work(t)
  \/ Surroundings

(* A request that arrives is served, a worker that has begun goes on, the browser
   runs its callbacks, an entry expires after its TTL. *)
ScreenFairness ==
  /\ \A t \in Threads : WF_allVars(\E i \in Ids : Deliver(t, i))
  /\ \A t \in Threads : WF_allVars(req[t].at # "idle" /\ Work(t))
  /\ \A i \in 1..MaxClicks : WF_allVars(i \in Ids /\ Settle(i))
  /\ \A k \in Caches : WF_allVars(Expire(k) /\ UNCHANGED screenVars)

ScreenSpec == ScreenInit /\ [][ScreenNext]_allVars
ScreenFairSpec == ScreenSpec /\ ScreenFairness

-----------------------------------------------------------------------------
(* Properties. *)

(* The page was clicked, and every request of it is over. *)
Settled(p) ==
  /\ Of(p) # {}
  /\ \A i \in Of(p) :
       fetches[i].client # "waiting" /\ fetches[i].server \notin {"sent", "serving"}

(* The server stored what the browser counts as failed: its answer was lost, or the
   request failed after the grant was saved. *)
Unheard(p) == \E i \in Of(p) : fetches[i].client = "rejected" /\ fetches[i].wrote

(* A click was stored after a younger one. *)
Overtaken(p) == \E i \in Of(p) : fetches[i].late

(* A second click came while the first was under way, and one of the page failed: it
   restores the state before its own click, not the one before the others. *)
Crossed(p) ==
  /\ \E i \in Of(p) : fetches[i].eager
  /\ \E i \in Of(p) : fetches[i].client = "rejected"

(* rankvista-shell.js:218-252, role_views.py:219-250.  A switch whose requests are over
   and that does not show the stored grant got there in one of these three ways, each of
   which happens.  Nothing else makes it wrong: not the order in which answers come back,
   a single click that fails, one after the other, nor what happens to the other
   switches of the role. *)
SwitchTellsGrant ==
  \A p \in ShownPages : Settled(p) /\ switch[p] # Granted(p)
                         => Unheard(p) \/ Overtaken(p) \/ Crossed(p)

(* rankvista-shell.js:247: "Never leave the switch showing a state the server did not
   accept."  When the server accepted nothing, the switch shows what it showed before
   the clicks, the stored grant. *)
SwitchAccepted ==
  \A p \in ShownPages : Settled(p) /\ (\A i \in Of(p) : ~fetches[i].wrote)
                         => switch[p] = Granted(p)

(* rankvista-shell.js:246-249.  No label says "saving" for ever. *)
SavingEnds == \A p \in ShownPages : saving[p] ~> ~saving[p]
=============================================================================
