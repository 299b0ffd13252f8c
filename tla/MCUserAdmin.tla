----------------------------- MODULE MCUserAdmin -----------------------------
(* UserAdmin on small instances.  Threads, browsers and emails are interchangeable;
   accounts are not, Root is one of them. *)
EXTENDS UserAdmin, TLC

CONSTANTS root, ann, bob

AllHandlers == AdminOp \cup OwnOp

(* One request at a time: every handler and two accounts, or three accounts and the
   handlers that give or take rights.  Two at a time, where the instance that is saved
   whole may be older than what the other request wrote. *)
OneByOne(t, b) ==
  {[threads |-> {t}, browsers |-> {b}, accounts |-> {root, ann}, emails |-> Emails,
    handlers |-> AllHandlers],
   [threads |-> {t}, browsers |-> {b}, accounts |-> Users, emails |-> Emails,
    handlers |-> {"create", "edit", "delete"}]}
Overlapping(handlers, e) ==
  [threads |-> Threads, browsers |-> Browsers, accounts |-> {root, ann},
   emails |-> Emails \ {e}, handlers |-> handlers]

MCSettings ==
  UNION {OneByOne(t, b) : t \in Threads, b \in Browsers} \cup
  {Overlapping({"edit", "profile"}, e) : e \in Emails}

(* Two administrators' requests at a time, one of them about a password. *)
EditAndReset == {Overlapping({"edit", "password"}, e) : e \in Emails}

Symmetry == Permutations(Threads) \cup Permutations(Browsers) \cup Permutations(Emails)
=============================================================================
