-------------------------- MODULE MCDepartmentForm --------------------------
(* Directory without a browser, two requests at a time, and the form of one browser,
   alone or while departments are deleted.  The name has two spellings. *)
EXTENDS DepartmentForm, TLC

MCFolded == "Seo" :> "seo" @@ "SEO" :> "seo"
MCUpper == "SE" :> "SE" @@ "se" :> "SE" @@ "AD" :> "AD"
AllOps == {"create", "edit", "toggle", "delete", "add", "assign", "rewrite"}
MCSettings ==
  {[browser |-> FALSE, rivals |-> 2, ops |-> AllOps, calls |-> 0],
   [browser |-> TRUE, rivals |-> 0, ops |-> {}, calls |-> 2],
   [browser |-> TRUE, rivals |-> 1, ops |-> {"delete"}, calls |-> 1]}
MCAlone == {[browser |-> TRUE, rivals |-> 0, ops |-> {}, calls |-> 1]}

Symmetry == Permutations(Depts) \cup Permutations(Accounts) \cup Permutations(Threads)
=============================================================================
