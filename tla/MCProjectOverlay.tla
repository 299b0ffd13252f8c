-------------------------- MODULE MCProjectOverlay --------------------------
(* ProjectOverlay on small instances. *)
EXTENDS ProjectOverlay, TLC

(* One request at a time, nothing fails, and the warehouse gains projects: the ids
   are 1 to 3, so that a creation and an import can meet above those that exist. *)
Alone(t) == [threads |-> {t}, ids |-> 1..3, names |-> Names, outages |-> {},
              grows |-> TRUE]

(* Two at a time, and everything fails now and then. *)
Overlapping(n) == [threads |-> Threads, ids |-> 1..2, names |-> {n},
                   outages |-> {"warehouse", "mongo", "worker"}, grows |-> FALSE]

MCSettings == {Alone(t) : t \in Threads} \cup {Overlapping(n) : n \in Names}

(* One creation after the other; nothing is imported. *)
MCCreations == {[Alone(t) EXCEPT !.ids = 1..2, !.grows = FALSE] : t \in Threads}

Symmetry == Permutations(Threads) \cup Permutations(Names)
=============================================================================
