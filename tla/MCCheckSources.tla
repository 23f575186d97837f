--------------------------- MODULE MCCheckSources ---------------------------
(* A git source whose only check is an automated one, a manual test, or does not load, by
   the version it is in, and a directory of the user's. *)
EXTENDS CheckSources, TLC

MCUrlKind == [s \in Names |-> IF s = "g" THEN "git" ELSE "path"]
MCVersions == [s \in Names |-> IF s = "g" THEN {"g1", "g2", "g3"} ELSE {"p1", "p2"}]
MCAuto == [g1 |-> {"a"}, g2 |-> {}, g3 |-> {"a"}, p1 |-> {"b"}, p2 |-> {"b"}]
MCManual == [g1 |-> {}, g2 |-> {"a"}, g3 |-> {}, p1 |-> {}, p2 |-> {}]
MCBroken == [g1 |-> {}, g2 |-> {}, g3 |-> {"a"}, p1 |-> {}, p2 |-> {"b"}]
MCCatalogs == [g1 |-> {"fw"}, g2 |-> {}, g3 |-> {}, p1 |-> {}, p2 |-> {}]

(* Bound: two requests at a time while there is no directory of the user's; with one, and the
   repository in its first version, one request.  The kind of the directory is wrong, or has
   been, only where there is no repository. *)
OneOrTwo ==
  /\ IF origin["p"] = None THEN row["p"] = None
     ELSE origin["g"] = "g1" /\ \E h \in Handlers : job[h] = Idle
  /\ rekinded = {} \/ (rekinded = {"p"} /\ row["g"] = None)

MCSymmetry == Permutations(Handlers)
=============================================================================
