------------------------------ MODULE MCReports ------------------------------
(* Two users, of whom "ann" is the first admin, and two logins; pilot runs *)
(* with two records, one of no requirement and one of two.                 *)
EXTENDS Reports

MCTests == [r1 |-> {"c"}, r2 |-> {"c"}]
MCOutcomes == {[checks |-> {"c", "d"}, tests |-> MCTests]}

\* One admin and one who is not.
TwoUsers == [u \in Users |-> IF u = "ann" THEN "admin" ELSE IF u = "bob" THEN "user" ELSE "none"]

\* The store of a server with these users and reports of the admin's, and an empty store.
MCUploads ==
  {[role |-> TwoUsers, row |-> [i \in Ids |-> [owner |-> "ann", visibility |-> "public", run |-> 0]]],
   [role |-> [u \in Users |-> "none"], row |-> [i \in Ids |-> None]]}

\* Bound: users are changed before the first run ends.  Then there are the two above, and it
\* is all about the runs: the changes of users touch nothing else but the logins, which can be
\* stale by then.
UsersFirst ==
  IF ran = <<>> THEN snap = None
  ELSE role = TwoUsers /\ ~raced /\ \A h \in Handlers : req[h] = None

\* Bound: nobody makes an account of the built-in name, which could not be taken away again.
NoBuiltIn ==
  role["admin"] = "none" /\ \A h \in Handlers : req[h] = None \/ req[h].name # "admin"

MCSymmetry == Permutations(Tokens) \cup Permutations(Ids) \cup Permutations(Handlers)
=============================================================================
