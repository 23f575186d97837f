------------------------------ MODULE BenchMutex ------------------------------
(***************************************************************************)
(* What the bench locks promise, with no table and no run ids: a run takes *)
(* a set of resources that no other run is using, gives them all back when *)
(* it ends, and an administrator may take one away from whoever uses it.   *)
(***************************************************************************)

CONSTANTS Handlers, Resources

VARIABLE using    \* the resources each run has for itself

Init == using = [h \in Handlers |-> {}]

Enter(h, S) ==
  /\ using[h] = {}
  /\ \A g \in Handlers : using[g] \cap S = {}
  /\ using' = [using EXCEPT ![h] = S]

Leave(h) == using' = [using EXCEPT ![h] = {}]

Revoke(r) == using' = [h \in Handlers |-> using[h] \ {r}]

Next ==
  \/ \E h \in Handlers, S \in SUBSET Resources : Enter(h, S)
  \/ \E h \in Handlers : Leave(h)
  \/ \E r \in Resources : Revoke(r)

Spec == Init /\ [][Next]_using

=============================================================================
