---------------------------- MODULE MCConfigStore ----------------------------
(* Two benches that share the one board, and the name of the inventory; a fresh store, one of *)
(* the first version with two benches, and one of a later version with credentials in the     *)
(* inventory.                                                                                 *)
EXTENDS ConfigStore

Empty == [id |-> [n \in Benches |-> 0],
          link |-> [i \in BenchIds |-> {}], driver |-> [i \in BenchIds |-> {}],
          cred |-> [i \in BenchIds |-> {}], secret |-> [i \in BenchIds |-> FALSE],
          board |-> {}, noted |-> {}, oldcred |-> {}, old |-> [i \in BenchIds |-> {}]]

TwoBenches == [Empty EXCEPT !.id = [n \in Benches |-> IF n = "b1" THEN 1 ELSE IF n = "b2" THEN 2 ELSE 0]]

MCStores ==
  {Empty,
   [TwoBenches EXCEPT !.old[1] = Boards, !.old[2] = Boards, !.secret[1] = TRUE],
   [TwoBenches EXCEPT !.link[1] = Boards, !.driver[1] = Boards, !.board = Boards,
                      !.oldcred = Boards]}

MCSeeds ==
  [n \in Benches |-> IF n = Inventory THEN None
                     ELSE [boards |-> Boards, drivers |-> Boards, creds |-> {}]]

(* Bound: under the name of the inventory there are secrets only. *)
SecretsOnly == due[Inventory] = Old
=============================================================================
