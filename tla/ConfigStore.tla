----------------------------- MODULE ConfigStore -----------------------------
(***************************************************************************)
(* The configuration store (store/repo.py, store/db.py, store/backup.py)   *)
(* as the endpoints of web/server.py use it: benches with their wiring and *)
(* secrets, the shared inventory, and what serve() migrates and seeds.     *)
(*                                                                         *)
(* Every method holds Repo._lock and all share one connection, so a method *)
(* is one step.  A method that raises leaves its statements in the open    *)
(* transaction of that connection: db is what the connection sees, disk    *)
(* what is committed and what a restart finds.                             *)
(*                                                                         *)
(* A bench has a row with an id; SQLite gives a new row the largest id     *)
(* plus one, so the id of a deleted bench is used again.  A board stands   *)
(* for a shared resource (agents are linked and synced in the same way);   *)
(* its driver and its credential are wiring and belong to the bench.       *)
(***************************************************************************)
EXTENDS Integers

CONSTANTS
  Benches,  \* names of benches
  Inventory, \* the name among them under which the secrets of the inventory are kept
  Boards,   \* names of inventory boards
  MaxId,    \* bound: the largest id of a bench row
  Stores,   \* stores of earlier versions: what a first start or a restore finds
  Seeds     \* bench -> the save its YAML file holds, or None
            \* (benches/*.yaml with their .secrets.yaml)
CONSTANTS None, Old

BenchIds == 1 .. MaxId

VARIABLES
  db,     \* the tables as the server's connection sees them
  disk,   \* the committed tables
  pc,     \* how far a start has come, "up" when requests are served
  todo,   \* the benches the step of the start has still to look at
  due     \* what the store owes: bench -> its last save that was answered with success,
          \*   Old before a user or a start has saved it, or None

vars == <<db, disk, pc, todo, due>>

\* What a client puts: the boards of a bench and which of them have a driver, a credential.
Saves == {s \in [boards : SUBSET Boards, drivers : SUBSET Boards, creds : SUBSET Boards] :
            s.drivers \cup s.creds \subseteq s.boards}

Tables == [id : [Benches -> 0 .. MaxId],             \* bench.id, 0 for no row
           link : [BenchIds -> SUBSET Boards],       \* bench_board
           driver : [BenchIds -> SUBSET Boards],     \* bench_vector, bench_hook
           cred : [BenchIds -> SUBSET Boards],       \* bench_board_cred
           secret : [BenchIds -> BOOLEAN],           \* secret
           board : SUBSET Boards,                    \* inv_board
           noted : SUBSET Boards,                    \*   and those of them with comments
           oldcred : SUBSET Boards,                  \* inv_board_cred
           old : [BenchIds -> SUBSET Boards]]        \* the per-bench tables of an early
                                                     \*   version, boards with their drivers

Live(d) == {n \in Benches : d.id[n] # 0}
Ids(d) == {d.id[n] : n \in Live(d)}
list_benches(d) == Live(d) \ {Inventory}

\* The ids of benches differ: they are a primary key.
Keys(d) == \A m, n \in Live(d) : d.id[m] = d.id[n] => m = n

\* No row hangs on a bench that is not there: foreign keys hold.
Tidy(d) ==
  \A i \in BenchIds \ Ids(d) :
    d.link[i] \cup d.driver[i] \cup d.cred[i] \cup d.old[i] = {} /\ ~d.secret[i]

ASSUME StoreAssumption ==
  /\ MaxId \in Nat
  /\ \A d \in Stores : d \in Tables /\ Keys(d) /\ Tidy(d)
  /\ Seeds \in [Benches -> Saves \cup {None}]
  /\ None \notin Saves /\ Old \notin Saves /\ None # Old

TypeOK ==
  /\ db \in Tables /\ disk \in Tables
  /\ pc \in {"down", "benches", "seed", "seedsecret", "up"}
  /\ todo \subseteq Benches
  /\ due \in [Benches -> Saves \cup {Old, None}]

Init ==
  /\ db \in Stores /\ disk = db
  /\ pc = "down" /\ todo = {}
  /\ due = [n \in Benches |-> Old]

\* The largest id plus one, or nothing when that is past the bound.
NextIds(d) == {i \in BenchIds : (\A j \in Ids(d) : j < i) /\ (i = 1 \/ i - 1 \in Ids(d))}
NewId(d) == CHOOSE i \in NextIds(d) : TRUE

HasId(d, n) == d.id[n] # 0 \/ NextIds(d) # {}

Commits(d) == db' = d /\ disk' = d
Leaves(d) == db' = d /\ UNCHANGED disk

Owes(n, what) == due' = [due EXCEPT ![n] = what]

-----------------------------------------------------------------------------
(* Benches *)

\* The row of bench n, inserted when there is none.
WithRow(d, n) == IF d.id[n] # 0 THEN d ELSE [d EXCEPT !.id[n] = NewId(d)]

\* The bench's rows of the link and wiring tables are deleted.
Emptied(d, i) == [d EXCEPT !.link[i] = {}, !.driver[i] = {}, !.cred[i] = {}]

\* Mutant: the inventory row is written as it comes with the bench.
InsertedWhole(d, i, s) ==
  [d EXCEPT !.link[i] = s.boards, !.driver[i] = s.drivers, !.cred[i] = s.creds,
            !.board = @ \cup s.boards, !.noted = @ \ s.boards]

\* The boards are put into the inventory (the comments of one that is there stay) and linked.
Inserted(d, i, s) ==
  [d EXCEPT !.link[i] = s.boards, !.driver[i] = s.drivers, !.cred[i] = s.creds,
            !.board = @ \cup s.boards]

\* upsert_bench with the data s, all of it.
Upserted(d, n, s) ==
  LET r == WithRow(d, n) IN Inserted(Emptied(r, r.id[n]), r.id[n], s)

upsert_bench(n, s) ==
  /\ HasId(db, n)
  /\ Commits(Upserted(db, n, s))
  /\ Owes(n, s)

\* A board of the data has no name: what came before it is written, and not committed.
upsert_bench_fails(n, s) ==
  /\ HasId(db, n)
  /\ Leaves(Upserted(db, n, s))
  /\ Owes(n, None)

\* Mutant: foreign keys are not enforced, as on a connection without the PRAGMA.
delete_benchRowOnly(n) ==
  /\ Commits([db EXCEPT !.id[n] = 0])
  /\ Owes(n, None)

\* The row goes, and by ON DELETE CASCADE all that refers to it.
delete_bench(n) ==
  /\ LET i == db.id[n] IN
     Commits(IF i = 0 THEN db
             ELSE [Emptied(db, i) EXCEPT !.id[n] = 0, !.secret[i] = FALSE, !.old[i] = {}])
  /\ Owes(n, None)

\* set_secrets makes a row for a bench it does not know; the row and the secrets are two
\* commits under one lock.
set_secrets(n, some) ==
  /\ HasId(db, n)
  /\ LET r == WithRow(db, n) IN Commits([r EXCEPT !.secret[r.id[n]] = some])
  /\ UNCHANGED due

delete_secret(n) ==
  /\ db.id[n] # 0
  /\ Commits([db EXCEPT !.secret[db.id[n]] = FALSE])
  /\ UNCHANGED due

-----------------------------------------------------------------------------
(* The inventory, and the tables that hang on nothing *)

\* An edit in the inventory editor carries its editor's name, and its comments for the old.
upsert_inv_board(y, comments) ==
  /\ Commits([db EXCEPT !.board = @ \cup {y},
                        !.noted = IF comments THEN @ \cup {y} ELSE @ \ {y}])
  /\ UNCHANGED due

\* The links of benches to it stay, and show nothing until it is there again.
delete_inv_board(y) ==
  /\ Commits([db EXCEPT !.board = @ \ {y}, !.noted = @ \ {y}, !.oldcred = @ \ {y}])
  /\ UNCHANGED due

\* Any method that writes one row of a table of its own and commits: suites, test plans,
\* board models, driver types, actions.
OtherWrite == db # disk /\ Commits(db) /\ UNCHANGED due

\* restore refuses a connection in a transaction; what it brings is brought up to date.
restore(d) == db = disk /\ Commits(d) /\ due' = [n \in Benches |-> Old]

-----------------------------------------------------------------------------
(* A start: connect and migrate, then the steps of serve() before it listens *)

StepTo(step, names) == pc' = step /\ todo' = names

Crash ==
  /\ pc # "down"
  /\ db' = disk /\ UNCHANGED <<disk, due>>
  /\ StepTo("down", {})

Start ==
  /\ pc = "down"
  /\ StepTo("benches", Live(db))
  /\ UNCHANGED <<db, disk, due>>

\* _get_bench_legacy gives the wiring as "vectors" and "hooks"; upsert_bench reads
\* "drivers" and "actions".
_get_bench_legacy(i) == [boards |-> db.old[i], drivers |-> {}, creds |-> db.old[i]]

\* Mutant: a bench that was migrated before shows that all were.
NotLinkedAny(n) == \A i \in BenchIds : db.link[i] = {}

\* Mutant: a start migrates again what an earlier one has migrated.
NotLinkedOrAgain(n) == TRUE

NotLinked(n) == db.link[db.id[n]] = {}

\* migrate_benches_to_inventory, one bench: each is a transaction of its own.
MigrateBench(n) ==
  LET i == db.id[n] IN
  /\ pc = "benches" /\ n \in todo
  /\ IF NotLinked(n) /\ db.old[i] # {}
       THEN Commits(Upserted(db, n, _get_bench_legacy(i))) ELSE UNCHANGED <<db, disk>>
  /\ StepTo("benches", todo \ {n})
  /\ UNCHANGED due

\* migrate_drivers_to_inventory: the credentials of inventory boards are entered for
\* every bench that has the board (a driver without a type gets one).
migrate_drivers_to_inventory ==
  /\ pc = "benches" /\ todo = {}
  /\ Commits([db EXCEPT !.cred = [i \in BenchIds |-> @[i] \cup (db.oldcred \cap db.link[i])]])
  /\ StepTo("seed", IF list_benches(db) = {} THEN {n \in Benches : Seeds[n] # None} ELSE {})
  /\ UNCHANGED due

\* _seed_from_files, one file: the bench, then its secrets; a file that cannot be read
\* to its end is passed over.
SeedBench(n) ==
  /\ pc = "seed" /\ n \in todo
  /\ \/ upsert_bench(n, Seeds[n]) /\ pc' = "seedsecret" /\ UNCHANGED todo
     \/ upsert_bench_fails(n, Seeds[n]) /\ StepTo("seed", todo \ {n})

SeedSecrets(n) ==
  /\ pc = "seedsecret" /\ n \in todo /\ db.id[n] # 0
  /\ set_secrets(n, TRUE)
  /\ StepTo("seed", todo \ {n})

\* get_bench: the boards of the bench that are in the inventory.
get_bench(n) == db.link[db.id[n]] \cap db.board

\* _seed_inventory: when the inventory is empty, so is every bench.
_seed_inventory ==
  /\ pc = "seed" /\ todo = {}
  /\ IF db.board # {} THEN UNCHANGED <<db, disk>>
     ELSE Commits([db EXCEPT !.board = UNION {get_bench(n) : n \in list_benches(db)}])
  /\ StepTo("up", {})
  /\ UNCHANGED due

-----------------------------------------------------------------------------

\* The bench and the secret endpoints (an import is a save, then one of its secrets).
BenchRequest ==
  \/ \E n \in Benches, s \in Saves : upsert_bench(n, s) \/ upsert_bench_fails(n, s)
  \/ \E n \in Benches : delete_bench(n) \/ delete_secret(n)
  \/ \E n \in Benches, some \in BOOLEAN : set_secrets(n, some)

\* The inventory endpoints; drivers, actions and agents hang on nothing.
InventoryRequest ==
  \/ \E y \in Boards, comments \in BOOLEAN : upsert_inv_board(y, comments)
  \/ \E y \in Boards : delete_inv_board(y)
  \/ OtherWrite

\* Requests are served when the steps of the start are done.
Request ==
  /\ pc = "up"
  /\ BenchRequest \/ InventoryRequest \/ \E d \in Stores : restore(d)
  /\ UNCHANGED <<pc, todo>>

Next ==
  \/ Request \/ Crash \/ Start
  \/ \E n \in Benches : MigrateBench(n) \/ SeedBench(n) \/ SeedSecrets(n)
  \/ migrate_drivers_to_inventory \/ _seed_inventory

Spec == Init /\ [][Next]_vars

-----------------------------------------------------------------------------
(* Properties *)

\* No row is left of a bench that is gone: its id is given to the next one, which must not
\* come up with the wiring, the secrets or the old tables of another (schema.sql's ON
\* DELETE CASCADE, repo.py:36), committed or not.
NoOrphanRows == Tidy(db) /\ Tidy(disk)

\* A bench is on disk as the last save that was answered said, through failed saves of
\* other benches, crashes, starts and their migrations.  (A start adds the
\* credentials of inv_board_cred again, and fills a bench saved empty from the old tables.)
Kept(d, n, save) ==
  save \in Saves /\ save.boards # {} =>
    LET i == d.id[n] IN
    /\ i # 0
    /\ d.link[i] = save.boards /\ d.driver[i] = save.drivers
    /\ save.creds \subseteq d.cred[i]
SavedBenchIsKept == \A n \in Benches : Kept(db, n, due[n]) /\ Kept(disk, n, due[n])

\* When a start is past its migrations every bench of an early version has its boards,
\* wherever the starts before it stopped.
MigrationCompletes ==
  pc \in {"seed", "seedsecret"} =>
    \A n \in Live(db) : due[n] = Old /\ db.old[db.id[n]] # {} => db.link[db.id[n]] # {}

\* The comments of a board of the inventory are its editors': no request about a bench, no
\* crash and no start wipes them (repo.py:622 "Bench-sync passes editor='' and must NOT wipe
\* them").
MetadataKept ==
  [][BenchRequest \/ pc # "up" \/ pc' # "up" =>
       \A y \in Boards : y \in db.noted \cap db'.board => y \in db'.noted]_vars

=============================================================================
