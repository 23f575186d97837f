-------------------------- MODULE ConfigStoreProofs --------------------------
(***************************************************************************)
(* Proofs about ConfigStore, for any benches, boards, seeds and early      *)
(* stores.  Good says that a state of the tables is typed and that its     *)
(* keys hold; the method lemmas say what one method does to the rows of    *)
(* the bench it is about and that it leaves those of other benches alone.  *)
(***************************************************************************)
EXTENDS ConfigStore, TLAPS

Good(d) == d \in Tables /\ Keys(d) /\ Tidy(d)

\* What the tables hold about bench n.
SameRows(d, e, n) ==
  /\ e.id[n] = d.id[n]
  /\ d.id[n] # 0 =>
       LET i == d.id[n] IN
       /\ e.link[i] = d.link[i] /\ e.driver[i] = d.driver[i]
       /\ d.cred[i] \subseteq e.cred[i] /\ e.old[i] = d.old[i]

\* Every bench but n is as it was.
OnlyOf(d, e, n) == \A m \in Benches \ {n} : SameRows(d, e, m)

\* One method after another leaves the others' rows alone too.
LEMMA OnlyOfBoth ==
  ASSUME NEW d, NEW e, NEW f, NEW n, OnlyOf(d, e, n), OnlyOf(e, f, n)
  PROVE  OnlyOf(d, f, n)
<1> SUFFICES ASSUME NEW m \in Benches \ {n} PROVE SameRows(d, f, m)
  BY DEF OnlyOf
<1>1. SameRows(d, e, m) /\ SameRows(e, f, m)
  BY DEF OnlyOf
<1>2. QED
  BY <1>1 DEF SameRows

-----------------------------------------------------------------------------
\* A bench that is there has one of the ids.
LEMMA LiveIds ==
  ASSUME NEW d \in Tables, NEW n \in Benches, d.id[n] # 0
  PROVE  d.id[n] \in BenchIds /\ d.id[n] \in Ids(d)
BY StoreAssumption DEF Tables, BenchIds, Ids, Live

\* A new id is one of the ids, and no bench has it.
LEMMA NewIdIsFree ==
  ASSUME NEW d \in Tables, NextIds(d) # {}
  PROVE  NewId(d) \in BenchIds /\ NewId(d) \notin Ids(d) /\ NewId(d) \in 0 .. MaxId \ {0}
<1>1. NewId(d) \in NextIds(d)
  BY DEF NewId
<1>2. QED
  BY <1>1, StoreAssumption DEF NextIds, BenchIds

\* A row is inserted with an id nobody has, and nothing hangs on it yet.
LEMMA WithRowGood ==
  ASSUME NEW d, Good(d), NEW n \in Benches, HasId(d, n)
  PROVE  LET r == WithRow(d, n) IN
         /\ Good(r) /\ OnlyOf(d, r, n)
         /\ r.id[n] # 0
         /\ d.id[n] # 0 => r = d
         /\ r = [d EXCEPT !.id = r.id]
<1> DEFINE r == WithRow(d, n)
<1>1. CASE d.id[n] # 0
  BY <1>1 DEF WithRow, Good, OnlyOf, SameRows, Tables
<1>2. CASE d.id[n] = 0
  <2> DEFINE k == NewId(d)
  <2>1. k \in BenchIds /\ k \notin Ids(d) /\ k \in 0 .. MaxId /\ k # 0
    BY <1>2, NewIdIsFree DEF HasId, Good
  <2>2. r = [d EXCEPT !.id[n] = k]
    BY <1>2 DEF WithRow
  <2> HIDE DEF k, r
  <2>3. r \in Tables
    BY <2>1, <2>2 DEF Good, Tables
  <2>4. /\ r.id = [d.id EXCEPT ![n] = k] /\ r = [d EXCEPT !.id = r.id]
        /\ r.link = d.link /\ r.driver = d.driver /\ r.cred = d.cred
        /\ r.secret = d.secret /\ r.old = d.old
    BY <2>2 DEF Good, Tables
  <2>5. Live(r) = Live(d) \cup {n} /\ r.id[n] = k /\ \A m \in Benches \ {n} : r.id[m] = d.id[m]
    BY <2>1, <2>4 DEF Live, Good, Tables
  <2>6. Ids(d) \subseteq Ids(r)
    BY <1>2, <2>5 DEF Ids, Live
  <2>7. Keys(r)
    BY <2>1, <2>5 DEF Keys, Good, Ids, Live
  <2>8. Tidy(r)
    BY <2>4, <2>6 DEF Tidy, Good
  <2>9. OnlyOf(d, r, n)
    BY <2>4, <2>5 DEF OnlyOf, SameRows
  <2>10. QED
    BY <1>2, <2>1, <2>3, <2>4, <2>5, <2>7, <2>8, <2>9 DEF Good, r
<1>3. QED
  BY <1>1, <1>2

\* The rows of one bench are replaced: nobody else's are touched.
LEMMA InsertedGood ==
  ASSUME NEW d, Good(d), NEW n \in Benches, d.id[n] # 0,
         NEW s \in [boards : SUBSET Boards, drivers : SUBSET Boards, creds : SUBSET Boards]
  PROVE  LET i == d.id[n]  e == Inserted(Emptied(d, i), i, s) IN
         /\ Good(e) /\ OnlyOf(d, e, n)
         /\ e.id = d.id /\ e.old = d.old /\ e.noted = d.noted
         /\ e.link[i] = s.boards /\ e.driver[i] = s.drivers /\ e.cred[i] = s.creds
<1> DEFINE i == d.id[n]
           e == Inserted(Emptied(d, i), i, s)
<1>1. i \in BenchIds /\ i \in Ids(d) /\ d \in Tables
  BY LiveIds DEF Good
<1> HIDE DEF i
<1> DEFINE p == Emptied(d, i)
<1>2. /\ p \in Tables
      /\ p.id = d.id /\ p.old = d.old /\ p.noted = d.noted /\ p.secret = d.secret
      /\ p.link = [d.link EXCEPT ![i] = {}]
      /\ p.driver = [d.driver EXCEPT ![i] = {}]
      /\ p.cred = [d.cred EXCEPT ![i] = {}]
  BY <1>1 DEF Emptied, Tables
<1>3. e = Inserted(p, i, s)
  OBVIOUS
<1> HIDE DEF e, p
<1>4. /\ e \in Tables
      /\ e.id = d.id /\ e.old = d.old /\ e.noted = d.noted /\ e.secret = d.secret
      /\ e.link = [d.link EXCEPT ![i] = s.boards]
      /\ e.driver = [d.driver EXCEPT ![i] = s.drivers]
      /\ e.cred = [d.cred EXCEPT ![i] = s.creds]
  <2>1. /\ e \in Tables
        /\ e.id = p.id /\ e.old = p.old /\ e.noted = p.noted /\ e.secret = p.secret
        /\ e.link = [p.link EXCEPT ![i] = s.boards]
        /\ e.driver = [p.driver EXCEPT ![i] = s.drivers]
        /\ e.cred = [p.cred EXCEPT ![i] = s.creds]
    BY <1>1, <1>2, <1>3 DEF Inserted, Tables
  <2>2. QED
    BY <1>1, <1>2, <2>1 DEF Tables
<1>5. Ids(e) = Ids(d) /\ Keys(e)
  BY <1>4 DEF Ids, Live, Keys, Good
<1>6. \A j \in BenchIds \ {i} : e.link[j] = d.link[j] /\ e.driver[j] = d.driver[j]
                                 /\ e.cred[j] = d.cred[j]
  BY <1>1, <1>4 DEF Tables
<1>7. Tidy(e)
  BY <1>1, <1>4, <1>5, <1>6 DEF Tidy, Good
<1>8. \A m \in Benches \ {n} : d.id[m] # 0 => d.id[m] \in BenchIds \ {i}
  BY <1>1, LiveIds DEF Good, Keys, Live, i
<1>9. OnlyOf(d, e, n)
  BY <1>4, <1>6, <1>8 DEF OnlyOf, SameRows
<1>10. e.link[i] = s.boards /\ e.driver[i] = s.drivers /\ e.cred[i] = s.creds
  BY <1>1, <1>4 DEF Tables
<1>11. QED
  BY <1>4, <1>5, <1>7, <1>9, <1>10 DEF Good, e, i

\* upsert_bench writes the bench as saved, and no other.
LEMMA UpsertedGood ==
  ASSUME NEW d, Good(d), NEW n \in Benches, HasId(d, n),
         NEW s \in [boards : SUBSET Boards, drivers : SUBSET Boards, creds : SUBSET Boards]
  PROVE  LET e == Upserted(d, n, s)  i == e.id[n] IN
         /\ Good(e) /\ OnlyOf(d, e, n) /\ i # 0
         /\ d.id[n] # 0 => i = d.id[n]
         /\ e.old = d.old /\ e.noted = d.noted
         /\ e.link[i] = s.boards /\ e.driver[i] = s.drivers /\ e.cred[i] = s.creds
<1> DEFINE r == WithRow(d, n)
           e == Upserted(d, n, s)
<1>1. /\ Good(r) /\ OnlyOf(d, r, n) /\ r.id[n] # 0
      /\ r = [d EXCEPT !.id = r.id]
      /\ d.id[n] # 0 => r = d
  BY WithRowGood
<1>2. r.old = d.old /\ r.noted = d.noted
  BY <1>1 DEF Good, Tables
<1>3. e = Inserted(Emptied(r, r.id[n]), r.id[n], s)
  BY DEF Upserted
<1> HIDE DEF r, e
<1>4. /\ Good(e) /\ OnlyOf(r, e, n)
      /\ e.id = r.id /\ e.old = r.old /\ e.noted = r.noted
      /\ e.link[r.id[n]] = s.boards /\ e.driver[r.id[n]] = s.drivers
      /\ e.cred[r.id[n]] = s.creds
  BY <1>1, <1>3, InsertedGood
<1>5. OnlyOf(d, e, n)
  BY <1>1, <1>4, OnlyOfBoth
<1>6. QED
  BY <1>1, <1>2, <1>4, <1>5 DEF e

\* delete_bench takes all that refers to the bench, and no other's.
LEMMA DeletedGood ==
  ASSUME NEW d, Good(d), NEW n \in Benches, d.id[n] # 0
  PROVE  LET i == d.id[n]
             e == [Emptied(d, i) EXCEPT !.id[n] = 0, !.secret[i] = FALSE, !.old[i] = {}] IN
         Good(e) /\ OnlyOf(d, e, n) /\ e.noted = d.noted
<1> DEFINE i == d.id[n]
           e == [Emptied(d, i) EXCEPT !.id[n] = 0, !.secret[i] = FALSE, !.old[i] = {}]
<1>1. i \in BenchIds /\ i \in Ids(d) /\ d \in Tables /\ 0 \in 0 .. MaxId
  BY LiveIds, StoreAssumption DEF Good
<1> HIDE DEF i
<1>2. e = [d EXCEPT !.link = [d.link EXCEPT ![i] = {}],
                    !.driver = [d.driver EXCEPT ![i] = {}],
                    !.cred = [d.cred EXCEPT ![i] = {}],
                    !.id = [d.id EXCEPT ![n] = 0],
                    !.secret = [d.secret EXCEPT ![i] = FALSE],
                    !.old = [d.old EXCEPT ![i] = {}]]
  BY <1>1 DEF Emptied, Tables
<1> HIDE DEF e
<1>3. e \in Tables
  BY <1>1, <1>2 DEF Tables
<1>4. /\ e.id = [d.id EXCEPT ![n] = 0] /\ e.noted = d.noted
      /\ e.secret = [d.secret EXCEPT ![i] = FALSE] /\ e.old = [d.old EXCEPT ![i] = {}]
      /\ e.link = [d.link EXCEPT ![i] = {}]
      /\ e.driver = [d.driver EXCEPT ![i] = {}]
      /\ e.cred = [d.cred EXCEPT ![i] = {}]
  BY <1>1, <1>2 DEF Tables
<1>5. /\ e.link[i] = {} /\ e.driver[i] = {} /\ e.cred[i] = {} /\ e.old[i] = {} /\ ~e.secret[i]
      /\ \A j \in BenchIds \ {i} : /\ e.link[j] = d.link[j] /\ e.driver[j] = d.driver[j]
                                    /\ e.cred[j] = d.cred[j] /\ e.old[j] = d.old[j]
                                    /\ e.secret[j] = d.secret[j]
  BY <1>1, <1>4 DEF Tables
<1>6. e.id[n] = 0 /\ \A m \in Benches \ {n} : e.id[m] = d.id[m]
  BY <1>1, <1>4 DEF Tables
<1>7. Live(e) = Live(d) \ {n} /\ Ids(d) \subseteq Ids(e) \cup {i}
  BY <1>6 DEF Ids, Live, i
<1>8. Keys(e)
  BY <1>6, <1>7 DEF Keys, Good, Live
<1>9. Tidy(e)
  BY <1>5, <1>7 DEF Tidy, Good
<1>10. \A m \in Benches \ {n} : d.id[m] # 0 => d.id[m] \in BenchIds \ {i}
  BY <1>1, LiveIds DEF Good, Keys, Live, i
<1>11. OnlyOf(d, e, n)
  BY <1>5, <1>6, <1>10 DEF OnlyOf, SameRows
<1>12. QED
  BY <1>3, <1>4, <1>8, <1>9, <1>11 DEF Good, e, i

-----------------------------------------------------------------------------
(* The invariant *)

DataInv ==
  /\ Good(db) /\ Good(disk)
  /\ due \in [Benches -> Saves \cup {Old, None}]
  /\ SavedBenchIsKept

\* A bench of an early version has been migrated.
Migrated(n) == due[n] = Old /\ db.old[db.id[n]] # {} => db.link[db.id[n]] # {}

StartInv ==
  /\ todo \subseteq Benches
  /\ pc = "benches" => todo \subseteq Live(db) /\ \A n \in Live(db) \ todo : Migrated(n)
  /\ pc \in {"seed", "seedsecret"} =>
       (\A n \in Live(db) : Migrated(n)) /\ \A n \in todo : Seeds[n] # None

IInv == DataInv /\ StartInv

\* A method leaves the rows and the dues of all benches but those in N alone, and does as
\* the client of those was told.
Touches(N) ==
  /\ Good(db') /\ (disk' = db' \/ disk' = disk)
  /\ due' \in [Benches -> Saves \cup {Old, None}]
  /\ \A m \in Benches \ N : SameRows(db, db', m) /\ due'[m] = due[m]
  /\ \A n \in N : Kept(db', n, due'[n]) /\ Kept(disk', n, due'[n])

LEMMA KeptSame ==
  ASSUME NEW d, NEW e, NEW n, NEW s, Kept(d, n, s), SameRows(d, e, n)
  PROVE  Kept(e, n, s)
BY DEF Kept, SameRows

LEMMA TouchesKeeps ==
  ASSUME DataInv, NEW N \in SUBSET Benches, Touches(N)
  PROVE  DataInv'
<1>1. Good(db') /\ Good(disk') /\ due' \in [Benches -> Saves \cup {Old, None}]
  BY DEF Touches, DataInv
<1>2. ASSUME NEW m \in Benches PROVE Kept(db', m, due'[m]) /\ Kept(disk', m, due'[m])
  <2>1. CASE m \in N
    BY <2>1 DEF Touches
  <2>2. CASE m \notin N
    <3>1. SameRows(db, db', m) /\ due'[m] = due[m] /\ (disk' = db' \/ disk' = disk)
      BY <2>2 DEF Touches
    <3>2. Kept(db, m, due[m]) /\ Kept(disk, m, due[m])
      BY DEF DataInv, SavedBenchIsKept
    <3>3. Kept(db', m, due[m])
      BY <3>1, <3>2, KeptSame
    <3>4. QED
      BY <3>1, <3>2, <3>3
  <2>3. QED
    BY <2>1, <2>2
<1>3. QED
  BY <1>1, <1>2 DEF DataInv, SavedBenchIsKept, Good

LEMMA MigratedSame ==
  ASSUME NEW m \in Live(db)', SameRows(db, db', m), due'[m] = due[m], m \in Live(db) => Migrated(m)
  PROVE  m \in Live(db) /\ Migrated(m)'
BY DEF Live, SameRows, Migrated

-----------------------------------------------------------------------------
(* The methods *)

LEMMA UpsertTouches ==
  ASSUME DataInv, NEW n \in Benches, NEW s \in Saves, upsert_bench(n, s)
  PROVE  Touches({n}) /\ due'[n] = s
<1> DEFINE e == Upserted(db, n, s)
<1>1. HasId(db, n) /\ db' = e /\ disk' = e /\ due' = [due EXCEPT ![n] = s]
  BY DEF upsert_bench, Commits, Owes
<1>2. s \in [boards : SUBSET Boards, drivers : SUBSET Boards, creds : SUBSET Boards]
  BY DEF Saves
<1>3. /\ Good(e) /\ OnlyOf(db, e, n) /\ e.id[n] # 0
      /\ e.link[e.id[n]] = s.boards /\ e.driver[e.id[n]] = s.drivers
      /\ e.cred[e.id[n]] = s.creds
  BY <1>1, <1>2, UpsertedGood DEF DataInv
<1> HIDE DEF e
<1>4. Kept(e, n, s)
  BY <1>3 DEF Kept
<1>5. /\ due' \in [Benches -> Saves \cup {Old, None}] /\ due'[n] = s
      /\ \A m \in Benches \ {n} : due'[m] = due[m]
  BY <1>1 DEF DataInv
<1>6. QED
  BY <1>1, <1>3, <1>4, <1>5 DEF Touches, OnlyOf

LEMMA FailedUpsertTouches ==
  ASSUME DataInv, NEW n \in Benches, NEW s \in Saves, upsert_bench_fails(n, s)
  PROVE  Touches({n}) /\ due'[n] = None
<1> DEFINE e == Upserted(db, n, s)
<1>1. HasId(db, n) /\ db' = e /\ disk' = disk /\ due' = [due EXCEPT ![n] = None]
  BY DEF upsert_bench_fails, Leaves, Owes
<1>2. s \in [boards : SUBSET Boards, drivers : SUBSET Boards, creds : SUBSET Boards]
  BY DEF Saves
<1>3. Good(e) /\ OnlyOf(db, e, n)
  BY <1>1, <1>2, UpsertedGood DEF DataInv
<1> HIDE DEF e
<1>4. /\ due' \in [Benches -> Saves \cup {Old, None}] /\ due'[n] = None
      /\ \A m \in Benches \ {n} : due'[m] = due[m]
  BY <1>1 DEF DataInv
<1>5. Kept(e, n, None) /\ Kept(disk, n, None)
  BY StoreAssumption DEF Kept
<1>6. QED
  BY <1>1, <1>3, <1>4, <1>5 DEF Touches, OnlyOf

LEMMA DeleteTouches ==
  ASSUME DataInv, NEW n \in Benches, delete_bench(n)
  PROVE  Touches({n})
<1>1. due' = [due EXCEPT ![n] = None]
  BY DEF delete_bench, Owes
<1>2. /\ due' \in [Benches -> Saves \cup {Old, None}] /\ due'[n] = None
      /\ \A m \in Benches \ {n} : due'[m] = due[m]
  BY <1>1 DEF DataInv
<1>3. Good(db') /\ OnlyOf(db, db', n) /\ disk' = db'
  <2>1. CASE db.id[n] = 0
    BY <2>1 DEF delete_bench, Commits, DataInv, OnlyOf, SameRows
  <2>2. CASE db.id[n] # 0
    BY <2>2, DeletedGood DEF delete_bench, Commits, DataInv
  <2>3. QED
    BY <2>1, <2>2
<1>4. Kept(db', n, None)
  BY StoreAssumption DEF Kept
<1>5. QED
  BY <1>2, <1>3, <1>4 DEF Touches, OnlyOf

\* A change of the secrets of a bench that is there.
LEMMA SecretGood ==
  ASSUME NEW d, Good(d), NEW n \in Benches, d.id[n] # 0, NEW some \in BOOLEAN
  PROVE  LET e == [d EXCEPT !.secret[d.id[n]] = some] IN
         /\ Good(e) /\ e.id = d.id /\ e.old = d.old /\ e.noted = d.noted
         /\ \A m \in Benches : SameRows(d, e, m)
<1> DEFINE i == d.id[n]
           e == [d EXCEPT !.secret[d.id[n]] = some]
<1>1. i \in BenchIds /\ i \in Ids(d) /\ d \in Tables
  BY LiveIds DEF Good
<1> HIDE DEF i
<1>2. e = [d EXCEPT !.secret[i] = some]
  BY DEF i
<1> HIDE DEF e
<1>3. /\ e \in Tables /\ e.id = d.id /\ e.old = d.old /\ e.noted = d.noted
      /\ e.link = d.link /\ e.driver = d.driver /\ e.cred = d.cred
      /\ e.secret = [d.secret EXCEPT ![i] = some]
  BY <1>1, <1>2 DEF Tables
<1>4. \A j \in BenchIds \ {i} : e.secret[j] = d.secret[j]
  BY <1>1, <1>3 DEF Tables
<1>5. Keys(e) /\ Tidy(e)
  BY <1>1, <1>3, <1>4 DEF Keys, Tidy, Live, Ids, Good
<1>6. \A m \in Benches : SameRows(d, e, m)
  BY <1>3 DEF SameRows
<1>7. QED
  BY <1>3, <1>5, <1>6 DEF Good, e

LEMMA SecretsTouch ==
  ASSUME DataInv, NEW n \in Benches, NEW some \in BOOLEAN, set_secrets(n, some)
  PROVE  /\ Touches({n}) /\ due' = due
         /\ db.id[n] # 0 => SameRows(db, db', n)
<1> DEFINE r == WithRow(db, n)
           e == [r EXCEPT !.secret[r.id[n]] = some]
<1>1. HasId(db, n) /\ db' = e /\ disk' = e /\ due' = due
  BY DEF set_secrets, Commits
<1>2. /\ Good(r) /\ OnlyOf(db, r, n) /\ r.id[n] # 0
      /\ db.id[n] # 0 => r = db
  BY <1>1, WithRowGood DEF DataInv
<1> HIDE DEF r
<1>3. Good(e) /\ \A m \in Benches : SameRows(r, e, m)
  BY <1>2, SecretGood
<1> HIDE DEF e
<1>4. OnlyOf(db, e, n)
  BY <1>2, <1>3, OnlyOfBoth DEF OnlyOf
<1>5. Kept(db, n, due[n]) /\ due \in [Benches -> Saves \cup {Old, None}]
  BY DEF DataInv, SavedBenchIsKept
<1>6. Kept(e, n, due[n])
  <2>1. CASE db.id[n] # 0
    BY <1>2, <1>3, <1>5, <2>1, KeptSame
  <2>2. CASE db.id[n] = 0
    BY <1>5, <2>2 DEF Kept
  <2>3. QED
    BY <2>1, <2>2
<1>7. QED
  BY <1>1, <1>2, <1>3, <1>4, <1>5, <1>6 DEF Touches, OnlyOf

LEMMA DeleteSecretTouches ==
  ASSUME DataInv, NEW n \in Benches, delete_secret(n)
  PROVE  Touches({})
<1> DEFINE e == [db EXCEPT !.secret[db.id[n]] = FALSE]
<1>1. db.id[n] # 0 /\ db' = e /\ disk' = e /\ due' = due
  BY DEF delete_secret, Commits
<1>2. Good(e) /\ \A m \in Benches : SameRows(db, e, m)
  BY <1>1, SecretGood DEF DataInv
<1> HIDE DEF e
<1>3. QED
  BY <1>1, <1>2 DEF Touches, DataInv

\* A change of the inventory alone, the comments and old credentials in it included.
LEMMA InventoryTouches ==
  ASSUME DataInv, NEW e, e \in Tables,
         e.id = db.id, e.link = db.link, e.driver = db.driver, e.cred = db.cred,
         e.secret = db.secret, e.old = db.old,
         Commits(e), due' = due
  PROVE  Touches({})
<1>1. Keys(e) /\ Tidy(e)
  BY DEF Keys, Tidy, Live, Ids, DataInv, Good
<1>2. \A m \in Benches : SameRows(db, e, m)
  BY DEF SameRows
<1>3. QED
  BY <1>1, <1>2 DEF Touches, DataInv, Good, Commits

\* Every request keeps the data in order.
LEMMA RequestTouches ==
  ASSUME DataInv, Request
  PROVE  \E N \in SUBSET Benches : Touches(N)
<1>1. ASSUME NEW n \in Benches, NEW s \in Saves, upsert_bench(n, s)
      PROVE  Touches({n})
  BY <1>1, UpsertTouches
<1>2. ASSUME NEW n \in Benches, NEW s \in Saves, upsert_bench_fails(n, s)
      PROVE  Touches({n})
  BY <1>2, FailedUpsertTouches
<1>3. ASSUME NEW n \in Benches, delete_bench(n)
      PROVE  Touches({n})
  BY <1>3, DeleteTouches
<1>4. ASSUME NEW n \in Benches, delete_secret(n)
      PROVE  Touches({})
  BY <1>4, DeleteSecretTouches
<1>5. ASSUME NEW n \in Benches, NEW some \in BOOLEAN, set_secrets(n, some)
      PROVE  Touches({n})
  BY <1>5, SecretsTouch
<1>6. ASSUME NEW y \in Boards, NEW comments \in BOOLEAN, upsert_inv_board(y, comments)
      PROVE  Touches({})
  <2> DEFINE noted == IF comments THEN db.noted \cup {y} ELSE db.noted \ {y}
             e == [db EXCEPT !.board = @ \cup {y}, !.noted = noted]
  <2>1. Commits(e) /\ due' = due
    BY <1>6 DEF upsert_inv_board
  <2>2. noted \subseteq Boards
    BY DEF DataInv, Good, Tables
  <2> HIDE DEF noted
  <2>3. /\ e \in Tables /\ e.id = db.id /\ e.link = db.link /\ e.driver = db.driver
        /\ e.cred = db.cred /\ e.secret = db.secret /\ e.old = db.old
    BY <1>6, <2>2 DEF DataInv, Good, Tables
  <2> HIDE DEF e
  <2>4. QED
    BY <2>1, <2>3, InventoryTouches
<1>7. ASSUME NEW y \in Boards, delete_inv_board(y)
      PROVE  Touches({})
  <2> DEFINE e == [db EXCEPT !.board = @ \ {y}, !.noted = @ \ {y}, !.oldcred = @ \ {y}]
  <2>1. Commits(e) /\ due' = due
    BY <1>7 DEF delete_inv_board
  <2>2. /\ e \in Tables /\ e.id = db.id /\ e.link = db.link /\ e.driver = db.driver
        /\ e.cred = db.cred /\ e.secret = db.secret /\ e.old = db.old
    BY <1>7 DEF DataInv, Good, Tables
  <2> HIDE DEF e
  <2>3. QED
    BY <2>1, <2>2, InventoryTouches
<1>8. ASSUME OtherWrite
      PROVE  Touches({})
  BY <1>8 DEF OtherWrite, Commits, Touches, DataInv, SameRows
<1>9. ASSUME NEW d \in Stores, restore(d)
      PROVE  Touches(Benches)
  <2>1. Good(d) /\ db' = d /\ disk' = d /\ due' = [n \in Benches |-> Old]
    BY <1>9, StoreAssumption DEF restore, Commits, Good
  <2>2. QED
    BY <2>1, StoreAssumption DEF Touches, Kept
<1> DEFINE Done == \E N \in SUBSET Benches : Touches(N)
<1>10. /\ Touches({}) => Done
       /\ Touches(Benches) => Done
       /\ \A n \in Benches : Touches({n}) => Done
  OBVIOUS
<1> HIDE DEF Done
<1>11. CASE \E n \in Benches, s \in Saves : upsert_bench(n, s) \/ upsert_bench_fails(n, s)
  BY <1>1, <1>2, <1>10, <1>11
<1>12. CASE \E n \in Benches : delete_bench(n) \/ delete_secret(n)
  BY <1>3, <1>4, <1>10, <1>12
<1>13. CASE \E n \in Benches, some \in BOOLEAN : set_secrets(n, some)
  BY <1>5, <1>10, <1>13
<1>14. CASE \/ \E y \in Boards, comments \in BOOLEAN : upsert_inv_board(y, comments)
            \/ \E y \in Boards : delete_inv_board(y)
  BY <1>6, <1>7, <1>10, <1>14
<1>15. CASE \E d \in Stores : restore(d)
  BY <1>9, <1>10, <1>15
<1>16. QED
  BY <1>8, <1>10, <1>11, <1>12, <1>13, <1>14, <1>15 DEF Request, BenchRequest, InventoryRequest, Done

-----------------------------------------------------------------------------
(* The start *)

\* One bench of an early version is moved, unless a start before this one has moved it.
LEMMA MigrateKeeps ==
  ASSUME IInv, NEW n \in Benches, MigrateBench(n)
  PROVE  IInv'
<1> DEFINE i == db.id[n]
           s == _get_bench_legacy(i)
           e == Upserted(db, n, s)
<1>1. /\ pc = "benches" /\ n \in todo /\ pc' = "benches" /\ todo' = todo \ {n} /\ due' = due
      /\ n \in Live(db) /\ i # 0
  BY DEF MigrateBench, StepTo, IInv, StartInv, Live
<1>2. Touches({n}) /\ db'.id[n] = i /\ Migrated(n)'
  <2>1. CASE NotLinked(n) /\ db.old[i] # {}
    <3>1. db' = e /\ disk' = e
      BY <2>1 DEF MigrateBench, Commits
    <3>2. /\ s \in [boards : SUBSET Boards, drivers : SUBSET Boards, creds : SUBSET Boards]
          /\ s.boards = db.old[i]
      BY <1>1, LiveIds DEF _get_bench_legacy, IInv, DataInv, Good, Tables
    <3> HIDE DEF s
    <3>3. HasId(db, n)
      BY <1>1 DEF HasId
    <3>4. /\ Good(e) /\ OnlyOf(db, e, n) /\ e.id[n] = i
          /\ e.old = db.old /\ e.link[i] = db.old[i]
      BY <1>1, <3>2, <3>3, UpsertedGood DEF IInv, DataInv
    <3> HIDE DEF e
    <3>5. Kept(db, n, due[n]) /\ due \in [Benches -> Saves \cup {Old, None}]
      BY DEF IInv, DataInv, SavedBenchIsKept
    <3>6. Kept(e, n, due[n])
      BY <2>1, <3>5 DEF Kept, NotLinked
    <3>7. QED
      BY <1>1, <2>1, <3>1, <3>4, <3>5, <3>6 DEF Touches, OnlyOf, Migrated
  <2>2. CASE ~(NotLinked(n) /\ db.old[i] # {})
    <3>1. db' = db /\ disk' = disk
      BY <2>2 DEF MigrateBench
    <3>2. Touches({n})
      BY <1>1, <3>1 DEF Touches, IInv, DataInv, SavedBenchIsKept, SameRows
    <3>3. QED
      BY <1>1, <2>2, <3>1, <3>2 DEF Migrated, NotLinked
  <2>3. QED
    BY <2>1, <2>2
<1>3. DataInv'
  BY <1>2, TouchesKeeps DEF IInv
<1>4. todo' \subseteq Live(db)'
  <2>1. \A m \in todo' : db'.id[m] = db.id[m] /\ m \in Live(db)
    BY <1>1, <1>2 DEF Touches, SameRows, IInv, StartInv
  <2>2. QED
    BY <1>1, <2>1 DEF Live
<1>5. ASSUME NEW m \in Live(db)', m \notin todo'
      PROVE  Migrated(m)'
  <2>1. CASE m = n
    BY <1>2, <2>1
  <2>2. CASE m # n
    <3>1. SameRows(db, db', m) /\ due'[m] = due[m] /\ m \notin todo
      BY <1>1, <1>2, <1>5, <2>2 DEF Touches, Live
    <3>2. m \in Live(db) => Migrated(m)
      BY <1>1, <3>1 DEF IInv, StartInv
    <3>3. QED
      BY <3>1, <3>2, MigratedSame
  <2>3. QED
    BY <2>1, <2>2
<1>6. QED
  BY <1>1, <1>3, <1>4, <1>5 DEF IInv, StartInv

LEMMA CredentialsKeep ==
  ASSUME IInv, migrate_drivers_to_inventory
  PROVE  IInv'
<1> DEFINE e == [db EXCEPT !.cred = [i \in BenchIds |-> @[i] \cup (db.oldcred \cap db.link[i])]]
<1>1. /\ pc = "benches" /\ todo = {} /\ pc' = "seed" /\ due' = due
      /\ todo' = IF list_benches(db) = {} THEN {n \in Benches : Seeds[n] # None} ELSE {}
      /\ db' = e /\ disk' = e
  BY DEF migrate_drivers_to_inventory, StepTo, Commits
<1>2. db \in Tables
  BY DEF IInv, DataInv, Good
<1>3. /\ e \in Tables /\ e.id = db.id /\ e.link = db.link /\ e.driver = db.driver
      /\ e.secret = db.secret /\ e.old = db.old
      /\ e.cred = [i \in BenchIds |-> db.cred[i] \cup (db.oldcred \cap db.link[i])]
  BY <1>2 DEF Tables
<1> HIDE DEF e
<1>4. \A m \in Benches : SameRows(db, e, m)
  BY <1>2, <1>3, LiveIds DEF SameRows
<1>5. Keys(e) /\ Tidy(e)
  BY <1>3 DEF Keys, Tidy, Live, Ids, IInv, DataInv, Good
<1>6. Touches({})
  BY <1>1, <1>3, <1>4, <1>5 DEF Touches, IInv, DataInv, Good
<1>7. DataInv'
  BY <1>6, TouchesKeeps DEF IInv
<1>8. ASSUME NEW m \in Live(db)'
      PROVE  Migrated(m)'
  BY <1>1, <1>4, <1>8, MigratedSame DEF IInv, StartInv, Live
<1>9. QED
  BY <1>1, <1>7, <1>8 DEF IInv, StartInv

\* What a step of the seeding does to the benches it is not about.
LEMMA SeedKeeps ==
  ASSUME IInv, NEW n \in todo, pc \in {"seed", "seedsecret"}, Touches({n}),
         Migrated(n)' \/ n \notin Live(db)',
         pc' \in {"seed", "seedsecret"}, todo' \subseteq todo
  PROVE  IInv'
<1>1. n \in Benches
  BY DEF IInv, StartInv
<1>2. DataInv'
  BY <1>1, TouchesKeeps DEF IInv
<1>3. ASSUME NEW m \in Live(db)', m # n
      PROVE  Migrated(m)'
  <2>1. SameRows(db, db', m) /\ due'[m] = due[m]
    BY <1>3 DEF Touches, Live
  <2>2. QED
    BY <2>1, MigratedSame DEF IInv, StartInv
<1>4. QED
  BY <1>2, <1>3 DEF IInv, StartInv

LEMMA StepKeeps ==
  ASSUME IInv, [Next]_vars
  PROVE  IInv'
<1>1. CASE Request
  <2>1. DataInv'
    BY <1>1, RequestTouches, TouchesKeeps DEF IInv
  <2>2. pc = "up" /\ pc' = pc /\ todo' = todo
    BY <1>1 DEF Request
  <2>3. QED
    BY <2>1, <2>2 DEF IInv, StartInv
<1>2. CASE Crash
  <2>1. db' = disk /\ disk' = disk /\ due' = due /\ pc' = "down" /\ todo' = {}
    BY <1>2 DEF Crash, StepTo
  <2>2. QED
    BY <2>1 DEF IInv, DataInv, SavedBenchIsKept, StartInv
<1>3. CASE Start
  <2>1. db' = db /\ disk' = disk /\ due' = due /\ pc' = "benches" /\ todo' = Live(db)
    BY <1>3 DEF Start, StepTo
  <2>2. Live(db)' = Live(db) /\ Live(db) \subseteq Benches
    BY <2>1 DEF Live
  <2>3. QED
    BY <2>1, <2>2 DEF IInv, DataInv, SavedBenchIsKept, StartInv
<1>4. ASSUME NEW n \in Benches, MigrateBench(n)
      PROVE  IInv'
  BY <1>4, MigrateKeeps
<1>5. CASE migrate_drivers_to_inventory
  BY <1>5, CredentialsKeep
<1>6. ASSUME NEW n \in Benches, SeedBench(n)
      PROVE  IInv'
  <2>1. pc = "seed" /\ n \in todo /\ Seeds[n] \in Saves /\ Seeds[n] # Old /\ None # Old
    BY <1>6, StoreAssumption DEF SeedBench, IInv, StartInv
  <2>2. CASE upsert_bench(n, Seeds[n]) /\ pc' = "seedsecret" /\ UNCHANGED todo
    <3>1. Touches({n}) /\ due'[n] = Seeds[n]
      BY <2>1, <2>2, UpsertTouches DEF IInv
    <3>2. Migrated(n)'
      BY <2>1, <3>1 DEF Migrated
    <3>3. QED
      BY <2>1, <2>2, <3>1, <3>2, SeedKeeps
  <2>3. CASE upsert_bench_fails(n, Seeds[n]) /\ StepTo("seed", todo \ {n})
    <3>1. Touches({n}) /\ due'[n] = None
      BY <2>1, <2>3, FailedUpsertTouches DEF IInv
    <3>2. Migrated(n)'
      BY <2>1, <3>1 DEF Migrated
    <3>3. QED
      BY <2>1, <2>3, <3>1, <3>2, SeedKeeps DEF StepTo
  <2>4. QED
    BY <1>6, <2>2, <2>3 DEF SeedBench
<1>7. ASSUME NEW n \in Benches, SeedSecrets(n)
      PROVE  IInv'
  <2>1. /\ pc = "seedsecret" /\ n \in todo /\ db.id[n] # 0 /\ set_secrets(n, TRUE)
        /\ pc' = "seed" /\ todo' = todo \ {n}
    BY <1>7 DEF SeedSecrets, StepTo
  <2>2. Touches({n}) /\ due' = due /\ SameRows(db, db', n)
    BY <2>1, SecretsTouch DEF IInv
  <2>3. n \in Live(db) /\ Migrated(n)
    BY <2>1, <1>7 DEF IInv, StartInv, Live
  <2>4. Migrated(n)' \/ n \notin Live(db)'
    BY <2>2, <2>3, MigratedSame
  <2>5. QED
    BY <2>1, <2>2, <2>4, SeedKeeps
<1>8. CASE _seed_inventory
  <2>1. pc' = "up" /\ todo' = {} /\ due' = due
    BY <1>8 DEF _seed_inventory, StepTo
  <2>2. Touches({})
    <3>1. CASE db.board # {}
      BY <1>8, <2>1, <3>1 DEF _seed_inventory, Touches, IInv, DataInv, SameRows
    <3>2. CASE db.board = {}
      <4> DEFINE b == UNION {get_bench(n) : n \in list_benches(db)}
                 e == [db EXCEPT !.board = b]
      <4>1. Commits(e)
        BY <1>8, <3>2 DEF _seed_inventory
      <4>2. db \in Tables /\ b \subseteq Boards
        BY DEF get_bench, IInv, DataInv, Good, Tables
      <4> HIDE DEF b
      <4>3. /\ e \in Tables /\ e.id = db.id /\ e.link = db.link /\ e.driver = db.driver
            /\ e.cred = db.cred /\ e.secret = db.secret /\ e.old = db.old
        BY <4>2 DEF Tables
      <4> HIDE DEF e
      <4>4. QED
        BY <2>1, <4>1, <4>3, InventoryTouches DEF IInv
    <3>3. QED
      BY <3>1, <3>2
  <2>3. DataInv'
    BY <2>2, TouchesKeeps DEF IInv
  <2>4. QED
    BY <2>1, <2>3 DEF IInv, StartInv
<1>9. CASE UNCHANGED vars
  BY <1>9 DEF vars, IInv, DataInv, SavedBenchIsKept, StartInv, Migrated, Live
<1>10. QED
  BY <1>1, <1>2, <1>3, <1>4, <1>5, <1>6, <1>7, <1>8, <1>9 DEF Next

LEMMA StoreInvariant == Spec => []IInv
<1>1. Init => IInv
  <2> SUFFICES ASSUME Init PROVE IInv
    OBVIOUS
  <2>1. Good(db) /\ disk = db /\ todo = {} /\ pc = "down" /\ due = [n \in Benches |-> Old]
    BY StoreAssumption DEF Init, Good
  <2>2. \A n \in Benches : Kept(db, n, due[n])
    BY <2>1, StoreAssumption DEF Kept
  <2>3. QED
    BY <2>1, <2>2 DEF IInv, DataInv, SavedBenchIsKept, StartInv
<1>2. IInv /\ [Next]_vars => IInv'
  BY StepKeeps
<1>3. QED
  BY <1>1, <1>2, PTL DEF Spec

-----------------------------------------------------------------------------
\* No row outlives its bench, committed or not: the next bench that gets the id starts
\* empty.  This needs the cascade of every delete and the foreign keys of what is restored.
THEOREM NothingIsOrphaned == Spec => []NoOrphanRows
<1>1. IInv => NoOrphanRows
  BY DEF IInv, DataInv, Good, NoOrphanRows
<1>2. QED
  BY <1>1, StoreInvariant, PTL

\* What upsert_bench has answered stays, on disk and for the server's connection, through
\* failed saves of others, crashes anywhere, starts, migrations and seeding; for any number
\* of benches that share any boards.
THEOREM SavesLast == Spec => []SavedBenchIsKept
<1>1. IInv => SavedBenchIsKept
  BY DEF IInv, DataInv
<1>2. QED
  BY <1>1, StoreInvariant, PTL

\* A start that gets past its migrations leaves no bench of an early version without its
\* boards, wherever earlier starts were cut off.
THEOREM MigrationsComplete == Spec => []MigrationCompletes
<1>1. IInv => MigrationCompletes
  BY DEF IInv, StartInv, Migrated, MigrationCompletes
<1>2. QED
  BY <1>1, StoreInvariant, PTL

-----------------------------------------------------------------------------
(* Comments *)

\* Nothing uncommitted is about comments: a failed save inserts boards, it does not write
\* what is noted of those that are there.
NotedInv == db.noted = disk.noted

\* The comments of every board that stays are what they were.
CommentsStay == \A y \in Boards : y \in db.noted \cap db'.board => y \in db'.noted

\* A save writes the rows of its bench and adds to the inventory.
LEMMA SaveKeepsComments ==
  ASSUME DataInv, NEW n \in Benches, HasId(db, n),
         NEW s \in [boards : SUBSET Boards, drivers : SUBSET Boards, creds : SUBSET Boards]
  PROVE  Upserted(db, n, s).noted = db.noted
BY UpsertedGood DEF DataInv

\* set_secrets may insert a row for the bench; it writes nothing of the inventory.
LEMMA SecretsKeepComments ==
  ASSUME DataInv, NEW n \in Benches, NEW some \in BOOLEAN, set_secrets(n, some)
  PROVE  db'.noted = db.noted /\ disk' = db'
<1> DEFINE r == WithRow(db, n)
<1>1. HasId(db, n) /\ db' = [r EXCEPT !.secret[r.id[n]] = some] /\ disk' = db'
  BY DEF set_secrets, Commits
<1>2. /\ Good(r) /\ r.id[n] # 0
      /\ r = [db EXCEPT !.id = r.id]
  BY <1>1, WithRowGood DEF DataInv
<1>3. r.noted = db.noted
  BY <1>2 DEF DataInv, Good, Tables
<1> HIDE DEF r
<1>4. [r EXCEPT !.secret[r.id[n]] = some].noted = r.noted
  BY <1>2, SecretGood
<1>5. QED
  BY <1>1, <1>3, <1>4

LEMMA BenchKeepsComments ==
  ASSUME DataInv, NotedInv, BenchRequest
  PROVE  NotedInv' /\ CommentsStay
<1>1. ASSUME NEW n \in Benches, NEW s \in Saves, upsert_bench(n, s) \/ upsert_bench_fails(n, s)
      PROVE  NotedInv' /\ CommentsStay
  <2>1. /\ HasId(db, n) /\ db' = Upserted(db, n, s) /\ (disk' = db' \/ disk' = disk)
    BY <1>1 DEF upsert_bench, upsert_bench_fails, Commits, Leaves
  <2>2. s \in [boards : SUBSET Boards, drivers : SUBSET Boards, creds : SUBSET Boards]
    BY DEF Saves
  <2>3. Upserted(db, n, s).noted = db.noted
    BY <2>1, <2>2, SaveKeepsComments
  <2>4. QED
    BY <2>1, <2>3 DEF NotedInv, CommentsStay
<1>2. ASSUME NEW n \in Benches, delete_bench(n)
      PROVE  NotedInv' /\ CommentsStay
  <2>1. db'.noted = db.noted /\ disk' = db'
    <3>1. CASE db.id[n] = 0
      BY <1>2, <3>1 DEF delete_bench, Commits
    <3>2. CASE db.id[n] # 0
      BY <1>2, <3>2, DeletedGood DEF delete_bench, Commits, DataInv
    <3>3. QED
      BY <3>1, <3>2
  <2>2. QED
    BY <2>1 DEF NotedInv, CommentsStay
<1>3. ASSUME NEW n \in Benches, delete_secret(n)
      PROVE  NotedInv' /\ CommentsStay
  BY <1>3, SecretGood DEF delete_secret, Commits, DataInv, NotedInv, CommentsStay
<1>4. ASSUME NEW n \in Benches, NEW some \in BOOLEAN, set_secrets(n, some)
      PROVE  NotedInv' /\ CommentsStay
  BY <1>4, SecretsKeepComments DEF NotedInv, CommentsStay
<1>5. CASE \E n \in Benches, s \in Saves : upsert_bench(n, s) \/ upsert_bench_fails(n, s)
  BY <1>1, <1>5
<1>6. CASE \E n \in Benches : delete_bench(n) \/ delete_secret(n)
  BY <1>2, <1>3, <1>6
<1>7. CASE \E n \in Benches, some \in BOOLEAN : set_secrets(n, some)
  BY <1>4, <1>7
<1>8. QED
  BY <1>5, <1>6, <1>7 DEF BenchRequest

\* What the inventory's own requests do with comments is committed at once.
LEMMA RequestKeepsComments ==
  ASSUME DataInv, NotedInv, Request
  PROVE  NotedInv' /\ (BenchRequest => CommentsStay)
<1>1. CASE BenchRequest
  BY <1>1, BenchKeepsComments
<1>2. CASE InventoryRequest /\ ~BenchRequest
  BY <1>2 DEF InventoryRequest, upsert_inv_board, delete_inv_board, OtherWrite, Commits, NotedInv
<1>3. CASE (\E d \in Stores : restore(d)) /\ ~BenchRequest
  BY <1>3 DEF restore, Commits, NotedInv
<1>4. QED
  BY <1>1, <1>2, <1>3 DEF Request

LEMMA CommentsStep ==
  ASSUME IInv, NotedInv, [Next]_vars
  PROVE  NotedInv' /\ (BenchRequest \/ pc # "up" \/ pc' # "up" => CommentsStay)
<1>1. CASE Request
  <2>1. pc = "up" /\ pc' = "up"
    BY <1>1 DEF Request
  <2>2. QED
    BY <1>1, <2>1, RequestKeepsComments DEF IInv
<1>2. CASE Crash
  BY <1>2 DEF Crash, NotedInv, CommentsStay
<1>3. CASE Start
  BY <1>3 DEF Start, NotedInv, CommentsStay
<1>4. ASSUME NEW n \in Benches, MigrateBench(n)
      PROVE  NotedInv' /\ CommentsStay
  <2> DEFINE i == db.id[n]
             s == _get_bench_legacy(i)
  <2>1. CASE NotLinked(n) /\ db.old[i] # {}
    <3>1. db' = Upserted(db, n, s) /\ disk' = db'
      BY <1>4, <2>1 DEF MigrateBench, Commits
    <3>2. n \in Live(db) /\ i # 0
      BY <1>4 DEF MigrateBench, IInv, StartInv, Live
    <3>3. s \in [boards : SUBSET Boards, drivers : SUBSET Boards, creds : SUBSET Boards]
      BY <3>2, LiveIds DEF _get_bench_legacy, IInv, DataInv, Good, Tables
    <3>4. HasId(db, n)
      BY <3>2 DEF HasId
    <3> HIDE DEF s
    <3>5. Upserted(db, n, s).noted = db.noted
      BY <3>3, <3>4, SaveKeepsComments DEF IInv
    <3>6. QED
      BY <3>1, <3>5 DEF NotedInv, CommentsStay
  <2>2. CASE ~(NotLinked(n) /\ db.old[i] # {})
    BY <1>4, <2>2 DEF MigrateBench, NotedInv, CommentsStay
  <2>3. QED
    BY <2>1, <2>2
<1>5. CASE migrate_drivers_to_inventory
  <2>1. db'.noted = db.noted /\ disk' = db'
    BY <1>5 DEF migrate_drivers_to_inventory, Commits, IInv, DataInv, Good, Tables
  <2>2. QED
    BY <2>1 DEF NotedInv, CommentsStay
<1>6. ASSUME NEW n \in Benches, SeedBench(n)
      PROVE  NotedInv' /\ CommentsStay
  <2>1. Seeds[n] \in Saves
    BY <1>6, StoreAssumption DEF SeedBench, IInv, StartInv
  <2>2. HasId(db, n) /\ db' = Upserted(db, n, Seeds[n]) /\ (disk' = db' \/ disk' = disk)
    BY <1>6 DEF SeedBench, upsert_bench, upsert_bench_fails, Commits, Leaves
  <2>3. Upserted(db, n, Seeds[n]).noted = db.noted
    BY <2>1, <2>2, SaveKeepsComments DEF IInv, Saves
  <2>4. QED
    BY <2>2, <2>3 DEF NotedInv, CommentsStay
<1>7. ASSUME NEW n \in Benches, SeedSecrets(n)
      PROVE  NotedInv' /\ CommentsStay
  BY <1>7, SecretsKeepComments DEF SeedSecrets, IInv, NotedInv, CommentsStay
<1>8. CASE _seed_inventory
  <2>1. CASE db.board # {}
    BY <1>8, <2>1 DEF _seed_inventory, NotedInv, CommentsStay
  <2>2. CASE db.board = {}
    <3>1. db'.noted = db.noted /\ disk' = db'
      BY <1>8, <2>2 DEF _seed_inventory, Commits, IInv, DataInv, Good, Tables
    <3>2. QED
      BY <3>1 DEF NotedInv, CommentsStay
  <2>3. QED
    BY <2>1, <2>2
<1>9. CASE UNCHANGED vars
  BY <1>9 DEF vars, NotedInv, CommentsStay
<1>10. QED
  BY <1>1, <1>2, <1>3, <1>4, <1>5, <1>6, <1>7, <1>8, <1>9 DEF Next

\* The comments of the inventory are its editors': no save of a bench, whether it succeeds or
\* fails and is made permanent by somebody else, no crash and no start wipes them.
THEOREM CommentsAreKept == Spec => MetadataKept
<1>1. Init => NotedInv
  BY DEF Init, NotedInv
<1>2. IInv /\ NotedInv /\ [Next]_vars => NotedInv'
  BY CommentsStep
<1>3. IInv /\ NotedInv /\ [Next]_vars
        => [BenchRequest \/ pc # "up" \/ pc' # "up" =>
              \A y \in Boards : y \in db.noted \cap db'.board => y \in db'.noted]_vars
  BY CommentsStep DEF CommentsStay
<1>4. QED
  BY <1>1, <1>2, <1>3, StoreInvariant, PTL DEF Spec, MetadataKept

-----------------------------------------------------------------------------
\* The tables are well typed, committed or not, and a start knows where it is.
THEOREM StoreIsTyped == Spec => []TypeOK
<1> DEFINE Started == pc \in {"down", "benches", "seed", "seedsecret", "up"}
<1>1. Init => Started
  BY DEF Init
<1>2. Started /\ [Next]_vars => Started'
  BY DEF Next, Request, Crash, Start, MigrateBench, SeedBench, SeedSecrets,
         migrate_drivers_to_inventory, _seed_inventory, StepTo, vars
<1>3. IInv /\ Started => TypeOK
  BY DEF IInv, DataInv, StartInv, Good, TypeOK
<1> HIDE DEF Started
<1>4. QED
  BY <1>1, <1>2, <1>3, StoreInvariant, PTL DEF Spec
=============================================================================
