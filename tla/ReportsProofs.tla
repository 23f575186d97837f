---------------------------- MODULE ReportsProofs ----------------------------
(***************************************************************************)
(* Proofs about Reports, for any users, logins, handlers, outcomes, stores *)
(* of other servers and ids of runs.  AdminInv is about the users and the  *)
(* requests to change them, PublishedInv about rows, runs and logins,      *)
(* HistoryInv about lines and files and rests on it.                       *)
(***************************************************************************)
EXTENDS Reports, TLAPS, FiniteSetTheorems, SequenceTheorems

Roles == [Users -> {"none", "user", "admin"}]

-----------------------------------------------------------------------------
(* Admins *)

\* A request about to write what it has decided on a look that is still good leaves an admin.
Sound(h) ==
  req[h] # None /\ req[h].pc = "write" /\ ~req[h].stale /\ req[h].to # "admin" =>
    \E a \in Admins : a # req[h].name

AdminTypes ==
  /\ role \in Roles
  /\ req \in [Handlers -> Requests \cup {None}]
  /\ raced \in BOOLEAN
  /\ snap # None => snap.role \in Roles

AdminInv ==
  /\ AdminTypes
  /\ ~raced => Admins # {} /\ \A h \in Handlers : Sound(h)

\* Of two or more, one is another.
LEMMA AnotherOne ==
  ASSUME NEW S, IsFiniteSet(S), ~(Cardinality(S) <= 1), NEW x
  PROVE  \E a \in S : a # x
<1> SUFFICES ASSUME S \subseteq {x} PROVE FALSE
  OBVIOUS
<1>1. IsFiniteSet({x}) /\ Cardinality({x}) = 1
  BY FS_Singleton
<1>2. Cardinality(S) <= 1
  BY <1>1, FS_Subset
<1>3. QED
  BY <1>2

LEMMA AdminsFinite == IsFiniteSet(Admins)
BY UsersAssumption, FS_Subset DEF Admins

LEMMA AdminFrame ==
  ASSUME AdminInv, UNCHANGED <<role, req, raced>>, snap' = snap
  PROVE  AdminInv'
BY DEF AdminInv, AdminTypes, Sound, Admins

LEMMA AdminInitially == Init => AdminInv
<1> SUFFICES ASSUME Init PROVE AdminInv
  OBVIOUS
<1>1. /\ role = [[n \in Users |-> "none"] EXCEPT ![AdminName] = "admin"]
      /\ req = [h \in Handlers |-> None] /\ raced = FALSE /\ snap = None
  BY DEF Init, AccountsInit, ensure_admin
<1>2. AdminName \in Admins
  BY <1>1, UsersAssumption DEF Admins
<1>3. QED
  BY <1>1, <1>2, UsersAssumption DEF AdminInv, AdminTypes, Roles, Sound

\* A request that is new, or answered, has nothing to write.
LEMMA RequestAdmins ==
  ASSUME AdminInv, UNCHANGED <<role, raced, snap>>, NEW h \in Handlers,
         NEW r, req' = [req EXCEPT ![h] = r], r = None \/ (r \in Requests /\ r.pc # "write")
  PROVE  AdminInv'
<1>1. req'[h] = r /\ \A g \in Handlers : g # h => req'[g] = req[g]
  BY DEF AdminInv, AdminTypes
<1>2. AdminTypes'
  BY DEF AdminInv, AdminTypes
<1>3. Admins' = Admins
  BY DEF Admins
<1>4. ASSUME ~raced, NEW g \in Handlers PROVE Sound(g)'
  <2>1. Sound(g)
    BY <1>4 DEF AdminInv
  <2>2. CASE g = h
    BY <1>1, <2>2 DEF Sound
  <2>3. CASE g # h
    BY <1>1, <1>3, <2>1, <2>3 DEF Sound
  <2>4. QED
    BY <2>2, <2>3
<1>5. QED
  BY <1>2, <1>3, <1>4 DEF AdminInv

\* One that has just looked is sound when what it saw leaves an admin.
LEMMA LookAdmins ==
  ASSUME AdminInv, UNCHANGED <<role, raced, snap>>, NEW h \in Handlers, req[h] # None,
         NEW seen \in {"none", "user", "admin", ""}, NEW pc \in {"count", "write"},
         LooksAgain(h, seen, pc),
         ~raced /\ pc = "write" /\ req[h].to # "admin" => \E a \in Admins : a # req[h].name
  PROVE  AdminInv'
<1> DEFINE r == [req[h] EXCEPT !.seen = seen, !.pc = pc, !.stale = FALSE]
<1>1. req[h] \in Requests
  BY DEF AdminInv, AdminTypes
<1>2. r \in Requests /\ r.name = req[h].name /\ r.to = req[h].to /\ r.pc = pc
  BY <1>1 DEF Requests
<1>3. req' = [req EXCEPT ![h] = r]
  BY DEF LooksAgain
<1> HIDE DEF r
<1>4. req'[h] = r /\ \A g \in Handlers : g # h => req'[g] = req[g]
  BY <1>3 DEF AdminInv, AdminTypes
<1>5. AdminTypes'
  BY <1>2, <1>3 DEF AdminInv, AdminTypes
<1>6. Admins' = Admins
  BY DEF Admins
<1>7. ASSUME ~raced, NEW g \in Handlers PROVE Sound(g)'
  <2>1. Sound(g)
    BY <1>7 DEF AdminInv
  <2>2. CASE g = h
    BY <1>2, <1>4, <1>6, <1>7, <2>2 DEF Sound
  <2>3. CASE g # h
    BY <1>4, <1>6, <2>1, <2>3 DEF Sound
  <2>4. QED
    BY <2>2, <2>3
<1>8. QED
  BY <1>5, <1>6, <1>7 DEF AdminInv

\* When users change every request in progress has been overtaken.
LEMMA OvertakenAdmins ==
  ASSUME AdminInv, NEW others \in SUBSET Handlers
  PROVE  /\ Overtaken(others) \in [Handlers -> Requests \cup {None}]
         /\ \A g \in others : Overtaken(others)[g] # None => Overtaken(others)[g].stale = TRUE
<1>1. ASSUME NEW g \in others, req[g] # None
      PROVE  [req[g] EXCEPT !.stale = TRUE] \in Requests
             /\ [req[g] EXCEPT !.stale = TRUE].stale = TRUE
  BY <1>1 DEF AdminInv, AdminTypes, Requests
<1>2. QED
  BY <1>1 DEF Overtaken, AdminInv, AdminTypes

\* A sound request leaves an admin, and one that is not leaves its mark.
LEMMA WriteAdmins ==
  ASSUME AdminInv, NEW h \in Handlers, WriteUser(h), UNCHANGED snap
  PROVE  AdminInv'
<1> DEFINE n == req[h].name  others == Overtaken(Handlers \ {h})
<1>1. /\ req[h] # None /\ req[h].pc = "write" /\ req[h] \in Requests
      /\ role' = [role EXCEPT ![n] = req[h].to]
      /\ req' = [others EXCEPT ![h] = None]
      /\ raced' = (raced \/ req[h].stale)
  BY DEF WriteUser, AdminInv, AdminTypes
<1>2. n \in Users /\ req[h].to \in {"none", "user", "admin"} /\ req[h].stale \in BOOLEAN
  BY <1>1 DEF Requests
<1>3. /\ others \in [Handlers -> Requests \cup {None}]
      /\ \A g \in Handlers \ {h} : others[g] # None => others[g].stale = TRUE
  BY OvertakenAdmins
<1> HIDE DEF others
<1>4. AdminTypes'
  BY <1>1, <1>2, <1>3 DEF AdminInv, AdminTypes, Roles
<1>5. \A g \in Handlers : req'[g] # None => req'[g].stale = TRUE
  BY <1>1, <1>3
<1>6. \A g \in Handlers : Sound(g)'
  BY <1>5 DEF Sound
<1>7. ASSUME ~raced' PROVE Admins' # {}
  <2>1. ~raced /\ ~req[h].stale
    BY <1>1, <1>2, <1>7
  <2>2. CASE req[h].to = "admin"
    <3>1. role'[n] = "admin"
      BY <1>1, <1>2, <2>2 DEF AdminInv, AdminTypes, Roles
    <3>2. QED
      BY <1>2, <3>1 DEF Admins
  <2>3. CASE req[h].to # "admin"
    <3>1. PICK a \in Admins : a # n
      BY <1>1, <2>1, <2>3 DEF AdminInv, Sound
    <3>2. a \in Users /\ role'[a] = "admin"
      BY <1>1, <3>1 DEF AdminInv, AdminTypes, Roles, Admins
    <3>3. QED
      BY <3>2 DEF Admins
  <2>4. QED
    BY <2>2, <2>3
<1>8. QED
  BY <1>4, <1>6, <1>7 DEF AdminInv

LEMMA AdminRequests ==
  ASSUME AdminInv, AccountStep, UNCHANGED snap
  PROVE  AdminInv'
<1>1. ASSUME NEW t \in Tokens, NEW n \in Users, admin_login(t, n)
      PROVE  AdminInv'
  BY <1>1, AdminFrame DEF admin_login
<1>2. ASSUME NEW h \in Handlers, NEW n \in Users, NEW to \in {"none", "user", "admin"},
             NEW new \in BOOLEAN, Serve(h, n, to, new), UNCHANGED <<role, raced>>
      PROVE  AdminInv'
  <2> DEFINE r == [name |-> n, to |-> to, new |-> new, seen |-> "", pc |-> "read", stale |-> FALSE]
  <2>1. r \in Requests /\ r.pc # "write"
    BY DEF Requests
  <2>2. req' = [req EXCEPT ![h] = r]
    BY <1>2 DEF Serve
  <2> HIDE DEF r
  <2>3. QED
    BY <1>2, <2>1, <2>2, RequestAdmins
<1>3. ASSUME NEW h \in Handlers, NEW t \in Tokens, NEW n \in Users,
             NEW to \in {"user", "admin"}, NEW new \in BOOLEAN, users_upsert(h, t, n, to, new)
      PROVE  AdminInv'
  BY <1>2, <1>3 DEF users_upsert
<1>4. ASSUME NEW h \in Handlers, NEW t \in Tokens, NEW n \in Users, users_delete(h, t, n)
      PROVE  AdminInv'
  <2>1. PICK new \in BOOLEAN : new = FALSE
    OBVIOUS
  <2>2. Serve(h, n, "none", new) /\ UNCHANGED <<role, raced>>
    BY <1>4, <2>1 DEF users_delete
  <2>3. QED
    BY <1>2, <2>2
<1>5. ASSUME NEW h \in Handlers, Answer(h), UNCHANGED <<role, raced>>
      PROVE  AdminInv'
  BY <1>5, RequestAdmins DEF Answer
<1>6. ASSUME NEW h \in Handlers, ReadTarget(h)
      PROVE  AdminInv'
  <2> DEFINE seen == role[req[h].name]
             pc == IF seen = "admin" /\ req[h].to # "admin" THEN "count" ELSE "write"
  <2>1. req[h] # None /\ UNCHANGED <<role, raced>> /\ (Answer(h) \/ LooksAgain(h, seen, pc))
    BY <1>6 DEF ReadTarget
  <2>2. req[h] \in Requests /\ req[h].name \in Users
    BY <2>1 DEF AdminInv, AdminTypes, Requests
  <2>3. seen \in {"none", "user", "admin"} /\ pc \in {"count", "write"}
    BY <2>2 DEF AdminInv, AdminTypes, Roles
  <2>4. ASSUME ~raced, pc = "write", req[h].to # "admin"
        PROVE  \E a \in Admins : a # req[h].name
    <3>1. req[h].name \notin Admins
      BY <2>4 DEF Admins
    <3>2. QED
      BY <2>4, <3>1 DEF AdminInv
  <2> HIDE DEF seen, pc
  <2>5. CASE LooksAgain(h, seen, pc)
    BY <2>1, <2>3, <2>4, <2>5, LookAdmins
  <2>6. QED
    BY <1>5, <2>1, <2>5
<1>7. ASSUME NEW h \in Handlers, CountAdmins(h)
      PROVE  AdminInv'
  <2>1. req[h] # None /\ UNCHANGED <<role, raced>>
    BY <1>7 DEF CountAdmins
  <2>2. req[h].seen \in {"none", "user", "admin", ""}
    BY <2>1 DEF AdminInv, AdminTypes, Requests
  <2>3. CASE ~(Cardinality(Admins) <= 1) /\ LooksAgain(h, req[h].seen, "write")
    <3>1. \E a \in Admins : a # req[h].name
      BY <2>3, AdminsFinite, AnotherOne
    <3>2. QED
      BY <2>1, <2>2, <2>3, <3>1, LookAdmins
  <2>4. QED
    BY <1>5, <1>7, <2>1, <2>3 DEF CountAdmins
<1>8. ASSUME NEW h \in Handlers, WriteUser(h)
      PROVE  AdminInv'
  BY <1>8, WriteAdmins
<1>9. QED
  BY <1>1, <1>3, <1>4, <1>6, <1>7, <1>8 DEF AccountStep

\* The users of another store: no request has looked at them.
LEMMA RestoreAdmins ==
  ASSUME AdminInv, NEW users \in Roles, RestoreUsers(users), UNCHANGED snap
  PROVE  AdminInv'
<1>1. /\ role' = users /\ req' = Overtaken(Handlers)
      /\ raced' = (raced \/ \A n \in Users : users[n] # "admin")
  BY DEF RestoreUsers
<1>2. /\ req' \in [Handlers -> Requests \cup {None}]
      /\ \A g \in Handlers : req'[g] # None => req'[g].stale = TRUE
  BY <1>1, OvertakenAdmins
<1>3. AdminTypes'
  BY <1>1, <1>2 DEF AdminInv, AdminTypes
<1>4. \A g \in Handlers : Sound(g)'
  BY <1>2 DEF Sound
<1>5. ~raced' => Admins' # {}
  BY <1>1 DEF Admins
<1>6. QED
  BY <1>3, <1>4, <1>5 DEF AdminInv

LEMMA RestartAdmins ==
  ASSUME AdminInv, RestartAccounts, UNCHANGED snap
  PROVE  AdminInv'
<1>1. /\ role' = ensure_admin(role) /\ req' = [h \in Handlers |-> None] /\ raced' = raced
  BY DEF RestartAccounts
<1>2. role' \in Roles
  BY <1>1, UsersAssumption DEF AdminInv, AdminTypes, Roles, ensure_admin
<1>3. ~raced => role' = role
  BY <1>1 DEF AdminInv, Admins, ensure_admin
<1>4. QED
  BY <1>1, <1>2, <1>3 DEF AdminInv, AdminTypes, Sound, Admins

LEMMA AdminStep ==
  ASSUME AdminInv, [Next]_vars
  PROVE  AdminInv'
<1>1. CASE AccountStep /\ UNCHANGED <<run, ran, file, artifact, row, snap, published>>
  BY <1>1, AdminRequests
<1>2. CASE \E t \in Tokens, i \in Ids, outcome \in Outcomes : EndRun(t, i, outcome)
  BY <1>2, AdminFrame DEF EndRun, accounts
<1>3. CASE \/ AppendLine \/ AppendHead \/ AppendTail \/ Render \/ RenderFails
           \/ add_report \/ add_report_fails
  BY <1>3, AdminFrame DEF AppendLine, AppendHead, AppendTail, Render, RenderFails,
                          add_report, add_report_fails, accounts
<1>4. CASE \E i \in Ids, t \in Tokens :
             \/ \E v \in {"private", "public"} : set_report_visibility(i, t, v)
             \/ delete_report(i, t)
  BY <1>4, AdminFrame DEF set_report_visibility, delete_report, accounts
<1>5. ASSUME NEW t \in Tokens, backup(t)
      PROVE  AdminInv'
  BY <1>5 DEF backup, accounts, AdminInv, AdminTypes, Sound, Admins
<1>6. ASSUME NEW t \in Tokens, restore(t)
      PROVE  AdminInv'
  <2>1. snap.role \in Roles /\ RestoreUsers(snap.role) /\ UNCHANGED snap
    BY <1>6 DEF restore, Restored, AdminInv, AdminTypes
  <2>2. PICK users \in Roles : users = snap.role
    BY <2>1
  <2>3. QED
    BY <2>1, <2>2, RestoreAdmins
<1>7. ASSUME NEW t \in Tokens, NEW store \in Uploads, restore_upload(t, store)
      PROVE  AdminInv'
  <2>1. store.role \in Roles
    BY ReportsAssumption DEF Roles
  <2>2. QED
    BY <1>7, <2>1, RestoreAdmins DEF restore_upload, Restored
<1>8. CASE Restart
  BY <1>8, RestartAdmins DEF Restart
<1>9. CASE UNCHANGED vars
  BY <1>9, AdminFrame DEF vars, accounts
<1>10. QED
  BY <1>1, <1>2, <1>3, <1>4, <1>5, <1>6, <1>7, <1>8, <1>9 DEF Next

\* However requests of admins overlap, whoever the first admin was, whatever is restored and
\* however often the server starts again: the count of admins leaves one, except when a
\* request goes by a look that another change has overtaken, or the store of a server without
\* admins is restored.
THEOREM SomebodyCanAdminister == Spec => []AdminRemains
<1>1. AdminInv => AdminRemains
  BY DEF AdminInv, AdminRemains
<1>2. QED
  BY <1>1, AdminInitially, AdminStep, PTL DEF Spec

-----------------------------------------------------------------------------
(* Who sees a report *)

Tables == [Ids -> Row \cup {None}]

\* A row is of a run that is over, belongs to whoever started it, and is public only when
\* its id was published.
Honest(i, r, pub) ==
  r # None =>
    /\ r.run # 0 =>
         /\ r.run \in Runs /\ ran[r.run].id = i /\ ran[r.run].owner = r.owner
         /\ run # None => r.run # Len(ran)
    /\ r.visibility = "public" => i \in pub

PublishedInv ==
  /\ ran \in Seq(Past) /\ Len(ran) <= MaxRuns /\ (run # None => Len(ran) > 0)
  /\ tokens \in [Tokens -> [username : Users, is_admin : BOOLEAN] \cup {None}]
  /\ row \in Tables /\ published \subseteq Ids
  /\ \A i \in Ids : Honest(i, row[i], published)
  /\ snap # None =>
       /\ snap.row \in Tables /\ snap.published \subseteq Ids
       /\ \A i \in Ids : Honest(i, snap.row[i], snap.published)

LEMMA PublishedFrame ==
  ASSUME PublishedInv, UNCHANGED <<ran, tokens, row, snap, published>>,
         run' = None \/ (run # None /\ run' # None)
  PROVE  PublishedInv'
BY DEF PublishedInv, Honest, Runs

\* Nobody's login but the user's own.
LEMMA LoginsTyped ==
  ASSUME PublishedInv, AdminInv, AccountStep
  PROVE  tokens' \in [Tokens -> [username : Users, is_admin : BOOLEAN] \cup {None}]
<1>1. ASSUME NEW t \in Tokens, NEW n \in Users, admin_login(t, n)
      PROVE  tokens' \in [Tokens -> [username : Users, is_admin : BOOLEAN] \cup {None}]
  <2>1. PICK flag \in BOOLEAN : flag = (role[n] = "admin")
    OBVIOUS
  <2>2. tokens' = [tokens EXCEPT ![t] = [username |-> n, is_admin |-> flag]]
    BY <1>1, <2>1, Zenon DEF admin_login
  <2>3. [username |-> n, is_admin |-> flag] \in [username : Users, is_admin : BOOLEAN]
    OBVIOUS
  <2>4. QED
    BY <2>2, <2>3, Zenon DEF PublishedInv
<1>2. \/ \E t \in Tokens, n \in Users : admin_login(t, n)
      \/ UNCHANGED tokens
  BY Zenon DEF AccountStep, users_upsert, users_delete, ReadTarget, CountAdmins, WriteUser
<1>3. QED
  BY <1>1, <1>2 DEF PublishedInv

LEMMA EndRunPublished ==
  ASSUME PublishedInv, NEW t \in Tokens, NEW i \in Ids, NEW outcome \in Outcomes,
         EndRun(t, i, outcome)
  PROVE  PublishedInv'
<1> DEFINE x == [id |-> i, owner |-> tokens[t].username, checks |-> outcome.checks,
                 tests |-> outcome.tests]
<1>1. /\ ran' = Append(ran, x) /\ run = None /\ Len(ran) < MaxRuns
      /\ UNCHANGED <<tokens, row, snap, published>> /\ t \in Logins
  BY DEF EndRun, accounts
<1>2. x \in Past
  BY <1>1 DEF PublishedInv, Logins, Past
<1> HIDE DEF x
<1>3. /\ ran' \in Seq(Past) /\ Len(ran) \in Nat /\ Len(ran') = Len(ran) + 1
      /\ \A k \in Runs : k \in Runs' /\ ran'[k] = ran[k] /\ k # Len(ran')
  BY <1>1, <1>2 DEF PublishedInv, Runs
<1>4. Len(ran') <= MaxRuns
  BY <1>1, <1>3, ReportsAssumption
<1>5. \A j \in Ids : Honest(j, row[j], published)'
  BY <1>1, <1>3 DEF PublishedInv, Honest
<1>6. ASSUME snap # None, NEW j \in Ids
      PROVE  Honest(j, snap.row[j], snap.published)'
  BY <1>1, <1>3, <1>6 DEF PublishedInv, Honest
<1>7. QED
  BY <1>1, <1>3, <1>4, <1>5, <1>6 DEF PublishedInv

\* The starter of the run becomes the owner, also of a row that was there.
LEMMA AddReportPublished ==
  ASSUME PublishedInv, add_report
  PROVE  PublishedInv'
<1> DEFINE n == Len(ran)
           i == ran[n].id
           v == IF row[i] = None THEN "private" ELSE row[i].visibility
           x == [owner |-> ran[n].owner, run |-> n, visibility |-> v]
<1>1. /\ run # None /\ run' = None /\ row' = [row EXCEPT ![i] = x]
      /\ UNCHANGED <<ran, tokens, snap, published>>
  BY DEF add_report, accounts
<1>2. ran[n] \in Past /\ n \in Runs /\ n \in 1 .. MaxRuns
  BY <1>1, ReportsAssumption DEF PublishedInv, Runs
<1>3. i \in Ids /\ ran[n].owner \in Users
  BY <1>2 DEF Past
<1>4. row[i] \in Row \cup {None} /\ Honest(i, row[i], published)
  BY <1>3 DEF PublishedInv, Tables
<1>5. v \in {"private", "public"} /\ (v = "public" => i \in published)
  BY <1>4 DEF Row, Honest
<1> HIDE DEF v
<1>6. x \in Row /\ x.run = n /\ x.owner = ran[n].owner /\ x.visibility = v
  BY <1>2, <1>3, <1>5 DEF Row
<1> HIDE DEF x
<1>7. row' \in Tables
  BY <1>1, <1>6 DEF PublishedInv, Tables
<1>8. row'[i] = x /\ \A j \in Ids : j # i => row'[j] = row[j]
  BY <1>1, <1>3 DEF PublishedInv, Tables
<1> HIDE DEF i, n
<1>9. ASSUME NEW j \in Ids PROVE Honest(j, row[j], published)'
  <2>1. CASE j = i
    BY <1>1, <1>2, <1>5, <1>6, <1>8, <2>1 DEF Honest, Runs, i
  <2>2. CASE j # i
    BY <1>1, <1>8, <2>2 DEF PublishedInv, Honest, Runs
  <2>3. QED
    BY <2>1, <2>2
<1>10. ASSUME snap # None, NEW j \in Ids PROVE Honest(j, snap.row[j], snap.published)'
  BY <1>1, <1>10 DEF PublishedInv, Honest, Runs
<1>11. QED
  BY <1>1, <1>7, <1>9, <1>10 DEF PublishedInv

LEMMA VisibilityPublished ==
  ASSUME PublishedInv, NEW i \in Ids, NEW t \in Tokens, NEW v \in {"private", "public"},
         set_report_visibility(i, t, v)
  PROVE  PublishedInv'
<1>1. /\ MayChange(i, t) /\ row' = [row EXCEPT ![i].visibility = v]
      /\ published' = Publishes(i, t, v) /\ UNCHANGED <<run, ran, tokens, snap>>
  BY DEF set_report_visibility, accounts
<1>2. row[i] # None /\ row[i] \in Row /\ Honest(i, row[i], published)
  BY <1>1 DEF MayChange, PublishedInv, Tables
<1>3. Starter(row[i]) = row[i].owner
  BY <1>2 DEF Starter, Honest
<1>4. v = "public" => i \in published'
  BY <1>1, <1>3 DEF MayChange, Publishes
<1>5. published \subseteq published' /\ published' \subseteq Ids
  BY <1>1 DEF Publishes, PublishedInv
<1>6. PICK x \in Row : /\ x.run = row[i].run /\ x.owner = row[i].owner /\ x.visibility = v
                       /\ row' = [row EXCEPT ![i] = x]
  BY <1>1, <1>2 DEF Row
<1>7. row' \in Tables
  BY <1>6 DEF PublishedInv, Tables
<1>8. row'[i] = x /\ \A j \in Ids : j # i => row'[j] = row[j]
  BY <1>6 DEF PublishedInv, Tables
<1>9. ASSUME NEW j \in Ids PROVE Honest(j, row[j], published)'
  <2>1. CASE j = i
    BY <1>1, <1>2, <1>4, <1>6, <1>8, <2>1 DEF Honest, Runs
  <2>2. CASE j # i
    BY <1>1, <1>5, <1>8, <2>2 DEF PublishedInv, Honest, Runs
  <2>3. QED
    BY <2>1, <2>2
<1>10. ASSUME snap # None, NEW j \in Ids PROVE Honest(j, snap.row[j], snap.published)'
  BY <1>1, <1>10 DEF PublishedInv, Honest, Runs
<1>11. QED
  BY <1>1, <1>5, <1>7, <1>9, <1>10 DEF PublishedInv

LEMMA DeletePublished ==
  ASSUME PublishedInv, NEW i \in Ids, NEW t \in Tokens, delete_report(i, t)
  PROVE  PublishedInv'
<1>1. /\ row' = [row EXCEPT ![i] = None] /\ published' = published \ {i}
      /\ UNCHANGED <<run, ran, tokens, snap>>
  BY DEF delete_report, accounts
<1>2. row' \in Tables
  BY <1>1 DEF PublishedInv, Tables
<1>3. row'[i] = None /\ \A j \in Ids : j # i => row'[j] = row[j]
  BY <1>1 DEF PublishedInv, Tables
<1>4. ASSUME NEW j \in Ids PROVE Honest(j, row[j], published)'
  <2>1. CASE j = i
    BY <1>3, <2>1 DEF Honest
  <2>2. CASE j # i
    BY <1>1, <1>3, <2>2 DEF PublishedInv, Honest, Runs
  <2>3. QED
    BY <2>1, <2>2
<1>5. ASSUME snap # None, NEW j \in Ids PROVE Honest(j, snap.row[j], snap.published)'
  BY <1>1, <1>5 DEF PublishedInv, Honest, Runs
<1>6. QED
  BY <1>1, <1>2, <1>4, <1>5 DEF PublishedInv

\* The rows of a store come with what was published of them.
LEMMA StorePublished ==
  ASSUME PublishedInv, NEW t \in Tokens,
         \/ backup(t) \/ restore(t) \/ \E store \in Uploads : restore_upload(t, store)
  PROVE  PublishedInv'
<1>1. CASE backup(t)
  <2>1. /\ snap'.row = row /\ snap'.published = published
        /\ UNCHANGED <<run, ran, tokens, row, published>>
    BY <1>1 DEF backup, accounts
  <2>2. QED
    BY <2>1 DEF PublishedInv, Honest, Runs
<1>2. CASE restore(t)
  <2>1. /\ snap # None /\ row' = snap.row /\ published' = snap.published
        /\ UNCHANGED <<run, ran, tokens, snap>>
    BY <1>2 DEF restore, Restored, RestoreUsers
  <2>2. QED
    BY <2>1 DEF PublishedInv, Honest, Runs
<1>3. ASSUME NEW store \in Uploads, restore_upload(t, store)
      PROVE  PublishedInv'
  <2>1. /\ row' = store.row
        /\ published' = {i \in Ids : store.row[i] # None /\ store.row[i].visibility = "public"}
        /\ UNCHANGED <<run, ran, tokens, snap>>
    BY <1>3 DEF restore_upload, Restored, RestoreUsers
  <2>2. store.row \in [Ids -> Foreign \cup {None}]
    BY ReportsAssumption
  <2>3. row' \in Tables /\ \A i \in Ids : row'[i] # None => row'[i].run = 0
    BY <2>1, <2>2 DEF Tables, Foreign
  <2>4. \A i \in Ids : Honest(i, row[i], published)'
    BY <2>1, <2>3 DEF Honest
  <2>5. ASSUME snap # None, NEW j \in Ids PROVE Honest(j, snap.row[j], snap.published)'
    BY <2>1, <2>5 DEF PublishedInv, Honest, Runs
  <2>6. QED
    BY <2>1, <2>3, <2>4, <2>5 DEF PublishedInv
<1>4. QED
  BY <1>1, <1>2, <1>3

LEMMA PublishedStep ==
  ASSUME AdminInv, PublishedInv, [Next]_vars
  PROVE  PublishedInv'
<1>1. CASE AccountStep /\ UNCHANGED <<run, ran, file, artifact, row, snap, published>>
  BY <1>1, LoginsTyped DEF PublishedInv, Honest, Runs
<1>2. ASSUME NEW t \in Tokens, NEW i \in Ids, NEW outcome \in Outcomes, EndRun(t, i, outcome)
      PROVE  PublishedInv'
  BY <1>2, EndRunPublished
<1>3. CASE \/ AppendLine \/ AppendHead \/ AppendTail \/ Render \/ RenderFails
           \/ add_report_fails
  BY <1>3, PublishedFrame DEF AppendLine, AppendHead, AppendTail, Render, RenderFails,
                              add_report_fails, accounts
<1>4. CASE add_report
  BY <1>4, AddReportPublished
<1>5. ASSUME NEW i \in Ids, NEW t \in Tokens, NEW v \in {"private", "public"},
             set_report_visibility(i, t, v)
      PROVE  PublishedInv'
  BY <1>5, VisibilityPublished
<1>6. ASSUME NEW i \in Ids, NEW t \in Tokens, delete_report(i, t)
      PROVE  PublishedInv'
  BY <1>6, DeletePublished
<1>7. ASSUME NEW t \in Tokens,
             \/ backup(t) \/ restore(t) \/ \E store \in Uploads : restore_upload(t, store)
      PROVE  PublishedInv'
  BY <1>7, StorePublished
<1>8. CASE Restart
  BY <1>8 DEF Restart, RestartAccounts, PublishedInv, Honest, Runs
<1>9. CASE UNCHANGED vars
  BY <1>9 DEF vars, accounts, PublishedInv, Honest, Runs
<1>10. QED
  BY <1>1, <1>2, <1>3, <1>4, <1>5, <1>6, <1>7, <1>8, <1>9 DEF Next

LEMMA PublishedInitially == Init => PublishedInv
BY ReportsAssumption DEF Init, AccountsInit, PublishedInv, Tables, Honest

\* A login that was not an admin's sees another's report only when its id was made public,
\* by the login of its owner or of an admin, since the report was entered, or came so from
\* another server.  A run that takes the row of its id over takes that over as well.
THEOREM PublishedOnly == Spec => []OthersSeeThePublished
<1>1. Spec => []AdminInv
  BY AdminInitially, AdminStep, PTL DEF Spec
<1>2. Spec => []PublishedInv
  BY <1>1, PublishedInitially, PublishedStep, PTL DEF Spec
<1>3. PublishedInv => OthersSeeThePublished
  BY DEF PublishedInv, Honest, OthersSeeThePublished, get_report, Starter
<1>4. QED
  BY <1>2, <1>3, PTL

-----------------------------------------------------------------------------
(* What a report shows *)

Pieces == [run : Nat, check : UNION {outcome.checks : outcome \in Outcomes},
           part : {"whole", "head"}]

\* The lines of run n in the history f, as positions, and what they are about.
Lines(f, n) == {k \in 1 .. Len(f) : f[k].part = "whole" /\ f[k].run = n}
Shown(f, n) == {f[k].check : k \in Lines(f, n)}
Distinct(f, n) == \A j, k \in Lines(f, n) : f[j].check = f[k].check => j = k

\* The history has one line of run n for each of the records S.
Complete(f, n, S) == Shown(f, n) = S /\ Distinct(f, n)

\* The runs of this server that a row is about, of the table or of the backup.
Listed ==
  {n \in Nat \ {0} : \E i \in Ids : \/ row[i] # None /\ row[i].run = n
                                    \/ snap # None /\ snap.row[i] # None /\ snap.row[i].run = n}

NoRepeat(s) == \A j, k \in 1 .. Len(s) : s[j] = s[k] => j = k
Elements(s) == {s[k] : k \in 1 .. Len(s)}

\* What of the records S is not a line of run n yet is in todo, once.
Remains(f, n, S, todo) ==
  /\ todo \in Seq(S) /\ NoRepeat(todo)
  /\ Shown(f, n) \cup Elements(todo) = S /\ Shown(f, n) \cap Elements(todo) = {}
  /\ Distinct(f, n)

WritingInv ==
  run # None =>
    /\ Remains(file, Len(ran), ran[Len(ran)].checks, run.todo)
    /\ run.pc \in {"append", "half", "row"}
    /\ run.pc = "half" =>
         run.todo # <<>> /\ Len(file) > 0 /\ file[Len(file)].part = "head"
    /\ run.pc = "row" => run.todo = <<>>

\* Every line and every directory of files is of a run there was, and a run that a row is
\* about has all its lines.
HistoryInv ==
  /\ file \in Seq(Pieces) /\ \A k \in 1 .. Len(file) : file[k].run \in Runs
  /\ artifact \in [Ids -> Runs \cup {None}]
  /\ \A i \in Ids : artifact[i] # None => ran[artifact[i]].id = i
  /\ \A n \in Listed : Complete(file, n, ran[n].checks)
  /\ WritingInv

\* Every record of a run is to be written once.
LEMMA AllToDo ==
  ASSUME NEW S, IsFiniteSet(S)
  PROVE  SetToSeq(S) \in Seq(S) /\ NoRepeat(SetToSeq(S)) /\ Elements(SetToSeq(S)) = S
<1> DEFINE c == Cardinality(S)
           s == SetToSeq(S)
<1>1. c \in Nat /\ ExistsBijection(1 .. c, S)
  BY FS_CardinalityType
<1>2. \E f \in [1 .. c -> S] : IsInjective(f)
  BY <1>1 DEF ExistsBijection, Bijection, Injection
<1>3. s \in [1 .. c -> S] /\ IsInjective(s)
  BY <1>2 DEF SetToSeq
<1> HIDE DEF s
<1>4. s \in Injection(1 .. c, S)
  BY <1>3 DEF Injection
<1>5. c \in Nat /\ 1 .. c = DOMAIN s
  BY <1>1, <1>3
<1> HIDE DEF c
<1>6. IsFiniteSet(1 .. c) /\ Cardinality(1 .. c) = c
  BY <1>1, FS_Interval
<1>7. s \in Surjection(1 .. c, S)
  BY <1>4, <1>6, FS_Injection DEF c
<1>8. s \in Seq(S) /\ Len(s) = c
  BY <1>3, <1>5
<1>9. QED
  BY <1>3, <1>7, <1>8 DEF NoRepeat, Elements, IsInjective, Surjection, s

\* g is f with p at its end: after what was there, or in place of the head of a line.
Ends(f, g, p) ==
  \/ g = Append(f, p)
  \/ Len(f) > 0 /\ f[Len(f)].part = "head" /\ g = [f EXCEPT ![Len(f)] = p]

LEMMA TheEnd ==
  ASSUME NEW f \in Seq(Pieces), NEW p \in Pieces, NEW g, Ends(f, g, p)
  PROVE  /\ g \in Seq(Pieces) /\ Len(g) \in 1 .. Len(f) + 1 /\ g[Len(g)] = p
         /\ \A k \in 1 .. Len(g) : k # Len(g) => k \in 1 .. Len(f) /\ g[k] = f[k]
         /\ \A k \in 1 .. Len(f) : f[k].part # "head" => k \in 1 .. Len(g) /\ k # Len(g)
<1>1. CASE g = Append(f, p)
  BY <1>1
<1>2. CASE Len(f) > 0 /\ f[Len(f)].part = "head" /\ g = [f EXCEPT ![Len(f)] = p]
  <2>1. Len(f) \in Nat /\ Len(g) = Len(f) /\ g \in Seq(Pieces)
    BY <1>2
  <2>2. g[Len(f)] = p /\ \A k \in 1 .. Len(f) : k # Len(f) => g[k] = f[k]
    BY <1>2, <2>1
  <2>3. QED
    BY <1>2, <2>1, <2>2
<1>3. QED
  BY <1>1, <1>2 DEF Ends

\* The head of a line is not a line, and a line is of one run.
LEMMA OtherPiece ==
  ASSUME NEW f \in Seq(Pieces), NEW p \in Pieces, NEW g, Ends(f, g, p), NEW n,
         p.part = "head" \/ p.run # n
  PROVE  Lines(g, n) = Lines(f, n)
         /\ Shown(g, n) = Shown(f, n)
         /\ (Distinct(f, n) => Distinct(g, n))
<1>1. /\ Len(g) \in 1 .. Len(f) + 1 /\ g[Len(g)] = p /\ Len(f) \in Nat
      /\ \A k \in 1 .. Len(g) : k # Len(g) => k \in 1 .. Len(f) /\ g[k] = f[k]
      /\ \A k \in 1 .. Len(f) : f[k].part # "head" => k \in 1 .. Len(g) /\ k # Len(g)
  BY TheEnd
<1>2. Lines(g, n) = Lines(f, n)
  BY <1>1 DEF Lines
<1>3. \A k \in Lines(f, n) : g[k] = f[k]
  BY <1>1 DEF Lines
<1>4. QED
  BY <1>2, <1>3 DEF Shown, Distinct

\* A line shows its record.
LEMMA OwnPiece ==
  ASSUME NEW f \in Seq(Pieces), NEW p \in Pieces, NEW g, Ends(f, g, p), p.part = "whole",
         Distinct(f, p.run), p.check \notin Shown(f, p.run)
  PROVE  /\ Shown(g, p.run) = Shown(f, p.run) \cup {p.check}
         /\ Distinct(g, p.run)
<1> DEFINE n == p.run
           l == Len(g)
<1>1. /\ l \in 1 .. Len(f) + 1 /\ g[l] = p /\ Len(f) \in Nat
      /\ \A k \in 1 .. l : k # l => k \in 1 .. Len(f) /\ g[k] = f[k]
      /\ \A k \in 1 .. Len(f) : f[k].part # "head" => k \in 1 .. l /\ k # l
  BY TheEnd
<1>2. Lines(g, n) = Lines(f, n) \cup {l}
  BY <1>1 DEF Lines
<1>3. \A k \in Lines(f, n) : g[k] = f[k] /\ k # l
  BY <1>1 DEF Lines
<1> HIDE DEF l
<1>4. Shown(g, n) = Shown(f, n) \cup {p.check}
  BY <1>1, <1>2, <1>3 DEF Shown
<1>5. \A k \in Lines(f, n) : g[k].check # p.check
  BY <1>3 DEF Shown
<1>6. Distinct(g, n)
  BY <1>1, <1>2, <1>3, <1>5 DEF Distinct
<1>7. QED
  BY <1>4, <1>6

\* Hence a line of the next record leaves the records after it.
LEMMA OneLineLess ==
  ASSUME NEW f \in Seq(Pieces), NEW p \in Pieces, NEW g, Ends(f, g, p), p.part = "whole",
         NEW S, NEW todo, Remains(f, p.run, S, todo), todo # <<>>, p.check = Head(todo)
  PROVE  Remains(g, p.run, S, Tail(todo))
<1> DEFINE rest == Tail(todo)
<1>1. /\ todo \in Seq(S) /\ NoRepeat(todo) /\ Distinct(f, p.run)
      /\ Shown(f, p.run) \cup Elements(todo) = S /\ Shown(f, p.run) \cap Elements(todo) = {}
  BY DEF Remains
<1>2. /\ rest \in Seq(S) /\ Len(todo) \in Nat /\ Len(todo) > 0 /\ Len(rest) = Len(todo) - 1
      /\ \A k \in 1 .. Len(rest) : rest[k] = todo[k + 1] /\ k + 1 \in 1 .. Len(todo) /\ k + 1 # 1
      /\ p.check = todo[1] /\ 1 \in 1 .. Len(todo)
      /\ \A k \in 1 .. Len(todo) : k # 1 => k - 1 \in 1 .. Len(rest) /\ todo[k] = rest[k - 1]
  BY <1>1
<1> HIDE DEF rest
<1>3. NoRepeat(rest)
  BY <1>1, <1>2 DEF NoRepeat
<1>4. Elements(todo) = Elements(rest) \cup {p.check} /\ p.check \notin Elements(rest)
  <2>1. Elements(rest) \subseteq Elements(todo) /\ p.check \in Elements(todo)
    BY <1>2 DEF Elements
  <2>2. ASSUME NEW c \in Elements(todo), c # p.check
        PROVE  c \in Elements(rest)
    <3>1. PICK k \in 1 .. Len(todo) : c = todo[k]
      BY <2>2 DEF Elements
    <3>2. k - 1 \in 1 .. Len(rest) /\ c = rest[k - 1]
      BY <1>2, <2>2, <3>1
    <3>3. QED
      BY <3>2 DEF Elements
  <2>3. p.check \notin Elements(rest)
    BY <1>1, <1>2 DEF NoRepeat, Elements
  <2>4. QED
    BY <2>1, <2>2, <2>3
<1>5. p.check \notin Shown(f, p.run)
  BY <1>1, <1>4
<1>6. /\ Shown(g, p.run) = Shown(f, p.run) \cup {p.check}
      /\ Distinct(g, p.run)
  BY <1>1, <1>5, OwnPiece
<1>7. QED
  BY <1>1, <1>2, <1>3, <1>4, <1>6 DEF Remains, rest

\* When nothing is left to write every record has its line.
LEMMA NothingRemains ==
  ASSUME NEW f, NEW n, NEW S, Remains(f, n, S, <<>>)
  PROVE  Complete(f, n, S)
<1>1. Elements(<<>>) = {}
  BY DEF Elements
<1>2. QED
  BY <1>1 DEF Remains, Complete

LEMMA ListedRuns ==
  ASSUME PublishedInv, NEW n \in Listed
  PROVE  n \in Runs /\ (run # None => n # Len(ran))
<1>1. PICK i \in Ids : \/ row[i] # None /\ row[i].run = n
                       \/ snap # None /\ snap.row[i] # None /\ snap.row[i].run = n
  BY DEF Listed
<1>2. Honest(i, row[i], published) /\ (snap # None => Honest(i, snap.row[i], snap.published))
  BY DEF PublishedInv
<1>3. QED
  BY <1>1, <1>2 DEF Honest, Listed

-----------------------------------------------------------------------------
(* The steps *)

\* Rows come and go, and a write-up may be broken off.
LEMMA HistoryFrame ==
  ASSUME HistoryInv, UNCHANGED <<ran, file, artifact>>, run' = run \/ run' = None,
         Listed' \subseteq Listed
  PROVE  HistoryInv'
<1>1. WritingInv'
  BY DEF HistoryInv, WritingInv
<1>2. QED
  BY <1>1 DEF HistoryInv, Runs

LEMMA ListedSame ==
  ASSUME UNCHANGED <<row, snap>>
  PROVE  Listed' = Listed
BY DEF Listed

LEMMA EndRunHistory ==
  ASSUME PublishedInv, HistoryInv, NEW t \in Tokens, NEW i \in Ids, NEW outcome \in Outcomes,
         EndRun(t, i, outcome)
  PROVE  HistoryInv'
<1> DEFINE checks == outcome.checks
           x == [id |-> i, owner |-> tokens[t].username, checks |-> checks,
                 tests |-> outcome.tests]
           todo == SetToSeq(checks)
           n == Len(ran) + 1
<1>1. /\ ran' = Append(ran, x) /\ UNCHANGED <<file, artifact, row, snap>>
      /\ run' = [todo |-> todo, pc |-> "append"]
      /\ t \in Logins
  BY DEF EndRun, accounts
<1>2. x \in Past /\ ran \in Seq(Past)
  BY <1>1 DEF PublishedInv, Logins, Past
<1>3. x.checks = checks
  OBVIOUS
<1> HIDE DEF x
<1>4. /\ Len(ran') = n /\ n - 1 = Len(ran) /\ Len(ran) \in Nat /\ ran'[n] = x
      /\ \A k \in Runs : ran'[k] = ran[k]
      /\ Runs \subseteq Runs' /\ n \notin Runs
  BY <1>1, <1>2 DEF Runs
<1>5. todo \in Seq(checks) /\ NoRepeat(todo) /\ Elements(todo) = checks
  BY AllToDo, ReportsAssumption
<1> HIDE DEF todo, n
<1>6. Lines(file, n) = {}
  BY <1>4 DEF HistoryInv, Lines
<1>7. Remains(file, n, checks, todo)
  BY <1>5, <1>6 DEF Remains, Shown, Distinct
<1>8. WritingInv'
  BY <1>1, <1>3, <1>4, <1>7 DEF WritingInv
<1>9. Listed' = Listed
  BY <1>1, ListedSame
<1>10. \A m \in Listed : ran'[m] = ran[m]
  BY <1>4, ListedRuns
<1>11. artifact \in [Ids -> Runs' \cup {None}]
  BY <1>4 DEF HistoryInv
<1>12. \A j \in Ids : artifact[j] # None => ran'[artifact[j]].id = j
  BY <1>4 DEF HistoryInv
<1>13. QED
  BY <1>1, <1>4, <1>8, <1>9, <1>10, <1>11, <1>12 DEF HistoryInv

\* A piece is of the run in progress, which no row is about.
LEMMA PieceHistory ==
  ASSUME PublishedInv, HistoryInv, UNCHANGED <<ran, artifact, row, snap>>, run # None,
         NEW p \in Pieces, p.run = Len(ran), Ends(file, file', p), WritingInv'
  PROVE  HistoryInv'
<1>1. /\ file \in Seq(Pieces) /\ file' \in Seq(Pieces) /\ file'[Len(file')] = p
      /\ \A k \in 1 .. Len(file') : k # Len(file') => k \in 1 .. Len(file) /\ file'[k] = file[k]
  BY TheEnd DEF HistoryInv
<1>2. Len(ran) \in Runs /\ Runs' = Runs
  BY DEF PublishedInv, Runs
<1>3. \A k \in 1 .. Len(file') : file'[k].run \in Runs'
  BY <1>1, <1>2 DEF HistoryInv
<1>4. Listed' = Listed
  BY ListedSame
<1>5. ASSUME NEW m \in Listed PROVE Complete(file', m, ran[m].checks)
  <2>1. m # Len(ran) /\ Complete(file, m, ran[m].checks)
    BY ListedRuns DEF HistoryInv
  <2>2. QED
    BY <1>1, <2>1, OtherPiece DEF Complete
<1>6. QED
  BY <1>1, <1>2, <1>3, <1>4, <1>5 DEF HistoryInv

\* Piece is well typed when it is of the next record.
LEMMA PieceTyped ==
  ASSUME PublishedInv, HistoryInv, run # None, run.todo # <<>>,
         NEW part \in {"whole", "head"}
  PROVE  /\ Piece(Head(run.todo), part) \in Pieces
         /\ Piece(Head(run.todo), part).run = Len(ran)
         /\ Piece(Head(run.todo), part).part = part
         /\ Piece(Head(run.todo), part).check = Head(run.todo)
<1> DEFINE n == Len(ran)
<1>1. run.todo \in Seq(ran[n].checks) /\ n \in Nat /\ n > 0
  BY DEF HistoryInv, WritingInv, Remains, PublishedInv
<1>2. ran[n].checks \in {outcome.checks : outcome \in Outcomes}
  <2>1. ran[n] \in Past
    BY <1>1 DEF PublishedInv
  <2>2. QED
    BY <2>1 DEF Past
<1>3. Head(run.todo) \in ran[n].checks
  BY <1>1
<1>4. QED
  BY <1>1, <1>2, <1>3 DEF Piece, Pieces

LEMMA WritingHistory ==
  ASSUME PublishedInv, HistoryInv, AppendLine \/ AppendHead \/ AppendTail
  PROVE  HistoryInv'
<1> DEFINE n == Len(ran)
           todo == run.todo
           S == ran[n].checks
<1>1. /\ run # None /\ UNCHANGED <<ran, artifact, row, snap>>
      /\ Remains(file, n, S, todo) /\ file \in Seq(Pieces)
  BY DEF AppendLine, AppendHead, AppendTail, HistoryInv, WritingInv
<1>2. todo # <<>>
  BY <1>1 DEF AppendLine, AppendHead, AppendTail, HistoryInv, WritingInv
<1>3. ASSUME Ends(file, file', Piece(Head(todo), "whole")),
             run'.todo = Tail(todo), run'.pc = "append"
      PROVE  HistoryInv'
  <2> DEFINE p == Piece(Head(todo), "whole")
  <2>1. p \in Pieces /\ p.run = n /\ p.part = "whole" /\ p.check = Head(todo)
    BY <1>1, <1>2, PieceTyped
  <2>2. Ends(file, file', p)
    BY <1>3
  <2> HIDE DEF p
  <2>3. Remains(file', n, S, Tail(todo))
    BY <1>1, <1>2, <2>1, <2>2, OneLineLess
  <2>4. WritingInv'
    BY <1>1, <1>3, <2>3 DEF WritingInv
  <2>5. QED
    BY <1>1, <2>1, <2>2, <2>4, PieceHistory
<1>4. CASE AppendLine
  <2>1. /\ file' = Append(file, Piece(Head(todo), "whole"))
        /\ run' = [run EXCEPT !.todo = Tail(todo)] /\ run.pc = "append"
    BY <1>4 DEF AppendLine
  <2>2. run'.todo = Tail(todo) /\ run'.pc = "append"
    BY <2>1
  <2>3. Ends(file, file', Piece(Head(todo), "whole"))
    BY <2>1 DEF Ends
  <2>4. QED
    BY <1>3, <2>2, <2>3
<1>5. CASE AppendTail
  <2>1. /\ file' = [file EXCEPT ![Len(file)] = Piece(Head(todo), "whole")]
        /\ run' = [todo |-> Tail(todo), pc |-> "append"] /\ run.pc = "half"
    BY <1>5 DEF AppendTail
  <2>2. Len(file) > 0 /\ file[Len(file)].part = "head"
    BY <1>1, <2>1 DEF HistoryInv, WritingInv
  <2>3. Ends(file, file', Piece(Head(todo), "whole"))
    BY <2>1, <2>2 DEF Ends
  <2>4. QED
    BY <1>3, <2>1, <2>3
<1>6. CASE AppendHead
  <2> DEFINE p == Piece(Head(todo), "head")
  <2>1. p \in Pieces /\ p.run = n /\ p.part = "head"
    BY <1>1, <1>2, PieceTyped
  <2>2. file' = Append(file, p) /\ run'.todo = todo /\ run'.pc = "half"
    BY <1>6 DEF AppendHead
  <2> HIDE DEF p
  <2>3. Ends(file, file', p)
    BY <2>2 DEF Ends
  <2>4. Remains(file', n, S, todo)
    BY <1>1, <2>1, <2>3, OtherPiece DEF Remains
  <2>5. Len(file') > 0 /\ file'[Len(file')].part = "head"
    BY <1>1, <2>1, <2>2
  <2>6. WritingInv'
    BY <1>1, <1>2, <2>2, <2>4, <2>5 DEF WritingInv
  <2>7. QED
    BY <1>1, <2>1, <2>3, <2>6, PieceHistory
<1>7. QED
  BY <1>4, <1>5, <1>6

LEMMA RenderHistory ==
  ASSUME PublishedInv, HistoryInv, Render
  PROVE  HistoryInv'
<1> DEFINE n == Len(ran)
<1>1. /\ run # None /\ run.todo = <<>> /\ UNCHANGED <<ran, file, row, snap>>
      /\ artifact' = [artifact EXCEPT ![ran[n].id] = n]
      /\ run'.todo = run.todo /\ run'.pc = "row"
  BY DEF Render
<1>2. n \in Runs /\ ran[n].id \in Ids
  <2>1. n \in Runs /\ ran[n] \in Past
    BY <1>1 DEF PublishedInv, Runs
  <2>2. QED
    BY <2>1 DEF Past
<1>3. WritingInv'
  BY <1>1 DEF HistoryInv, WritingInv
<1>4. Listed' = Listed
  BY <1>1, ListedSame
<1>5. /\ artifact' \in [Ids -> Runs \cup {None}]
      /\ \A i \in Ids : artifact'[i] # None => ran[artifact'[i]].id = i
  BY <1>1, <1>2 DEF HistoryInv
<1>6. QED
  BY <1>1, <1>3, <1>4, <1>5 DEF HistoryInv, Runs

\* add_report: the row is made when all lines are written.
LEMMA AddReportHistory ==
  ASSUME PublishedInv, HistoryInv, add_report
  PROVE  HistoryInv'
<1> DEFINE n == Len(ran)
           i == ran[n].id
           x == [owner |-> ran[n].owner, run |-> n,
                 visibility |-> IF row[i] = None THEN "private" ELSE row[i].visibility]
<1>1. /\ run # None /\ run.pc = "row" /\ run' = None
      /\ UNCHANGED <<ran, file, artifact, snap>>
      /\ row' = [row EXCEPT ![i] = x]
  BY DEF add_report
<1>2. i \in Ids
  <2>1. ran[n] \in Past
    BY <1>1 DEF PublishedInv
  <2>2. QED
    BY <2>1 DEF Past
<1>3. /\ x.run = n
      /\ row'[i] = x /\ \A j \in Ids : j # i => row'[j] = row[j]
  BY <1>1, <1>2 DEF PublishedInv, Tables
<1> HIDE DEF x
<1>4. Listed' \subseteq Listed \cup {n}
  BY <1>1, <1>3 DEF Listed
<1>5. Complete(file, n, ran[n].checks)
  BY <1>1, NothingRemains DEF HistoryInv, WritingInv
<1>6. WritingInv'
  BY <1>1 DEF WritingInv
<1>7. QED
  BY <1>1, <1>4, <1>5, <1>6 DEF HistoryInv, Runs

LEMMA HistoryStep ==
  ASSUME PublishedInv, HistoryInv, [Next]_vars
  PROVE  HistoryInv'
<1>1. CASE AccountStep /\ UNCHANGED <<run, ran, file, artifact, row, snap, published>>
  BY <1>1, HistoryFrame, ListedSame
<1>2. ASSUME NEW t \in Tokens, NEW i \in Ids, NEW outcome \in Outcomes, EndRun(t, i, outcome)
      PROVE  HistoryInv'
  BY <1>2, EndRunHistory
<1>3. CASE AppendLine \/ AppendHead \/ AppendTail
  BY <1>3, WritingHistory
<1>4. CASE Render
  BY <1>4, RenderHistory
<1>5. CASE RenderFails \/ add_report_fails
  BY <1>5, HistoryFrame, ListedSame DEF RenderFails, add_report_fails
<1>6. CASE add_report
  BY <1>6, AddReportHistory
<1>7. ASSUME NEW i \in Ids, NEW t \in Tokens, NEW v \in {"private", "public"},
             set_report_visibility(i, t, v)
      PROVE  HistoryInv'
  <2>1. /\ row[i] # None /\ UNCHANGED <<run, ran, file, artifact, snap>>
        /\ row' = [row EXCEPT ![i].visibility = v]
    BY <1>7 DEF set_report_visibility, MayChange
  <2>2. row[i] \in Row
    BY <2>1 DEF PublishedInv, Tables
  <2>3. row'[i].run = row[i].run /\ \A j \in Ids : j # i => row'[j] = row[j]
    BY <2>1, <2>2 DEF PublishedInv, Tables, Row
  <2>4. Listed' \subseteq Listed
    BY <2>1, <2>3 DEF Listed
  <2>5. QED
    BY <2>1, <2>4, HistoryFrame
<1>8. ASSUME NEW i \in Ids, NEW t \in Tokens, delete_report(i, t)
      PROVE  HistoryInv'
  <2>1. /\ UNCHANGED <<run, ran, file, artifact, snap>>
        /\ row'[i] = None /\ \A j \in Ids : j # i => row'[j] = row[j]
    BY <1>8 DEF delete_report, PublishedInv, Tables
  <2>2. Listed' \subseteq Listed
    BY <2>1 DEF Listed
  <2>3. QED
    BY <2>1, <2>2, HistoryFrame
<1>9. ASSUME NEW t \in Tokens, backup(t) \/ restore(t)
      PROVE  HistoryInv'
  <2>1. UNCHANGED <<run, ran, file, artifact>>
    BY <1>9 DEF backup, restore, Restored
  <2>2. \/ row' = row /\ snap'.row = row
        \/ row' = snap.row /\ snap' = snap /\ snap # None
    BY <1>9 DEF backup, restore, Restored
  <2>3. Listed' \subseteq Listed
    BY <2>2 DEF Listed
  <2>4. QED
    BY <2>1, <2>3, HistoryFrame
<1>10. ASSUME NEW t \in Tokens, NEW store \in Uploads, restore_upload(t, store)
       PROVE  HistoryInv'
  <2>1. UNCHANGED <<run, ran, file, artifact, snap>> /\ row' = store.row
    BY <1>10 DEF restore_upload, Restored
  <2>2. \A i \in Ids : row'[i] # None => row'[i].run = 0
    BY <2>1, ReportsAssumption DEF Foreign
  <2>3. Listed' \subseteq Listed
    BY <2>1, <2>2 DEF Listed
  <2>4. QED
    BY <2>1, <2>3, HistoryFrame
<1>11. CASE Restart
  BY <1>11, HistoryFrame, ListedSame DEF Restart
<1>12. CASE UNCHANGED vars
  BY <1>12, HistoryFrame, ListedSame DEF vars
<1>13. QED
  BY <1>1, <1>2, <1>3, <1>4, <1>5, <1>6, <1>7, <1>8, <1>9, <1>10, <1>11, <1>12 DEF Next

LEMMA HistoryInitially == Init => HistoryInv
<1> SUFFICES ASSUME Init PROVE HistoryInv
  OBVIOUS
<1>1. Listed = {}
  BY DEF Init, Listed
<1>2. QED
  BY <1>1 DEF Init, HistoryInv, WritingInv, Runs

\* The lines of a complete run are as many as its records.
LEMMA OneLineEach ==
  ASSUME NEW f \in Seq(Pieces), NEW n, NEW S, Complete(f, n, S)
  PROVE  Cardinality(Lines(f, n)) = Cardinality(S)
<1> DEFINE L == Lines(f, n)
           g == [k \in L |-> f[k].check]
<1>1. Len(f) \in Nat /\ L \subseteq 1 .. Len(f)
  BY DEF Lines
<1>2. IsFiniteSet(L)
  <2>1. IsFiniteSet(1 .. Len(f))
    BY <1>1, FS_Interval
  <2>2. QED
    BY <1>1, <2>1, FS_Subset
<1>3. g \in [L -> S] /\ \A s \in S : \E k \in L : g[k] = s
  BY DEF Complete, Shown
<1>4. \A j, k \in L : g[j] = g[k] => j = k
  BY DEF Complete, Distinct
<1> HIDE DEF g, L
<1>5. g \in Bijection(L, S)
  BY <1>3, <1>4 DEF Bijection, Injection, Surjection, IsInjective
<1>6. QED
  BY <1>2, <1>5, FS_Bijection DEF ExistsBijection, L

LEMMA HistoryIsComplete ==
  ASSUME PublishedInv, HistoryInv
  PROVE  ReportIsComplete
<1> SUFFICES ASSUME NEW i \in Ids, row[i] # None, row[i].run # 0, Once(i)
             PROVE  LET n == row[i].run IN
                    /\ report_get(i) = RecordsOf(n)
                    /\ Cardinality(_records_of(i)) = Cardinality(ran[n].checks)
                    /\ report_export(i) = _requirement_blocks(RecordsOf(n), ran[n].tests)
  BY DEF ReportIsComplete
<1> DEFINE n == row[i].run
<1>1. n \in Runs /\ ran[n].id = i
  BY DEF PublishedInv, Honest
<1>2. n \in Listed
  BY <1>1 DEF Listed, Runs
<1>3. Complete(file, n, ran[n].checks)
  BY <1>2 DEF HistoryInv
<1>4. report_export(i) = IF artifact[i] # None
        THEN _requirement_blocks(RecordsOf(artifact[i]), ran[artifact[i]].tests)
        ELSE _requirement_blocks(report_get(i), ran[n].tests)
  BY DEF report_export
<1> HIDE DEF n
<1>5. \A m \in Runs : ran[m].id = i <=> m = n
  BY <1>1 DEF Once
<1>6. _records_of(i) = Lines(file, n)
  BY <1>5 DEF _records_of, Lines, HistoryInv
<1>7. report_get(i) = RecordsOf(n)
  <2>1. report_get(i) = {[run |-> n, check |-> file[k].check] : k \in Lines(file, n)}
    BY <1>6 DEF report_get, Lines
  <2>2. QED
    BY <1>3, <2>1 DEF RecordsOf, Complete, Shown
<1>8. artifact[i] # None => artifact[i] = n
  BY <1>5 DEF HistoryInv
<1>9. report_export(i) = _requirement_blocks(RecordsOf(n), ran[n].tests)
  BY <1>4, <1>7, <1>8
<1>10. Cardinality(_records_of(i)) = Cardinality(ran[n].checks)
  BY <1>3, <1>6, OneLineEach DEF HistoryInv
<1>11. QED
  BY <1>7, <1>9, <1>10 DEF n

\* A report of a run of this server shows each record of the run once and no other run's, on
\* its page and exported as JSON, and as md or html those of each requirement's tests, so
\* long as the history can be read and the id was not given twice: failures while it is
\* written up, crashes, deletions and restores of any store take nothing from it.
THEOREM ReportsAreComplete == Spec => []ReportIsComplete
<1>1. Spec => []AdminInv
  BY AdminInitially, AdminStep, PTL DEF Spec
<1>2. Spec => []PublishedInv
  BY <1>1, PublishedInitially, PublishedStep, PTL DEF Spec
<1>3. Spec => []HistoryInv
  BY <1>2, HistoryInitially, HistoryStep, PTL DEF Spec
<1>4. PublishedInv /\ HistoryInv => ReportIsComplete
  BY HistoryIsComplete
<1>5. QED
  BY <1>2, <1>3, <1>4, PTL

-----------------------------------------------------------------------------
(* Types *)

\* Users, logins, requests, rows and files are well typed, after any restart or restore.
THEOREM ReportsAreTyped == Spec => []TypeOK
<1>1. Spec => []AdminInv
  BY AdminInitially, AdminStep, PTL DEF Spec
<1>2. Spec => []PublishedInv
  BY <1>1, PublishedInitially, PublishedStep, PTL DEF Spec
<1>3. Spec => []HistoryInv
  BY <1>2, HistoryInitially, HistoryStep, PTL DEF Spec
<1>4. AdminInv /\ PublishedInv /\ HistoryInv => TypeOK
  BY DEF AdminInv, AdminTypes, Roles, PublishedInv, Tables, HistoryInv, TypeOK, AccountsTypeOK
<1>5. QED
  BY <1>1, <1>2, <1>3, <1>4, PTL
=============================================================================
