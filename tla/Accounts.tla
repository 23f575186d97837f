------------------------------ MODULE Accounts ------------------------------
(***************************************************************************)
(* The users of the application and their logins (store/repo.py, the       *)
(* tokens and the user endpoints of web/server.py).  Each repo method is a *)
(* critical section of its own; an endpoint reads the users in some, then  *)
(* writes in another, and several run at once.  Passwords are left out: a  *)
(* login is one that was accepted.                                         *)
(***************************************************************************)
EXTENDS Naturals, FiniteSets

CONSTANTS
  Users,     \* names, the built-in "admin" among them
  Tokens,    \* login tokens the server can have given out
  Handlers,  \* threads that serve a request to change or delete a user
  AdminName  \* whom ensure_admin makes the first admin: "admin", unless the settings of
             \* an early version name another
CONSTANT None

ASSUME UsersAssumption == IsFiniteSet(Users) /\ {"admin", AdminName} \subseteq Users

VARIABLES
  role,    \* app_user: name -> "none" for no row, "user" or "admin"
  tokens,  \* token -> None or who logged in, with the flag the user had then
  req,     \* handler -> None or the request it serves; stale, history, says that the
           \* users changed since it last looked at them
  raced    \* history: a request wrote what it had decided on a stale look, or the store
           \* of a server without admins was restored

accounts == <<role, tokens, req, raced>>

Known == {n \in Users : role[n] # "none"}
Admins == {n \in Users : role[n] = "admin"}
Logins == {t \in Tokens : tokens[t] # None}

\* _user_of
IsAdmin(t) == t \in Logins /\ tokens[t].is_admin

\* At every start, for a store without users.
ensure_admin(r) ==
  IF \A n \in Users : r[n] = "none" THEN [r EXCEPT ![AdminName] = "admin"] ELSE r

AccountsInit ==
  /\ role = ensure_admin([n \in Users |-> "none"])
  /\ tokens = [t \in Tokens |-> None]
  /\ req = [h \in Handlers |-> None]
  /\ raced = FALSE

Requests == [name : Users, to : {"none", "user", "admin"}, new : BOOLEAN,
             seen : {"", "none", "user", "admin"}, pc : {"read", "count", "write"},
             stale : BOOLEAN]

AccountsTypeOK ==
  /\ role \in [Users -> {"none", "user", "admin"}]
  /\ tokens \in [Tokens -> [username : Users, is_admin : BOOLEAN] \cup {None}]
  /\ req \in [Handlers -> Requests \cup {None}]
  /\ raced \in BOOLEAN

\* The token keeps a copy of the user's row.
admin_login(t, n) ==
  /\ t \notin Logins /\ n \in Known
  /\ tokens' = [tokens EXCEPT ![t] = [username |-> n, is_admin |-> role[n] = "admin"]]
  /\ UNCHANGED <<role, req, raced>>

Serve(h, n, to, new) ==
  req' = [req EXCEPT ![h] = [name |-> n, to |-> to, new |-> new, seen |-> "", pc |-> "read",
                             stale |-> FALSE]]

\* users_upsert: new when the request brings a password.
users_upsert(h, t, n, to, new) ==
  /\ req[h] = None /\ IsAdmin(t)
  /\ n = "admin" => to = "admin"
  /\ Serve(h, n, to, new)
  /\ UNCHANGED <<role, tokens, raced>>

users_delete(h, t, n) ==
  /\ req[h] = None /\ IsAdmin(t)
  /\ n # "admin" /\ n # tokens[t].username
  /\ Serve(h, n, "none", FALSE)
  /\ UNCHANGED <<role, tokens, raced>>

Answer(h) == req' = [req EXCEPT ![h] = None]

LooksAgain(h, seen, pc) ==
  req' = [req EXCEPT ![h] = [@ EXCEPT !.seen = seen, !.pc = pc, !.stale = FALSE]]

\* What the requests in progress have looked at is no longer so.
Overtaken(others) ==
  [h \in Handlers |-> IF h \in others /\ req[h] # None THEN [req[h] EXCEPT !.stale = TRUE]
                                                       ELSE req[h]]

\* list_users: a user that is not there needs a password.
ReadTarget(h) ==
  /\ req[h] # None /\ req[h].pc = "read"
  /\ LET r == req[h] seen == role[r.name] IN
     IF seen = "none" /\ r.to # "none" /\ ~r.new THEN Answer(h)
     ELSE LooksAgain(h, seen, IF seen = "admin" /\ r.to # "admin" THEN "count" ELSE "write")
  /\ UNCHANGED <<role, tokens, raced>>

\* Mutant: the last admin may go.
CountAdminsInVain(h) ==
  /\ req[h] # None /\ req[h].pc = "count"
  /\ LooksAgain(h, req[h].seen, "write")
  /\ UNCHANGED <<role, tokens, raced>>

\* admin_count, by itself: the last admin is neither demoted nor deleted.
CountAdmins(h) ==
  /\ req[h] # None /\ req[h].pc = "count"
  /\ IF Cardinality(Admins) <= 1 THEN Answer(h) ELSE LooksAgain(h, req[h].seen, "write")
  /\ UNCHANGED <<role, tokens, raced>>

\* upsert_user, delete_user: nobody's login is touched.
WriteUser(h) ==
  /\ req[h] # None /\ req[h].pc = "write"
  /\ role' = [role EXCEPT ![req[h].name] = req[h].to]
  /\ req' = [Overtaken(Handlers \ {h}) EXCEPT ![h] = None]
  /\ raced' = (raced \/ req[h].stale)
  /\ UNCHANGED tokens

\* The users of another store take their place.
RestoreUsers(users) ==
  /\ role' = users
  /\ req' = Overtaken(Handlers)
  /\ raced' = (raced \/ \A n \in Users : users[n] # "admin")
  /\ UNCHANGED tokens

RestartAccounts ==
  /\ role' = ensure_admin(role)
  /\ tokens' = [t \in Tokens |-> None]
  /\ req' = [h \in Handlers |-> None]
  /\ UNCHANGED raced

AccountStep ==
  \/ \E t \in Tokens, n \in Users : admin_login(t, n)
  \/ \E h \in Handlers, t \in Tokens, n \in Users :
       \/ \E to \in {"user", "admin"}, new \in BOOLEAN : users_upsert(h, t, n, to, new)
       \/ users_delete(h, t, n)
  \/ \E h \in Handlers : ReadTarget(h) \/ CountAdmins(h) \/ WriteUser(h)

-----------------------------------------------------------------------------

\* Somebody can administer the store, whoever the first admin was and whatever is demoted,
\* deleted, restored and started again, unless a request has gone by a count that another
\* change had overtaken (server.py:779 "never leave the store with zero admins"), or the
\* store of a server without admins was restored.
AdminRemains == ~raced => Admins # {}

=============================================================================
