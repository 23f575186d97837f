----------------------------- MODULE CheckSources -----------------------------
(***************************************************************************)
(* Where the server's checks and requirement catalogs come from: the       *)
(* check_source rows of the store (store/repo.py), the directories they    *)
(* are synced to, and the reload that swaps REGISTRY under the running     *)
(* server (core/checks.py and the check-source handlers of web/server.py). *)
(*                                                                         *)
(* A directory of checks is in a version; a version says which automated   *)
(* checks (.py, one per module), manual tests (.md) and requirement        *)
(* catalogs it has.  A git source is cloned under the server's checkout    *)
(* base; a path source is the user's own directory.                        *)
(*                                                                         *)
(* store_tx is the transaction a failed save left open on the connection   *)
(* of the server (ConfigStore): until the next commit no other connection  *)
(* can open the store, source_paths swallows that error, and there are no  *)
(* sources.                                                                *)
(***************************************************************************)
EXTENDS FiniteSets

CONSTANTS
  Names,        \* names of check sources
  UrlKind,      \* name -> what its url is, "git" for a repository, "path" for a directory
  Ids,          \* checks, by id
  Frameworks,   \* requirement catalogs
  Versions,     \* name -> the versions its directory of checks goes through
  Automated, Manual, Catalogs,  \* version -> the ids and frameworks in it
  Broken,       \* version -> the automated checks that do not load
  Handlers,     \* requests of administrators in progress, and the start-up
  None

AllVersions == UNION {Versions[s] : s \in Names}

ASSUME CheckSourcesAssumption ==
  /\ \A v \in AllVersions : /\ Automated[v] \subseteq Ids /\ Manual[v] \subseteq Ids
                            /\ Broken[v] \subseteq Automated[v]
                            /\ Catalogs[v] \subseteq Frameworks
  /\ None \notin AllVersions
  /\ UrlKind \in [Names -> {"git", "path"}]
  /\ None \notin [ok : BOOLEAN, checkout : {"none", "clone", "own"}]
  /\ None \notin [how : {"auto", "manual"}, src : Names, ver : AllVersions]

VARIABLES
  row,       \* name -> its row in check_source, or None
  origin,    \* name -> the version of what its url names, the git repository or the
             \*   user's directory, or None
  clone,     \* name -> the version under the checkout base, or None
  REGISTRY,  \* id -> the check registered under it, or None
  modules,   \* the checks whose module is in sys.modules
  syspath,   \* the sources discover has put on sys.path
  md_ids,    \* _MD_IDS
  catalog,   \* framework -> the version it was imported from, "user" or None
  store_tx,  \* a failed save left its transaction open
  up,        \* the server answers requests
  job,       \* handler -> what it is doing
  rekinded   \* history: the names that were ever given a kind that is not their url's

files == <<origin, clone>>
loaded == <<REGISTRY, modules, syspath, md_ids>>
vars == <<row, files, loaded, catalog, store_tx, up, job, rekinded>>

\* calm: nobody else has done anything since the handler began.
Idle == [pc |-> "idle", op |-> "none", name |-> None, todo |-> {}, got |-> None, calm |-> FALSE]

\* ok: last_status is "ok".
Row == [kind : {"git", "path"}, enabled : BOOLEAN, checkout : {"none", "clone", "own"}, ok : BOOLEAN]

NewRow(kind) == [kind |-> kind, enabled |-> TRUE, checkout |-> "none", ok |-> FALSE]

Init ==
  /\ row = [s \in Names |-> None]
  /\ origin \in [Names -> AllVersions \cup {None}]
  /\ \A s \in Names : origin[s] \in Versions[s] \/ (origin[s] = None /\ UrlKind[s] = "path")
  /\ clone = [s \in Names |-> None]
  /\ REGISTRY = [i \in Ids |-> None]
  /\ modules = {} /\ syspath = {} /\ md_ids = {}
  /\ catalog = [f \in Frameworks |-> None]
  /\ store_tx = FALSE /\ up = TRUE /\ rekinded = {}
  /\ job = [h \in Handlers |-> Idle]

-----------------------------------------------------------------------------
(* What the sources are *)

\* The directory of a source: the checkout recorded for it, or base/name when none is.
Dir(s) == <<s, IF row[s].checkout = "own" THEN "own" ELSE "clone">>
VersionIn(d) == IF d[2] = "own" THEN origin[d[1]] ELSE clone[d[1]]

Provided == {d \in {Dir(s) : s \in {s \in Names : row[s] # None /\ row[s].enabled}} :
               VersionIn(d) # None}

source_paths == IF store_tx THEN {} ELSE Provided

\* What the directories in D register for id i, from its .py or its .md file.
Entries(how, has, D, i) ==
  {[how |-> how, src |-> d[1], ver |-> VersionIn(d)] :
     d \in {d \in D : VersionIn(d) # None /\ i \in has[VersionIn(d)]}}
AutoIn(D, i) == Entries("auto", Automated, D, i)
ManualIn(D, i) == Entries("manual", Manual, D, i)

CatalogIn(D, f) == {VersionIn(d) : d \in {d \in D : f \in Catalogs[VersionIn(d)]}}

\* _framework_sources: the catalogs the live sources provide.
Live(D) == {f \in Frameworks : CatalogIn(D, f) # {}}

\* h goes on as r; what it does disturbs whoever else is in the middle of something.
Goes(h, r) == job' = [g \in Handlers |-> IF g = h THEN r ELSE [job[g] EXCEPT !.calm = FALSE]]
GoesTo(h, pc) == Goes(h, [job[h] EXCEPT !.pc = pc])
Disturb == job' = [g \in Handlers |-> [job[g] EXCEPT !.calm = FALSE]]

At(h, pc) == job[h].pc = pc

-----------------------------------------------------------------------------
(* Sync, unsync, delete: what precedes the reload *)

\* list_check_sources, read once: a sync goes by the rows as they were then.
Sources == {[name |-> s, kind |-> row[s].kind, enabled |-> row[s].enabled] :
              s \in {s \in Names : row[s] # None}}

\* A request of an administrator; the server's own start-up begins with Restart.
Begin(h, op, s) ==
  /\ up /\ At(h, "idle")
  /\ Goes(h, [Idle EXCEPT !.pc = op, !.op = op, !.name = s, !.calm = TRUE,
                          !.todo = IF op = "sync" THEN Sources ELSE {}])
  /\ UNCHANGED <<row, files, loaded, catalog, store_tx, up>>

\* One source of sync_sources: the directory is looked at, or git run.  A fetch
\* or a clone that fails leaves the clone as it is.
SyncFetch(h, src) ==
  LET s == src.name
      Results(ok, co) == Goes(h, [job[h] EXCEPT !.name = s, !.todo = @ \ {src},
                                                !.got = [ok |-> ok, checkout |-> co]])
  IN
  /\ At(h, "sync") /\ src \in job[h].todo /\ job[h].got = None
  /\ \/ /\ ~src.enabled
        /\ Results(FALSE, "none")
        /\ UNCHANGED clone
     \/ /\ src.enabled /\ src.kind = "path"
        /\ IF UrlKind[s] = "path" /\ origin[s] # None
             THEN Results(TRUE, "own") ELSE Results(FALSE, "none")
        /\ UNCHANGED clone
     \/ /\ src.enabled /\ src.kind = "git"
        /\ \/ /\ origin[s] # None
              /\ Results(TRUE, "clone")
              /\ clone' = [clone EXCEPT ![s] = origin[s]]
           \/ Results(FALSE, "none") /\ UNCHANGED clone
  /\ UNCHANGED <<row, origin, loaded, catalog, store_tx, up>>

\* set_check_source_status: no checkout given keeps the one recorded.
set_check_source_status(s, ok, co) ==
  row' = IF row[s] = None THEN row
         ELSE [row EXCEPT ![s].ok = ok,
                          ![s].checkout = IF co = "none" THEN @ ELSE co]

SyncRecord(h) ==
  /\ At(h, "sync") /\ job[h].got # None
  /\ set_check_source_status(job[h].name, job[h].got.ok, job[h].got.checkout)
  /\ store_tx' = FALSE
  /\ Goes(h, [job[h] EXCEPT !.got = None, !.name = None])
  /\ UNCHANGED <<files, loaded, catalog, up>>

Reloads(h) == Goes(h, [job[h] EXCEPT !.pc = "drop", !.op = "reload", !.name = None, !.got = None])

\* The request goes on to reload_upstream; at start-up to discover alone.
SyncDone(h) ==
  /\ At(h, "sync") /\ job[h].todo = {} /\ job[h].got = None
  /\ IF job[h].op = "reboot" THEN GoesTo(h, "paths") ELSE Reloads(h)
  /\ UNCHANGED <<row, files, loaded, catalog, store_tx, up>>

\* Mutant: what to remove is decided by where the checks are, not by the kind.
clear_check_source_syncAnyKind(s) ==
  IF row[s] = None THEN "none" ELSE row[s].checkout

\* clear_check_source_sync: the directory to remove, one the server cloned.
clear_check_source_sync(s) ==
  IF row[s] = None \/ row[s].kind # "git" THEN "none" ELSE row[s].checkout

Unlink(h) ==
  LET s == job[h].name IN
  /\ At(h, "unsync") \/ At(h, "delete")
  /\ row' = IF row[s] = None THEN row ELSE [row EXCEPT ![s].ok = FALSE, ![s].checkout = "none"]
  /\ store_tx' = FALSE
  /\ Goes(h, [job[h] EXCEPT !.pc = "rmtree", !.got = clear_check_source_sync(s)])
  /\ UNCHANGED <<files, loaded, catalog, up>>

Rmtree(h) ==
  LET s == job[h].name IN
  /\ At(h, "rmtree")
  /\ clone' = IF job[h].got = "clone" THEN [clone EXCEPT ![s] = None] ELSE clone
  /\ origin' = IF job[h].got = "own" THEN [origin EXCEPT ![s] = None] ELSE origin
  /\ IF job[h].op = "delete" THEN GoesTo(h, "forget") ELSE Reloads(h)
  /\ UNCHANGED <<row, loaded, catalog, store_tx, up>>

DeleteRow(h) ==
  /\ At(h, "forget")
  /\ row' = [row EXCEPT ![job[h].name] = None]
  /\ store_tx' = FALSE
  /\ Reloads(h)
  /\ UNCHANGED <<files, loaded, catalog, up>>

-----------------------------------------------------------------------------
(* reload_upstream and discover *)

\* The request fails with status 500; a start-up goes on without it, or, when it
\* is the discovery at import, the server does not come up.
Fails(h) ==
  /\ Goes(h, Idle)
  /\ up' = (up \/ job[h].op = "reboot")

\* The entries of automated checks are dropped; those of manual tests stay.
DropAuto(h) ==
  /\ At(h, "drop")
  /\ REGISTRY' = [i \in Ids |-> IF REGISTRY[i] # None /\ REGISTRY[i].how = "auto"
                                  THEN None ELSE REGISTRY[i]]
  /\ GoesTo(h, "list")
  /\ UNCHANGED <<row, files, modules, syspath, md_ids, catalog, store_tx, up>>

ListModules(h) ==
  /\ At(h, "list")
  /\ Goes(h, [job[h] EXCEPT !.pc = "purge", !.todo = modules])
  /\ UNCHANGED <<row, files, loaded, catalog, store_tx, up>>

\* Mutant: the modules are not taken out of sys.modules.
PurgeNothing(h) ==
  /\ At(h, "purge")
  /\ Goes(h, [job[h] EXCEPT !.pc = "paths", !.todo = {}])
  /\ UNCHANGED <<row, files, loaded, catalog, store_tx, up>>

\* del sys.modules[name] fails on a module another reload has purged meanwhile.
Purge(h) ==
  /\ At(h, "purge")
  /\ modules' = modules \ job[h].todo
  /\ \/ /\ job[h].todo \subseteq modules
        /\ Goes(h, [job[h] EXCEPT !.pc = "paths", !.todo = {}])
        /\ UNCHANGED up
     \/ /\ ~(job[h].todo \subseteq modules)
        /\ Fails(h)
  /\ UNCHANGED <<row, files, REGISTRY, syspath, md_ids, catalog, store_tx>>

\* discover: the sources replace the last ones on sys.path, and every automated
\* check they have is to be imported.
SetPaths(h) ==
  /\ At(h, "paths")
  /\ syspath' = source_paths
  /\ Goes(h, [job[h] EXCEPT !.pc = "import",
                            !.todo = {i \in Ids : AutoIn(source_paths, i) # {}}])
  /\ UNCHANGED <<row, files, REGISTRY, modules, md_ids, catalog, store_tx, up>>

\* A module that fails has registered its check by then, or not.
LeftBy(failing, i) ==
  \/ UNCHANGED REGISTRY
  \/ REGISTRY[i] = None /\ \E e \in failing : REGISTRY' = [REGISTRY EXCEPT ![i] = e]

\* One module.  An imported one is left as it is.  One that has gone is not
\* listed any more, or fails; one that does not load, or whose id is taken, fails.
ImportOne(h, i) ==
  /\ At(h, "import") /\ i \in job[h].todo
  /\ LET next == Goes(h, [job[h] EXCEPT !.todo = @ \ {i}])
         has == AutoIn(syspath, i)
         loads == {e \in has : i \notin Broken[e.ver]}
     IN
     \/ /\ i \in modules \/ has = {}
        /\ next
        /\ UNCHANGED <<REGISTRY, modules, up>>
     \/ /\ i \notin modules
        /\ has = {} \/ has # loads \/ REGISTRY[i] # None
        /\ Fails(h) /\ LeftBy(has \ loads, i)
        /\ UNCHANGED modules
     \/ /\ i \notin modules /\ REGISTRY[i] = None
        /\ \E e \in loads : REGISTRY' = [REGISTRY EXCEPT ![i] = e]
        /\ modules' = modules \cup {i}
        /\ next
        /\ UNCHANGED up
  /\ UNCHANGED <<row, files, syspath, md_ids, catalog, store_tx>>

\* _discover_md: the last manual tests go, those of the sources are entered over
\* whatever has their id.
Md(D, ids) ==
  [i \in Ids |-> IF ManualIn(D, i) # {} THEN CHOOSE e \in ManualIn(D, i) : TRUE
                 ELSE IF i \in ids THEN None ELSE REGISTRY[i]]

\* A manual edit ends here, the rest goes on to the requirements; the discovery
\* at import goes on to serve, which syncs when there are sources.
DiscoverMd(h) ==
  /\ At(h, "import") /\ job[h].todo = {}
  /\ REGISTRY' = Md(source_paths, md_ids)
  /\ md_ids' = {i \in Ids : ManualIn(source_paths, i) # {}}
  /\ GoesTo(h, "loaded")
  /\ UNCHANGED <<row, files, modules, syspath, catalog, store_tx, up>>

AfterLoad(h) ==
  /\ At(h, "loaded")
  /\ CASE job[h].op = "save" -> Goes(h, Idle)
       [] job[h].op = "boot" /\ Sources # {} ->
            Goes(h, [job[h] EXCEPT !.pc = "sync", !.op = "reboot", !.todo = Sources])
       [] OTHER -> Goes(h, [job[h] EXCEPT !.pc = "live",
                                          !.op = IF @ = "boot" THEN "reboot" ELSE @])
  /\ UNCHANGED <<row, files, loaded, catalog, store_tx, up>>

-----------------------------------------------------------------------------
(* _reload_requirements *)

\* Mutant: what no source provides any more is kept.
PurgeNoCatalog(h) ==
  /\ At(h, "live")
  /\ GoesTo(h, "catalogs")
  /\ UNCHANGED <<row, files, loaded, catalog, store_tx, up>>

\* Each catalog of no live source is deleted, with a commit of its own.
PurgeCatalogs(h) ==
  LET dead == {f \in Frameworks : catalog[f] # None} \ Live(source_paths) IN
  /\ At(h, "live")
  /\ catalog' = [f \in Frameworks |-> IF f \in dead THEN None ELSE catalog[f]]
  /\ store_tx' = (store_tx /\ dead = {})
  /\ GoesTo(h, "catalogs")
  /\ UNCHANGED <<row, files, loaded, up>>

\* The sources are looked up again, and each of their catalogs is imported.
ImportCatalogs(h) ==
  LET live == Live(source_paths) IN
  /\ At(h, "catalogs")
  /\ \E new \in [live -> AllVersions] :
       /\ \A f \in live : new[f] \in CatalogIn(source_paths, f)
       /\ catalog' = [f \in Frameworks |-> IF f \in live THEN new[f] ELSE catalog[f]]
  /\ store_tx' = (store_tx /\ live = {})
  /\ GoesTo(h, "done")
  /\ UNCHANGED <<row, files, loaded, up>>

Reply(h) ==
  /\ At(h, "done")
  /\ Goes(h, Idle)
  /\ up' = TRUE
  /\ UNCHANGED <<row, files, loaded, catalog, store_tx>>

-----------------------------------------------------------------------------
(* A check edited in the browser *)

\* _editable_path: not when the file is in a checkout git has synced.
Editable(s) == row[s] # None /\ row[s].ok /\ row[s].checkout # "none" => row[s].kind = "path"

\* A manual test: the file is written and everything is reloaded, without a look at the
\* store before.
MdSave(h, i) ==
  /\ up /\ At(h, "idle")
  /\ REGISTRY[i] # None /\ REGISTRY[i].how = "manual" /\ Editable(REGISTRY[i].src)
  /\ Goes(h, [Idle EXCEPT !.pc = "drop", !.op = "save", !.calm = TRUE])
  /\ UNCHANGED <<row, files, loaded, catalog, store_tx, up>>

\* The versions that differ from v in the code of check i at most.
Edits(i, v) ==
  {w \in AllVersions : /\ Automated[w] = Automated[v] /\ Manual[w] = Manual[v]
                       /\ Catalogs[w] = Catalogs[v]
                       /\ Broken[w] \ {i} = Broken[v] \ {i}}

Write(d, w) ==
  /\ origin' = IF d[2] = "own" THEN [origin EXCEPT ![d[1]] = w] ELSE origin
  /\ clone' = IF d[2] = "clone" THEN [clone EXCEPT ![d[1]] = w] ELSE clone

\* An automated one, where its module was loaded from: the file is written, then loaded.
AutoSave(h, i, d) ==
  LET v == VersionIn(d) IN
  /\ up /\ At(h, "idle")
  /\ REGISTRY[i] # None /\ REGISTRY[i].how = "auto" /\ REGISTRY[i].src = d[1] /\ Editable(d[1])
  /\ i \in modules /\ v # None /\ i \in Automated[v]
  /\ \E w \in Edits(i, v) :
       /\ Write(d, w)
       /\ Goes(h, [Idle EXCEPT !.pc = "pop", !.op = "edit", !.name = i, !.calm = TRUE,
                               !.got = [dir |-> d, old |-> v, new |-> w]])
  /\ UNCHANGED <<row, loaded, catalog, store_tx, up>>

\* _reload: what the module had registered goes, then it is loaded again.
Pop(h) ==
  LET i == job[h].name IN
  /\ At(h, "pop")
  /\ REGISTRY' = IF REGISTRY[i] # None /\ REGISTRY[i].how = "auto"
                   THEN [REGISTRY EXCEPT ![i] = None] ELSE REGISTRY
  /\ GoesTo(h, "exec")
  /\ UNCHANGED <<row, files, modules, syspath, md_ids, catalog, store_tx, up>>

Exec(h) ==
  LET i == job[h].name
      has == AutoIn(syspath, i)
      loads == {e \in has : i \notin Broken[e.ver]}
  IN
  /\ At(h, "exec")
  /\ \/ /\ REGISTRY[i] = None
        /\ \E e \in loads : REGISTRY' = [REGISTRY EXCEPT ![i] = e]
        /\ modules' = modules \cup {i}
        /\ GoesTo(h, "edited")
     \/ /\ has = {} \/ has # loads \/ REGISTRY[i] # None
        /\ LeftBy(has \ loads, i)
        /\ GoesTo(h, IF job[h].op = "edit" THEN "rollback" ELSE "edited")
        /\ UNCHANGED modules
  /\ UNCHANGED <<row, files, syspath, md_ids, catalog, store_tx, up>>

\* Mutant: the old source is written back and not loaded again.
RollbackFileOnly(h) ==
  LET e == job[h].got IN
  /\ At(h, "rollback")
  /\ Write(e.dir, e.old)
  /\ GoesTo(h, "edited")
  /\ UNCHANGED <<row, loaded, catalog, store_tx, up>>

\* It did not load: the old source is written back, into whatever version is there now,
\* and loaded again.
Rollback(h) ==
  LET e == job[h].got
      v == VersionIn(e.dir)
      i == job[h].name
      Back == {w \in Edits(i, v) : i \in Broken[w] <=> i \in Broken[e.old]}
  IN
  /\ At(h, "rollback")
  /\ \/ /\ v = None
        /\ GoesTo(h, "edited") /\ UNCHANGED files
     \/ /\ v # None
        /\ \E w \in IF v = e.new THEN {e.old} ELSE Back \cup {v} : Write(e.dir, w)
        /\ Goes(h, [job[h] EXCEPT !.pc = "pop", !.op = "undo"])
  /\ UNCHANGED <<row, loaded, catalog, store_tx, up>>

Edited(h) ==
  /\ At(h, "edited")
  /\ Goes(h, Idle)
  /\ UNCHANGED <<row, files, loaded, catalog, store_tx, up>>

-----------------------------------------------------------------------------
(* The rest of the world *)

\* A source is registered or edited; what is known of its last sync stays.
UpsertSource(s, kind, enabled) ==
  /\ up
  /\ row' = IF row[s] = None THEN [row EXCEPT ![s] = [NewRow(kind) EXCEPT !.enabled = enabled]]
            ELSE [row EXCEPT ![s].kind = kind, ![s].enabled = enabled]
  /\ row' # row
  /\ rekinded' = IF kind = UrlKind[s] THEN rekinded ELSE rekinded \cup {s}
  /\ store_tx' = FALSE /\ Disturb
  /\ UNCHANGED <<files, loaded, catalog, up>>

\* A catalog is created, edited or deleted by hand.
EditCatalog(f) ==
  /\ up
  /\ \E c \in {"user", None} \ {catalog[f]} : catalog' = [catalog EXCEPT ![f] = c]
  /\ store_tx' = FALSE /\ Disturb
  /\ UNCHANGED <<row, files, loaded, up, rekinded>>

\* A save of the configuration fails half-way, or succeeds and commits.
OtherSave ==
  /\ up
  /\ store_tx' = ~store_tx /\ Disturb
  /\ UNCHANGED <<row, files, loaded, catalog, up, rekinded>>

\* The repository is pushed to, or the user works in the directory.
Work(s) ==
  /\ origin[s] # None /\ row[s] # None
  /\ \E v \in Versions[s] \ {origin[s]} : origin' = [origin EXCEPT ![s] = v]
  /\ Disturb
  /\ UNCHANGED <<row, clone, loaded, catalog, store_tx, up, rekinded>>

\* The process ends, or is ended, and started again: importing web/server.py
\* discovers the checks of the directories as they are.
Restart(h) ==
  /\ REGISTRY' = [i \in Ids |-> None]
  /\ modules' = {} /\ syspath' = {} /\ md_ids' = {}
  /\ store_tx' = FALSE /\ up' = FALSE
  /\ job' = [g \in Handlers |-> IF g = h THEN [Idle EXCEPT !.pc = "paths", !.op = "boot", !.calm = TRUE]
                                ELSE Idle]
  /\ UNCHANGED <<row, files, catalog, rekinded>>

-----------------------------------------------------------------------------

Sync(h) ==
  \/ Begin(h, "sync", None) \/ SyncRecord(h) \/ SyncDone(h)
  \/ \E src \in job[h].todo : SyncFetch(h, src)

Forget(h) ==
  \/ \E s \in Names : Begin(h, "unsync", s) \/ Begin(h, "delete", s)
  \/ Unlink(h) \/ Rmtree(h) \/ DeleteRow(h)

Reload(h) ==
  \/ DropAuto(h) \/ ListModules(h) \/ Purge(h) \/ SetPaths(h) \/ DiscoverMd(h) \/ AfterLoad(h)
  \/ \E i \in Ids : ImportOne(h, i)

Edit(h) ==
  \/ \E i \in Ids : MdSave(h, i) \/ \E d \in syspath : AutoSave(h, i, d)
  \/ Pop(h) \/ Exec(h) \/ Rollback(h) \/ Edited(h)

Requirements(h) == PurgeCatalogs(h) \/ ImportCatalogs(h) \/ Reply(h)

World ==
  \/ \E s \in Names : Work(s)
  \/ \E s \in Names, kind \in {"git", "path"}, enabled \in BOOLEAN : UpsertSource(s, kind, enabled)
  \/ \E f \in Frameworks : EditCatalog(f)
  \/ OtherSave
  \/ \E h \in Handlers : Restart(h)

Next ==
  \/ /\ \E h \in Handlers : Sync(h) \/ Forget(h) \/ Reload(h) \/ Requirements(h) \/ Edit(h)
     /\ UNCHANGED rekinded
  \/ World

Spec == Init /\ [][Next]_vars

-----------------------------------------------------------------------------
(* Properties *)

\* What REGISTRY is to hold when the directories in D are all there is.
AsRead(D) ==
  \A i \in Ids :
    IF ManualIn(D, i) # {} THEN REGISTRY[i] \in ManualIn(D, i)
    ELSE IF AutoIn(D, i) # {} THEN REGISTRY[i] \in AutoIn(D, i)
    ELSE REGISTRY[i] = None

\* The file has what the edit that h has in hand left: the new source, or the old one when
\* that does not load; and so has REGISTRY, unless the old one did not load either.
EditSettled(h) ==
  LET e == job[h].got
      i == job[h].name
      there == IF i \in Broken[e.new] THEN e.old ELSE e.new
  IN  /\ VersionIn(e.dir) = there
      /\ i \notin Broken[there] => REGISTRY[i] \in AutoIn({e.dir}, i)

\* A sync, an unsync or a delete that answers, and during which nobody else did
\* anything, leaves in REGISTRY exactly the checks of the enabled sources, each from the
\* version on disk, whatever reloads failed before it and whatever save was left open:
\* sync_sources and clear_check_source_sync commit before reload_upstream looks.  And an
\* edit of a check leaves it as the file has it, a broken one (server.py:1630 "a broken
\* module must never reach disk") not even on disk.
LoadedAsRead ==
  \A h \in Handlers : job[h].calm =>
    /\ At(h, "loaded") /\ job[h].op = "reload" => AsRead(Provided)
    /\ At(h, "edited") => EditSettled(h)

\* The requirement catalogs are those of the live sources when _reload_requirements
\* ends and nobody else did anything since the request began (server.py:530 "The DB
\* requirements = exactly what the configured sources currently provide").
CatalogsAreLive ==
  \A h \in Handlers : At(h, "done") /\ job[h].calm =>
    \A f \in Frameworks :
      IF f \in Live(source_paths) THEN catalog[f] \in CatalogIn(source_paths, f) ELSE catalog[f] = None

\* A user's own directory is only ever removed when its source was also registered, or
\* edited, as a git one: rows of that name deleted and entered again, a sync that records
\* late and an rmtree a step after the look at the row do not get there.
OwnDirKept ==
  [][\A s \in Names \ rekinded : origin[s] # None => origin'[s] # None]_vars

\* No request removes the user's own directory (repo.py:585-586 "never a `path` source's own
\* directory").
UserDirKept == [][\A s \in Names : origin[s] # None => origin'[s] # None]_vars

\* A start-up loads the checks as its sync left them on disk (server.py:2186 "reload
\* checks from synced checkouts").
StartUpLoads ==
  \A h \in Handlers : At(h, "loaded") /\ job[h].calm /\ job[h].op = "reboot" => AsRead(Provided)

TypeOK ==
  /\ row \in [Names -> Row \cup {None}]
  /\ modules \subseteq Ids /\ md_ids \subseteq Ids
  /\ store_tx \in BOOLEAN /\ up \in BOOLEAN
  /\ \A i \in Ids : REGISTRY[i] = None \/ REGISTRY[i].how \in {"auto", "manual"}

=============================================================================
