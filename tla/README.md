# anytest-framework in TLA+

Models, model checks and proofs about `atf`, the test framework of this
repository: a server that runs checks against the boards of a lab bench, on
behalf of several users at once, with help from agents on the developers' own
machines.

| module | models | lines it stands for |
|---|---|---|
| `ResourceLocks` | the lock table | `web/locks.py`, `ResourceLocks` |
| `BenchRuns` | who takes the bench and gives it back | `touched_resources`, `RunState.start/_run`, `dev_run`, `agent_run`, `locks_force` |
| `BenchMutex` | what the locks promise (abstract) | |
| `BenchRunsProofs` | proofs about `BenchRuns` | |
| `PilotRun` | the run engine: worker, cancel, prompter, answer | `RunState`, the loop of `core/runner.py`, `core/manual.py` |
| `PilotRunProofs` | proofs about `PilotRun` | |
| `RunLifecycle` | what a client of `POST /api/run` is promised (abstract) | |
| `RunStream` | readers of the event stream beside `PilotRun` | `events_since`, `run_stream` |
| `RunStreamProofs` | proofs about `RunStream` | |
| `Selection` | which checks a suite selects, the roll-up per requirement | `core/registry.py`, `_cell` and `_requirement_blocks` of `core/report.py` |
| `Runner` | one run of a suite on the boards of a bench | `core/runner.py`, `access/mgmt/dispatch.py`, `access/mgmt/worker.py` |
| `RunnerProofs` | proofs about `Runner` and `Selection` | |
| `AgentHub` | agent sessions, the agent endpoints and the client loop | `web/agents.py`, the agent handlers of `web/server.py`, `run` of `agent.py` |
| `AgentCall` | what a caller of an agent is promised (abstract) | |
| `AgentHubProofs` | proofs about `AgentHub` | |
| `CheckSources` | check sources, discovery and reload, catalogs, the check editor | `core/checks.py`, `register*`, the check-source handlers and `serve` of `web/server.py` |
| `CheckSourcesProofs` | proofs about `CheckSources` | |
| `ConfigStore` | benches, secrets and the inventory in the store; migrations, seeds, restore | `store/repo.py`, `store/db.py`, `store/backup.py`, the bench and inventory endpoints |
| `ConfigStoreProofs` | proofs about `ConfigStore` | |
| `Accounts` | users and logins | the user methods of `store/repo.py`, `users_*`, `admin_login` |
| `Reports` | how a run becomes a report, and who sees it; extends `Accounts` | `write` of `core/report.py`, the report methods and endpoints, backup and restore |
| `ReportsProofs` | proofs about `Accounts` and `Reports` | |
| `MC*` | instances and parameters for TLC | |

`PROJECT.json` maps every definition that stands for code to its lines.

## 1. The system

One process (`atf/web/server.py`, FastAPI) serves a web page and an API. Every
handler but a few `async` ones runs in a thread of the framework's pool, so
handlers interleave at any point; the state they share is in memory and mostly
without locks. The store is one SQLite connection behind one re-entrant lock.

| component | state | operations | talks to |
|---|---|---|---|
| Resource locks, `web/locks.py` | resource -> holder | `acquire`, `release`, `force_release`, `held` | called by every run |
| Run engine, `RunState` | `events`, `active`, `pending`, `plan`, `cancel_event`, `lock` | `start`, `_run` (a thread), `request_cancel`, `answer`, `status` | locks, runner, prompter, agent hub, store, report |
| Runner, `core/runner.py` | the records of a run | `run`, `run_check`, `_build_ctx` | registry, channels, dispatcher |
| Manual checks, `core/manual.py` | the module global `_PROMPTER` | `set_prompter`, `prompt` | run engine |
| Event stream | a cursor per reader | `run_stream` | reads `RunState.events` |
| Agent hub, `web/agents.py` | sessions, each with a command queue and result slots by token | `register`, `get`, `drop`, `alive`, `request_*`, `receive_*` | agent endpoints, run engine |
| Agent client, `agent.py` | session id, AI pack path | `run`: register, poll, execute, post | hub, over HTTP |
| Registry and selection, `core/registry.py` | `REGISTRY` | `register`, `select`, `resolve_selection`, `requirement_verdicts` | runner, reports |
| Check sources, `core/checks.py` | `sys.path`, `sys.modules`, `_MD_IDS`, checkouts, `check_source` rows | `sync_sources`, `discover`, `reload_upstream`, unsync, delete, edit | registry, store, git |
| Container checks, `access/mgmt` | none | `dispatch`, `worker.run` | docker |
| Channels and actions, `access/` | an SSH or serial session | `open`, `run`, `close` | devices |
| Store, `store/` | SQLite tables behind one connection with one transaction, the encryption key | upserts, migrations, seeds, backup, restore | all handlers |
| Users and tokens | `app_user` rows, `tokens` in memory | login, user management | all handlers |
| Reports, `core/report.py` | `runs.jsonl`, files of a run, `report` rows | `write`, `add_report`, visibility, delete, export | run engine, pages |
| CLI, AI pack, web page | none | | API, runner |

### What makes it correct

* *Locks*: two runs that overlap lock no resource in common; a run holds what
  it asked for until it ends; every lock of a run that began is given back,
  however the run ends.
* *Run engine*: one run at a time on the shared fields; what a status, a cancel
  or an answer finds there belongs to the run in progress; a verdict comes from
  the operator who was shown that prompt; every started run ends and says how.
* *Stream*: a reader gets a prefix of its run's events and ends with the run.
* *Runner*: every selected check is recorded once per board, in the suite's
  order; it is executed only with all it needs; a requirement's pass was earned
  by its tests on that board; only a connection whose closing fails, or a local
  worker that raises, leaves one open behind a board's turn.
* *Agents*: a command is executed at most once; what is answered in time is newer
  than the question; one session per process; a busy agent is not forgotten; a
  forgotten one comes back with its present files.
* *Check sources*: a request that answers, undisturbed, leaves exactly the checks
  and catalogs of the enabled sources as they are on disk; an edit that does not
  load leaves no trace; no directory of the user's is removed but by way of an
  edit of its source's kind.
* *Store*: what was answered with success stays, through failed saves of others,
  crashes and interrupted migrations; nothing hangs on a bench that is gone.
* *Users and reports*: somebody can administer the server, as long as nobody acts
  on an overtaken count of the admins; a listed report has all records and files
  of its run; users without the rights of an admin see another's report only when
  its id was published.

### What is hard about it

Handlers in threads that read shared state, wait, and use what they read;
timeouts with late answers (prompts, agent requests); connections that break
after a command has left the queue; a server that restarts and forgets all
sessions; a check's code that may return or raise anything; a registry that is
emptied and filled again under the running server; one database connection, so
that a method that raises leaves its half in the transaction of the next; files
and rows written one after the other. `PROJECT.json` lists these hazards at
their lines with the properties that watch them.

## 2. How the models correspond to the code

**ResourceLocks.** `held` is `_held` reduced to the id of the holder. Each
method runs under one `threading.Lock` and is one step.

**BenchRuns.** A request (`PilotReqs`, `DevReqs`, `AgentReqs`) is a handler
thread, for a pilot followed by its worker. `runId` is the id computed just
before `acquire`: a prefix and the millisecond clock `now`. `UniqueMs = TRUE`
is the assumption that two overlapping runs with one prefix never read the same
millisecond; the code does not enforce it, see section 5. `sel` is the set of
boards asked for, possibly with a name the bench does not have; `lost` is
history: what an admin took away. `LockedAliases` are the two aliases
`touched_resources` looks at; the instance has an agent behind a third, which is
not locked. `DevNoDir` is a dev run that was given its locks and gets no directory:
it ends before its `try`, and its id stays in the table (`stray`, history).
`dev_exec` takes no lock and so has no action here.

**PilotRun.** `pc[q]` is where a start request and then its worker is; each
action reads or writes the shared fields once, so every interleaving of two
handlers on `active`, `cancel_event`, `pending`, `events` and the prompter is a
behaviour. A plan is a sequence of units, what the runner does between two
looks at the cancel flag. A prompt object is named by its run and the units
left; `pending` refers to one, and an answer is written to the one its request
picked up, shown or not. Exceptions, refusals and `SystemExit` have actions of
their own. `Other` is any other holder of the bench; an admin may break the
lock at any time. Labels, the plan list and record contents are left out; a
check is taken to return in the end (its code is not in the repository).

**RunStream** extends `PilotRun` with readers; one `Poll` is one turn of the
generator's loop. A reader never notices that `start` has put a new list in
place of the one it reads; `list` and `from` are history that let the
properties speak of readers for which that did not happen.

**Selection.** Pure operators. A suite is a sequence of requirements with their
tests (the map), or sets to include and exclude. The order of the map is kept
and the first occurrence of a test wins; filters by requirement or driver are
left out. `cell` is the verdict of a requirement on a board, `_cell` what several
verdicts are shown as, `_requirement_blocks` what a report says overall.

**Runner** has the state of one call of `run`: `specs` is what the suite
selected, `at` counts the boards entered, `queue` is the rest of the `while`
loop on the board, `batch` and `results` a dispatch under way. `Drivers` says of
each alias of a board whether it is a serial line and whether the agent it
names is wired, missing on this bench, or none is named; from that the three
vantages of the code follow: what counts as available (`available_drivers`),
what the in-process context has (`in_process`), what the container has
(`container_aliases`). `RunCheck` is `run_check`: skipped without a call, or
called, with any outcome; `CrashHere` and `CrashInBatch` are a check that
returns no `Result`. A container may fail at any point of a batch
(`BatchFails`) or not know a check. `opened` are the connections of the board's
context, `worker` those that the worker makes for itself with the backend "local"
(a container's end with it). `CloseFails` and `WorkerCloseFails` are a close that
raises, after which any of the connections may be left; `failed` is history. What
the interpreter closes when it collects a dropped client is not modelled. `ran` is
history: what was executed, as what
it came out and with which aliases. `cancel` may be set at any time. A unit of
`PilotRun` is one in-process check or one batch here.

**AgentHub.** `sess[s]` is an `AgentSession` (its catalog and what the app has
loaded are versions of the agent's files), `sessions` the table, `orphan` a
poll handler whose client is gone, `slot[r]` the entry of a request's token in
`uploads`, `inspects`, `catalogs` or `files`. `age` stands for the time since
the last poll: under `ttl`, between `ttl` and `busy_ttl`, over it. The agent's
loop (`agent[p].at`) scans, registers, polls, executes and posts; each exchange
may be lost before or after the server has acted. `agent_register` is three
kinds of step because it looks, retires and inserts in separate critical
sections. An AI job runs in a thread of its own and posts to the session it
began under. A caller waits for a result with a limit (`TimedOut`): inspect, files and
jobs then fail; a pull, a sync and the refresh after an edit go on with what the
server has and answer "ok" (phase `late`), and a late sync snapshots as well. The
refresh's other half, which marks a new test as loaded, is left out. All agents
belong to one owner: sessions of different owners share
nothing but the table. Simplifications: `request_*` (an insert in a dict, then
a `put`) is one step, since the token is known to nobody in between; a request
to register is not delivered twice (HTTP does not repeat a POST by itself).

**CheckSources.** A directory of checks is in a version, and a version says which
automated checks, manual tests and catalogs it has and which of its modules do
not load. `origin[s]` is what the url of a source names (a repository, or the
user's own directory), `clone[s]` the checkout the server made, `row[s]` the
`check_source` row. `job[h]` is a request in progress and `pc` its next step:
sync one source after the other (fetch, then record), or unlink, remove and
forget, then `reload_upstream` (drop, list, purge, set the paths, one import at a
time, the manual tests) and `_reload_requirements` (purge, import). Each step is
one access to the registry, to `sys.modules`, to the disk or to the store, so two
requests mix in every way. A module that fails may have registered its check by
then. `Restart` is an end of the process at any step and the two discoveries of a
start. `store_tx` says that a failed save has left a transaction open
(`ConfigStore`): until the next commit `source_paths` sees no sources. `calm` is
history: nobody else has done anything since the request began. `MdSave` and
`AutoSave` are the editor; the second writes, reloads one module and rolls back.
A source is a name. `UrlKind` is the kind its url is of, the kind in its row may be
edited to the other one at any time (`rekinded`, history): see `user_dir`.

**ConfigStore.** Every method of `Repo` holds its lock, so a method is one step.
`db` is what the one connection sees and `disk` what is committed; a save that
raises half-way changes the first only (`upsert_bench_fails`), the next commit
of anybody takes it along, and a crash loses it. A bench row has an id, and a new
row gets the largest plus one. One of the names is that under which the
inventory's secrets are kept (`Inventory`): it has a row like a bench, and
`list_benches` passes it over. An edit of the inventory gives a board comments or
takes them away (`upsert_inv_board`). One kind of shared inventory row (`board`) stands
for boards and agents, which are linked and synced alike; drivers, actions and
credentials are wiring of the bench. `pc` and `todo` are how far a start has
come: the two migrations, the seeds, the inventory. `due` is history: what the
last save of a bench that was answered said. `Stores` are the states of earlier
versions that a first start or a restore finds. A save fails at a
board without a name, after what came before it has been written: the part that
was is any save of its own.

**Accounts and Reports.** A request to change or delete a user reads the users,
then counts the admins, then writes, in three critical sections; `stale` says of it
that the users have changed since its last look, and `raced` that one was
written all the same (both are history). A login keeps the flag the user had.
`AdminName` is whom the first start made an admin: not the built-in "admin" when the
settings of an early version name another. `EndRun` begins the write-up of a run;
the lines of `runs.jsonl` go out one by one or in two halves, then the files, then
the row; any step may be the last (`Restart`, `RenderFails`, `add_report_fails`).
`ran` is history, `row[i].run` says which run a row is about, which the code's rows
do by their id alone: the two differ when the clock has been set back and an id
repeats. A report page and JSON show the records with the id in the history
(`report_get`); md and html show them under the requirements of their tests, from
the run's file or rendered again (`_requirement_blocks`): a record of no requirement
is not there, one of two is there twice. An admin restores the server's own last
backup (`restore`) or any other store (`Uploads`): its users and reports replace
those of the server, logins, history and files stay. A report of another server is
one of run 0; what its page shows is what this server has under its id.
`published` is history: the ids of reports that somebody entitled to has made public
since they were entered, or that came so from another server.

## 3. The runs

All with TLC, breadth first and complete within the constraints named below.

| run | instance | checks |
|---|---|---|
| `bench` | 1 pilot, 2 dev runs, 1 agent run; 2 boards, 2 agents, one shared; 2 clock values | exclusion, no leaked lock but of a dev run without a directory, only the owner or an admin frees a lock, refinement of `BenchMutex`; under fairness every lock of a run that began and the engine's lock are freed |
| `pilot` | 2 starts, 1 cancel, 1 answer; plans "one automatic check" and "a manual check, then a container batch" | the shared fields belong to the run in progress; terminal event last; who gave a verdict; no unit after a cancel; refinement of `RunLifecycle`; under fairness a started run ends |
| `stream` | 2 starts, a cancel, 1 reader | prefix, end at the terminal event, readers end |
| `runner` | 6 checks, 2 boards, all maps of 2 requirements over 8 lists of tests, 3 more suites, both backends | exactly one record per check and board; suite order; executed only when equipped and for its model; passes are earned, per board and overall; channels closed but where a close or a local worker raises; under fairness a run ends |
| `hub` | 1 agent, a pull and a sync, 1 edit, 1 orphan handler | freshness of what is answered in time and of catalogs, what counts as loaded, busy agents are kept, refinement of `AgentCall` |
| `hub_pair` | 2 agents of one owner, 1 AI job | one session per process; under fairness a forgotten agent is back or has ended |
| `sources` | a git source with three versions, a directory of the user's with two, 2 requests | what a request leaves loaded is what is on disk, edits included; catalogs of live sources only; the directory of a source whose kind was never edited stays |
| `store` | 2 benches and the inventory's name, 1 board, ids up to 2, 3 kinds of store, 2 seed files | no orphaned rows, answered saves stay, migrations complete, comments stay |
| `reports` | 2 users, of whom one is the first admin, 2 logins, 2 requests about users; 2 runs with 2 records, 2 requirements, 2 ids; the own backup and 2 stores of other servers | an admin remains while no look is overtaken, listed reports are complete, private until published |

The other three, `user_dir`, `stale_boot` and `late_sync`, are counterexamples,
see section 5. No run spends time on `TypeOK`: the type invariants are
theorems, those of `Accounts` and `RunStream` as parts of `ReportTypes` and
`StreamTyped`.

*Bounds.* Two requests of each kind are what any property relates; three
add no new pair. In `bench` the two are the dev runs, whose ids can meet; a second
pilot is `pilot`'s subject. Two boards that share an agent give conflicts through a board,
through the shared agent only, and none. `MaxMs = 1` lets the ids of two
requests differ or agree. A plan with a prompt before a container batch lets an
answer or a cancel meet the run before its prompt, in it, after it and in the
batch; a second run of the other plan is what a late one may hit. The runner's
checks cover each way to be placed: no driver, a console, the container's
vantage, both at once, an action, a driver whose agent the bench lacks; the two
boards differ in model, in wiring and in actions, so the same check is run here
in one place and there in another or not at all. The lists of tests repeat a
check in two requirements, put a console check between and after container
checks, and name a check that does not exist. One edit separates the old files
from the new. `MaxSids = 4` exceeds
the ids in use at one time (table, loops, requests): `FreshSids` is never empty
where a registration needs one. `MaxOrphans` bounds the poll handlers left
behind by broken connections; with one, a command can be lost in a handler
while the agent polls in another. In `hub_pair`, where nothing but one job is
asked, three ids are enough: the two agents' and a new one.

The check `a` of the git source is automated, manual, absent or broken by version,
which is every way a reload can meet an entry of the last one; a catalog goes with
one of the versions. `OneOrTwo` spends the two simultaneous requests on the git
source alone and one request at a time on both sources, with the user's directory
in a sound or a broken version; the directory is under the wrong kind, or has been,
only while there is no repository; two more requests or two sources at once
add no step that reads what the first two do not write. `MaxId = 2` is one id less than
there are names, so an id is used again by another bench and by the inventory; with
two benches and `MaxId = 3`, where a row is inserted behind a gap, TLC found no
error either. `SecretsOnly`: under the inventory's name no bench is saved. One board
shared by two benches is the sharing that a save of one can hurt.
The stores are an empty one, one of the first version and one with credentials in
the inventory. `UsersFirst` checks the changes of users, and restores of other
stores among them, before the first run ends; from then on there are an admin and
one who is not, since the two parts have in common only the logins, which can be
stale by then. `NoBuiltIn`: nobody makes an account of the name "admin", which
could not be taken away again, so that two admins can remove each other. One of the
two records of a run is of no requirement, the other of two. One backup is kept. Two runs with one or two ids are what a repeated id needs; two records
allow a torn append between lines and in one.

*Deadlock* is checked except for the hub, which stops for good when all agents
have ended and no request is left to be made, and for the runner, which is one
call that returns. *Symmetry* is used where only safety is checked (`sources`:
requests; `reports`: logins, ids and requests).

*Fairness.* A run ends because a prompt waits 1800 s at most, an agent's worker
900 s, a container 1800 s, a check is taken to return, and `finally` runs
(`BenchRuns`, `PilotRun`, `Runner`):
weak fairness of each worker and of requests that have begun; none for starts,
cancels, answers, other holders of the bench or the admin. A stream's loop
polls until its cap. The agent's loop is weakly fair; its registration is
strongly fair, which says that a registration sent again and again is once
received and answered: if the network or a restarting server cut short every
single one, no agent could come back.

## 4. What is proved

`BenchRunsProofs`, for any bench, any number of requests and any clock:

| theorem | assumes | says |
|---|---|---|
| `TypeCorrect` | | `[]TypeOK` |
| `PilotsAreSerial` | | only the request that holds `RunState.lock` has a pilot worker |
| `Exclusive` | `UniqueMs` | overlapping runs own disjoint resources |
| `KeepsItsLocks` | `UniqueMs` | a run holds what it asked for, but what an admin took |
| `NoLeak` | `UniqueMs` | every entry of the table belongs to a run that asked for it, or to a dev run without a directory (`NoOrphanLock`) |
| `OnlyOwners` | `UniqueMs` | a lock leaves the table only with its run or by an admin, the lock of a run that never began only by an admin (`OnlyOwnerReleases`) |
| `Refinement` | `UniqueMs` | `BenchRuns` implements `BenchMutex` |

The argument: exclusion alone is not inductive. A run that is granted a resource
knows that the table does not have it under another id; that no *run* owns it
needs that every owner is in the table (`HoldsWhatItTouches`), and that the ids
of running requests differ, also from those of dev runs that got no directory
(`UniqueIds`), or `release` of one would free the other's. For `release` and the
forced unlock to keep the table clean (`NoOrphanLock`) one needs the same two again. So `IInv` is the type invariant
with these three, `Exclusive` follows from the first two, and the refinement
maps each run to what the table has under its id. `UniqueMs` is used in one
place only, where a run begins and its id must be new. Without it `Exclusive`
is false, see section 5.

`PilotRunProofs`, for any requests, plans, callers, cancels and other holders of
the bench, without further assumptions but that names of different kinds differ
(`PilotAssumption`, `PromptAssumption`):

| theorem | says |
|---|---|
| `TypeCorrect` | `[]TypeOK` |
| `RunsAreSerial` | one request at a time has `RunState.lock` (`OneRunAtATime`) |
| `StatusIsTrue` | no worker is alive while the status says idle (`InactiveMeansIdle`) |
| `PromptsReachTheirRun` | a worker on the bench has its own prompter (`PrompterIsLive`) |
| `BenchIsGivenBack` | the bench is not left locked under a run that is over (`NoBenchLeak`) |
| `DisplayIsLive` | the prompt on display is the one the run waits for (`PendingIsLive`) |
| `VerdictsAreGenuine` | a manual verdict has an author who answered that prompt (`VerdictSource`) |
| `CancelledRunsStop` | no unit begins once the flag was set (`NoUnitAfterCancel`) |
| `TerminalEnds` | nothing but late cancel notices follows a terminal event (`TerminalIsLast`) |
| `LifecycleRefinement` | `PilotRun` implements `RunLifecycle` |

The argument is in layers, each of which uses those below. *Control*: whoever
is past `start`'s test of the lock owns it, so two requests are never there
together, and `active` is set exactly while the owner is between arming and
cleaning up. With `TypeOK` and the fact that a cancel's
notice names the run it found, this is inductive (`Typed`). *Prompts*: a worker
that waits has its prompt on display (`WaitShowsPrompt`), which makes
`PendingIsLive` inductive. *Bench*: a holder of the bench that is a run is
between acquiring and releasing it. *Verdicts*: an answer found in a prompt was
written there by a caller who had picked it up. *Events*: the list is made of
what the runs emitted since it was last replaced, with the terminal event of
the current run, if any, followed by cancel notices only (`EventsInOrder`); the
fates of the abstract life cycle are read off the list and the control
(`FatesMatch`). Each layer has lemmas that say which actions touch a variable, so
that a step of the proof looks only at those.

`RunStreamProofs` extends them with any readers:

| theorem | says |
|---|---|
| `NothingIsSkipped` | a reader of one run's list was sent a prefix of it (`SentIsPrefix`) |
| `ReadersStopAtTheEnd` | a reader ends at the first terminal event it meets (`EndsAtTerminal`) |

A reader compares its cursor with a list that others append to and that a start
replaces. So the invariant (`StreamInv`) adds to `Typed` that the list a reader has
polled is that of a run that has begun (`Begun`): only then is a new list, which
starts with the next run, one that `from` tells apart. While no start replaces the
list it only grows, and a prefix of it stays one.

`RunnerProofs`, for any registry without repetitions, any suites, boards, drivers
and backends (`RunnerAssumption`):

| theorem | says |
|---|---|
| `RunIsTyped` | `[]TypeOK` |
| `OneRecordOfEach` | a check has at most one record of a board, and one of each it is for when a run is done (`OneRecordEach`) |
| `RunsInSuiteOrder` | on a board the checks execute in the order the map names them (`RanInSuiteOrder`) |
| `OnlyEquippedRun` | a check executes only with its drivers, and on boards of its model (`RanEquipped`) |
| `ConnectionsAreClosed` | no connection is left behind a board's turn, unless a close or a local worker raised (`ChannelsClosed`) |
| `PassesAreEarned` | a requirement is passed only if its tests ran and passed (`PassIsEarned`) |

That a check has one record is a fact about three sequences at once: what the
container has reported, what is left in it and what is left in the queue stand in
the order of the suite, each check once (`InLine`), and none of them is on record
for the board yet (`Recorded`). `Complete` says the converse, that what is selected
and not on record still waits, `RanInOrder` that what was executed comes before all
that waits, `PassesRan` that a pass on record has an execution behind it. `Connected` says where
in a board's turn there can be connections, and what must have raised for one to be
there after it. All of it
rests on what `Selection` computes: `select` and `resolve_selection` return each
check once and in the map's order, and `Only` keeps what is asked for, in order.
`Only` is a recursive function over a sequence; its lemmas are an induction over
the set of the lengths at which they could fail, which has no least element.

`AgentHubProofs`, for any processes, requests, edits and orphans
(`HubAssumption`: requests of different kinds differ):

| theorem | says |
|---|---|
| `HubTypes` | `[]TypeOK` |
| `OneSession` | the server knows at most one session of a process (`OneSessionPerProcess`) |
| `CallImplemented` | `AgentHub` implements `AgentCall`: executed at most once, and answered only then, but for catalog requests that are answered late from what the server has |
| `AnswersAreFresh` | an answer in time is not older than its question, a late pull's not older than what was shown before (`AnswerIsFresh`) |
| `SyncsLoad` | a sync answered in time has loaded what the agent had when asked, a late one what was shown then (`SyncLoads`) |
| `CatalogsGoForward` | what is shown of an agent never gets older (`CatalogNeverGoesBack`) |
| `BusyAgentsAreKept` | an agent at work is not reaped before `busy_ttl` (`BusyIsKept`) |

The invariant has five parts, each kept with the help of those before it. *Typed*
and *Owned*: an agent past its registration has an id, a session a process.
*Identity*: no two agents have one id, also one that the server has forgotten; and
a registration that is about to retire the old sessions knows all that its process
left, which is why a second one can never stay. *Commanded*: a command is in one
queue, once, or in one agent's hand, and has been executed only when it is in
neither; the abstract phases are read off this. *Versioned*: a session shows the
newest version its process has shown, a command in a queue was asked for when
the files were as now or before, what the agent scanned for a result is not
older than that. A late result is therefore fresh too.

`CheckSourcesProofs`, for any sources, versions and requests
(`CheckSourcesAssumption`: what a version has are checks and catalogs, `None` is
no row and no entry):

| theorem | assumes | says |
|---|---|---|
| `CatalogsFollowSources` | | an undisturbed request leaves the catalogs of the live sources, exactly (`CatalogsAreLive`) |
| `ReloadsLeaveWhatIsRead` | | an undisturbed sync, unsync or delete leaves the checks on disk, exactly (`ReloadsAsRead`, the first half of `LoadedAsRead`) |
| `RegistryIsAsRead` | `OneProvider` | the same, and an undisturbed edit leaves its check as its file has it (`LoadedAsRead`) |
| `OwnDirsAreKept` | | no request removes what a source's url names, unless the source's kind was edited at some time (`OwnDirKept`) |
| `SourcesAreTyped` | | `[]TypeOK` |

`calm` makes this provable request by request: an invariant says, for each point
a request can be at, what it has achieved if nobody disturbed it (`ReloadCalm`,
`EditCalm`, `CatalogsInv`), and each step of another ends the calm. What holds
regardless is `Base`: an edit in hand is one of a check, the files are in versions of
their sources, and `_MD_IDS` is exactly the manual tests in the registry; without
the last, a manual test that is gone would survive every reload. `OneProvider` says
that no two sources have an automated check of one id: after an edit the module
is imported by its name, and `sys.path` may find the other source's. The
instance of `sources` satisfies it. For the directories (`DirInv`): a checkout that was
recorded as the user's own is of a name whose url is a path, and what a request is
about to remove is one only if that name was given another kind. Without `rekinded`
that is false, which is the finding `user_dir`.

`ConfigStoreProofs`, for any benches, boards, seed files and stores to begin with,
as long as those have primary and foreign keys (`StoreAssumption`):

| theorem | says |
|---|---|
| `NothingIsOrphaned` | no row, committed or not, hangs on a bench that is gone (`NoOrphanRows`) |
| `SavesLast` | a bench stays as its last answered save said (`SavedBenchIsKept`) |
| `MigrationsComplete` | a start past its migrations has linked every bench of an early version (`MigrationCompletes`) |
| `CommentsAreKept` | no save of a bench, no crash and no start wipes the comments of a board (`MetadataKept`) |
| `StoreIsTyped` | `[]TypeOK` |

The invariant has two layers. *Data* (`DataInv`): `db` and `disk` are typed, their
keys differ and nothing is orphaned (`Good`), and both hold what is due. It is kept
because each method changes only the rows of one bench (`OnlyOf`), gives it a
row nobody has (`NewIdIsFree`), and either commits all or leaves the debt of that
bench open; the lemma `Touches...` of each method says so, `TouchesKeeps` does the
rest. A failed save is why `disk` must be part of it: the next commit makes `db`
permanent, whoever makes it. *Start* (`StartInv`): while a start migrates, every
bench it has passed is linked; that an interrupted start can be repeated is the
same fact about benches that are linked already. For the comments, `NotedInv`: `db`
and `disk` agree on them at every step, so no crash and no commit can change them.

`ReportsProofs`, for any users, logins, requests, runs, ids and stores of other servers
(`UsersAssumption`, `ReportsAssumption`: finitely many users, and records of a run):

| theorem | says |
|---|---|
| `SomebodyCanAdminister` | there is an admin, unless a request acted on a look that was overtaken or a store without admins was restored (`AdminRemains`) |
| `PublishedOnly` | a login without an admin's flag sees another's report only when its id was published (`OthersSeeThePublished`) |
| `ReportsAreComplete` | a listed report of an id that no other run has shows each record of its run once, and no other's; md and html under each requirement those of its tests (`ReportIsComplete`) |
| `ReportsAreTyped` | `[]TypeOK` |

The first needs more than that an admin is there (`AdminInv`): a request about to
demote or delete somebody, whose look is still good, leaves another admin (`Sound`).
A count gives it that, and every write of another makes its look stale. The second
(`PublishedInv`) needs that a row names the starter of the run it is about and is
public only under an id that was published, in a backup as in the table (`Honest`); a
run that is written up under an id of before takes over what was published. The
third follows the write-up of a run (`HistoryInv`): what is not a line of `runs.jsonl`
yet is still to be written, once (`WritingInv`), so when the row is entered the lines
are complete, and they stay so for every run a row is about, also a row of a
backup that may be restored.

Only model-checked: the five liveness properties `LocksAreFreed`, `RunsEnd`,
`ReadersEnd`, `Ends` and `AgentComesBack` (fairness and `ENABLED` are beyond the
proof system). Every other property of a passing run is a theorem, under the
hypotheses named in its table.

## 5. Where code and documentation disagree

Three have a run of their own, which TLC ends with a counterexample.

1. `user_dir`: "never a `path` source's own directory" is removed
   (`store/repo.py:584-586`). A source that was synced as `path` and is then edited
   to `git` keeps its recorded checkout; the next unsync or delete removes it.
2. `stale_boot`: a start-up is to "reload checks from synced checkouts"
   (`web/server.py:2186`). Importing the server has imported the checks already,
   from the checkouts before the sync, and a second `discover` keeps them: the
   server runs old code under the new revision's name.
3. `late_sync`: a sync is to "pull the agent's current tree into the platform and
   snapshot it" (`web/server.py:2128`). The handler does not look at whether its wait
   was over in time: it then snapshots the older catalog it has and answers ok.

Behaviours that no run is spent on, each with its line under `src/atf`.

*Runs and locks*

* run ids are made from the millisecond clock, and a resource held under the same
  id is no conflict: two dev runs started in one millisecond both get the board
  (`web/server.py:1679`; `web/locks.py:2-3` "rejected immediately"). With
  `UniqueMs = FALSE` `BenchExclusive` fails;
* `touched_resources` looks for agents behind the aliases `console` and `craft` only;
  a driver may have any alias (`web/locks.py:18`), so two runs can drive one agent
  that is behind another one, although agents are exclusive (`web/locks.py:2`);
* a dev run whose directory cannot be made keeps its locks until an admin breaks them
  (`web/server.py:1684`, before the `try`; `DevNoDir`);
* a channel that raises when it is closed leaves the rest of the board's open
  (`core/runner.py:250-252`); with the backend "local" so does a worker's, and a check
  that returns no `Result` leaves all of the worker's (`access/mgmt/worker.py:44`);
* a check that returns no `Result` or raises `SystemExit` ends the run, which
  `core/runner.py:95` says a check must never do (`CrashHere`);
* a cancel that reads `pending` before the worker shows its prompt does not
  unblock it (`web/server.py:160`): the run ends only with an answer or the
  prompt's own limit;
* a cancel that found one run active may set the event of the next
  (`web/server.py:159`);
* a check that needs a driver of the container and another one, or an action, is
  sent to the container and skipped there, although the bench has all it needs
  (`core/runner.py:229`), and so is one that needs a serial line for which no
  agent is named.

*Agents*

* two registrations with one token at the same time both stay
  (`web/server.py:1791-1796` "one agent per user token");
* a pull of the catalogs whose agent does not answer in 8 s shows the older catalog
  without saying so (`web/server.py:2070-2076`), and so does the refresh after an edit;
* a disconnected agent that is not inside its poll never reads the stop command
  and registers again, although `agent_disconnect` asks it to exit "so it won't
  re-register" (`web/server.py:2149`);
* `agent_run` unpacks three values where `_agent_worker_run` returns four
  (`web/server.py:2109`, 667): every run through that endpoint ends with status 500
  after its checks have run.

*Check sources*

* the edit of a manual test looks at the store without a commit before: while a
  failed save of someone else is open, it empties the registry and answers
  success (`core/checks.py:39`);
* a check that changes from manual to automated under one id finds its own entry
  in the registry, and reloads fail until a restart (`core/registry.py:29`);
* two reloads at once can each purge a module of the other: status 500
  (`core/checks.py:285`);
* a crash in an edit, or two edits of one check, can leave a broken module on disk,
  and then the next start fails at its import (`web/server.py:1629`);
* the checkout of a source whose sync failed keeps contributing checks, which
  `core/checks.py:106` denies.

*Store*

* a failed save is made permanent by the next commit of anybody, and until then
  backups and restores fail (`store/repo.py:141-144`);
* a bench saved without boards is filled again from the tables of the early version
  at the next start, and credentials of inventory boards are entered again at each
  one (`store/repo.py:175`, 733);
* benches of an early version are to be moved "into the inventory + link tables"
  (`store/repo.py:163`); they are read as `vectors` and `hooks` and written as `drivers`
  and `actions` (`store/repo.py:114`), so their wiring stays behind, for good;
* a start that ends between two seed files never reads the rest
  (`web/server.py:475`).

*Users and reports*

* "never leave the store with zero admins" (`web/server.py:779`): two admins that are
  not the built-in one and remove each other at the same time leave none, because
  each counted two (`web/server.py:781`, 800). `Admins # {}` alone, as an invariant of
  `reports`, fails after twelve states; `AdminRemains` excepts it by `raced`;
* a demoted or deleted user keeps the rights of the login until a restart
  (`web/server.py:726`);
* a report is private until published, but `/api/runs` and `/api/evidence` show the
  records and files of every run to every login (`web/server.py:930`, 1070);
* md and html show nothing of a record whose check is a test of no requirement of the
  run, and twice one that is of two (`core/report.py:113-124`);
* a report that was restored on another server shows what that server has under its
  id, which is nothing or another run (`web/server.py:896`, 935);
* half a line in `runs.jsonl` after a crash glues itself to the next run's first
  one, and every page that reads the history fails from then on
  (`web/server.py:76`, 942);
* an id that repeats after the clock was set back takes over the row, and keeps
  its visibility (`store/repo.py:433-444`);
* `atf report` appends the records it regenerates a second time
  (`cli.py:251-254`), so old verdicts become the latest of the matrix.

## 6. Not modelled, and what could come next

* *Agent files* (`web/server.py:1945`): two new tests with one id, two polls of one
  job (`web/server.py:2016`), the trees that late uploads leave behind
  (`web/agents.py:129`). A module over `AgentHub` with the agent's files.
* *Inside a dict*: `has_pending` iterates over dicts that other threads change
  (`web/agents.py:70`); it needs steps finer than a handler's.
* *Reads in two critical sections*: `inventory_bench` (`store/repo.py:786`) reads
  wiring and secrets apart.
* *Two processes on one store*: the command line beside the server.
* *A prompt in a dev run* (`core/manual.py:32`): whether a check prompts is up to
  code outside the repository.
* A proof for `RegistryIsAsRead` without `OneProvider` needs another statement: which of
  two sources with one check an edit leaves is decided by `sys.path`.

Device I/O over SSH, serial lines and nmap, rendering, the page, the AI pack and
deployment are left out: they keep no state that several actors share, or run
outside the repository.
