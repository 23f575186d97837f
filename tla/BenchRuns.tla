------------------------------- MODULE BenchRuns -------------------------------
(***************************************************************************)
(* Who takes the bench locks and gives them back (web/server.py): the      *)
(* pilot (RunState.start / _run, one at a time), the workbench's dev_run   *)
(* and agent_run, each in a request thread of its own, and the admin's     *)
(* forced unlock.  What a run does between taking and giving back its      *)
(* resources is the subject of PilotRun.                                   *)
(***************************************************************************)
EXTENDS Naturals, FiniteSets

CONSTANTS
  Boards, Agents, Aliases,
  DriverAgent,    \* board -> driver alias -> the agent of that driver, or NoAgent
  ActionAgents,   \* board -> the agents its actions use
  NoAgent,
  UnknownBoard,   \* a board name the bench does not have
  PilotReqs, DevReqs, AgentReqs,   \* request threads, by endpoint
  Prefix,         \* request -> the fixed part of its run id
  MaxMs,          \* bound of the millisecond clock
  UniqueMs,       \* TRUE: overlapping runs of one prefix never share a millisecond
  NoRun, NoReq

Handlers == PilotReqs \cup DevReqs \cup AgentReqs

ASSUME BenchAssumption ==
  /\ DriverAgent \in [Boards -> [Aliases -> Agents \cup {NoAgent}]]
  /\ ActionAgents \in [Boards -> SUBSET Agents]
  /\ NoAgent \notin Agents
  /\ UnknownBoard \notin Boards

ASSUME RequestAssumption ==
  /\ PilotReqs \cap DevReqs = {}
  /\ PilotReqs \cap AgentReqs = {}
  /\ DevReqs \cap AgentReqs = {}
  /\ NoReq \notin Handlers
  /\ UniqueMs \in BOOLEAN
  /\ MaxMs \in Nat

Resources == ({"board"} \X Boards) \cup ({"agent"} \X Agents)

\* f"run-{ms}", f"dev-{ms}", f"agent-{name}-{ms}"
RunIds == {Prefix[h] : h \in Handlers} \X (0..MaxMs)

ASSUME NoRunAssumption == NoRun \notin RunIds

-----------------------------------------------------------------------------
(* touched_resources *)

\* The driver aliases whose agents are locked; a run connects to those of the
\* others as well (_build_ctx), unlocked.
LockedAliases == {"console", "craft"}

\* An empty selection means every board of the bench.
Targets(selection) == IF selection = {} THEN Boards ELSE selection \cap Boards

AgentsOf(board, aliases) ==
  ({DriverAgent[board][alias] : alias \in aliases \cap Aliases} \ {NoAgent})
     \cup ActionAgents[board]

touched_resources(selection) ==
  {<<"board", b>> : b \in Targets(selection)}
    \cup UNION {{<<"agent", a>> : a \in AgentsOf(b, LockedAliases)} :
                  b \in Targets(selection)}

-----------------------------------------------------------------------------
VARIABLES
  held,      \* ResourceLocks._held
  runLock,   \* RunState.lock: the pilot request whose worker holds it
  pc,        \* where each request is
  runId,     \* the id it locked under
  sel,       \* the boards it asked for
  lost,      \* history: resources an admin took from it while it ran
  stray,     \* history: ids that locked for a run that never began
  now        \* the clock, in milliseconds

vars == <<held, runLock, pc, runId, sel, lost, stray, now>>

INSTANCE ResourceLocks

TypeOK ==
  /\ LocksTypeOK
  /\ runLock \in PilotReqs \cup {NoReq}
  /\ pc \in [Handlers -> {"idle", "starting", "running", "unlocking"}]
  /\ runId \in [Handlers -> RunIds \cup {NoRun}]
  /\ sel \in [Handlers -> SUBSET (Boards \cup {UnknownBoard})]
  /\ lost \in [Handlers -> SUBSET Resources]
  /\ stray \subseteq RunIds
  /\ now \in 0..MaxMs

Init ==
  /\ LocksInit
  /\ runLock = NoReq
  /\ pc = [h \in Handlers |-> "idle"]
  /\ runId = [h \in Handlers |-> NoRun]
  /\ sel = [h \in Handlers |-> {}]
  /\ lost = [h \in Handlers |-> {}]
  /\ stray = {}
  /\ now = 0

Running == {h \in Handlers : pc[h] = "running"}

\* The id a request computes now, and the assumption under which it is new.
IdNow(h) == <<Prefix[h], now>>
IdIsNew(h) == IdNow(h) \notin stray /\ \A g \in Running : runId[g] # IdNow(h)

\* locks.acquire(touched_resources(bench, boards), run_id) succeeded.
Begin(h, selection) ==
  /\ UniqueMs => IdIsNew(h)
  /\ Acquire(touched_resources(selection), IdNow(h))
  /\ pc' = [pc EXCEPT ![h] = "running"]
  /\ runId' = [runId EXCEPT ![h] = IdNow(h)]
  /\ sel' = [sel EXCEPT ![h] = selection]
  /\ lost' = [lost EXCEPT ![h] = {}]
  /\ UNCHANGED <<runLock, stray, now>>

\* Mutant: the run ends without locks.release.
EndWithoutRelease(h, next) ==
  /\ pc' = [pc EXCEPT ![h] = next]
  /\ runId' = [runId EXCEPT ![h] = NoRun]
  /\ sel' = [sel EXCEPT ![h] = {}]
  /\ lost' = [lost EXCEPT ![h] = {}]
  /\ UNCHANGED <<held, runLock, stray, now>>

\* The `finally` of a run: locks.release(run_id).
End(h, next) ==
  /\ Release(runId[h])
  /\ pc' = [pc EXCEPT ![h] = next]
  /\ runId' = [runId EXCEPT ![h] = NoRun]
  /\ sel' = [sel EXCEPT ![h] = {}]
  /\ lost' = [lost EXCEPT ![h] = {}]
  /\ UNCHANGED <<runLock, stray, now>>

-----------------------------------------------------------------------------
(* Pilot: RunState *)

\* start: taken only if no pilot run is active; otherwise it is refused and
\* nothing changes.
PilotStart(h) ==
  /\ pc[h] = "idle" /\ runLock = NoReq
  /\ runLock' = h
  /\ pc' = [pc EXCEPT ![h] = "starting"]
  /\ UNCHANGED <<held, runId, sel, lost, stray, now>>

\* _run ends before it asks for locks: nothing selected and no agent to run
\* it, or the suite or the bench cannot be loaded.
PilotAbort(h) ==
  /\ pc[h] = "starting"
  /\ pc' = [pc EXCEPT ![h] = "unlocking"]
  /\ UNCHANGED <<held, runLock, runId, sel, lost, stray, now>>

PilotAcquire(h) ==
  /\ pc[h] = "starting"
  /\ \E selection \in SUBSET (Boards \cup {UnknownBoard}) : Begin(h, selection)

\* "bench busy": the run ends with lock_held false, so releases nothing.
PilotBusy(h) ==
  /\ pc[h] = "starting"
  /\ \E selection \in SUBSET (Boards \cup {UnknownBoard}) :
       Reject(touched_resources(selection), IdNow(h))
  /\ pc' = [pc EXCEPT ![h] = "unlocking"]
  /\ UNCHANGED <<runLock, runId, sel, lost, stray, now>>

\* The checks are done, were cancelled or raised.
PilotRelease(h) ==
  /\ h \in PilotReqs /\ pc[h] = "running"
  /\ End(h, "unlocking")

PilotUnlock(h) ==
  /\ pc[h] = "unlocking"
  /\ runLock' = NoReq
  /\ pc' = [pc EXCEPT ![h] = "idle"]
  /\ UNCHANGED <<held, runId, sel, lost, stray, now>>

-----------------------------------------------------------------------------
(* Workbench: dev_run and agent_run.  A conflict answers 409 and changes   *)
(* nothing.  dev_run has checked that the board exists, agent_run has not. *)

DevAcquire(h) ==
  /\ pc[h] = "idle"
  /\ \E b \in Boards : Begin(h, {b})

\* tempfile.mkdtemp fails between locks.acquire and the `try`: the request ends
\* in status 500, and nothing will ever release its id.
DevNoDir(h) ==
  /\ pc[h] = "idle"
  /\ UniqueMs => IdIsNew(h)
  /\ \E b \in Boards : Acquire(touched_resources({b}), IdNow(h))
  /\ stray' = stray \cup {IdNow(h)}
  /\ UNCHANGED <<runLock, pc, runId, sel, lost, now>>

AgentAcquire(h) ==
  /\ pc[h] = "idle"
  /\ \E b \in Boards \cup {UnknownBoard} : Begin(h, {b})

WorkbenchEnd(h) ==
  /\ pc[h] = "running"
  /\ End(h, "idle")

-----------------------------------------------------------------------------
\* DELETE /api/locks/{resource}
locks_force(r) ==
  /\ held[r] # NoRun
  /\ ForceRelease(r)
  /\ lost' = [h \in Handlers |->
                IF h \in Running /\ runId[h] = held[r] THEN lost[h] \cup {r}
                                                       ELSE lost[h]]
  /\ UNCHANGED <<runLock, pc, runId, sel, stray, now>>

Tick ==
  /\ now < MaxMs
  /\ now' = now + 1
  /\ UNCHANGED <<held, runLock, pc, runId, sel, lost, stray>>

Pilot(h) == \/ PilotStart(h) \/ PilotAbort(h) \/ PilotAcquire(h)
            \/ PilotBusy(h) \/ PilotRelease(h) \/ PilotUnlock(h)

Next ==
  \/ \E h \in PilotReqs : Pilot(h)
  \/ \E h \in DevReqs : DevAcquire(h) \/ DevNoDir(h)
  \/ \E h \in AgentReqs : AgentAcquire(h)
  \/ \E h \in DevReqs \cup AgentReqs : WorkbenchEnd(h)
  \/ \E r \in Resources : locks_force(r)
  \/ Tick

Spec == Init /\ [][Next]_vars

\* A run ends: a prompt waits 1800 s, an agent's worker 900 s, a check is taken
\* to return, and `finally` runs whatever happened.
Fairness ==
  /\ \A h \in PilotReqs : WF_vars(PilotRelease(h)) /\ WF_vars(PilotUnlock(h))
  /\ \A h \in PilotReqs : WF_vars(PilotAcquire(h) \/ PilotBusy(h) \/ PilotAbort(h))
  /\ \A h \in DevReqs \cup AgentReqs : WF_vars(WorkbenchEnd(h))

FairSpec == Spec /\ Fairness

-----------------------------------------------------------------------------
(* Properties *)

\* What a run has locked and nobody took away.
Owned(h) == touched_resources(sel[h]) \ lost[h]

\* "Another run needing ANY held resource is rejected": two runs that overlap
\* share no board, and no agent that touched_resources finds, unless the admin
\* took it from one of them.
BenchExclusive ==
  \A g, h \in Running : g # h => Owned(g) \cap Owned(h) = {}

\* A run never loses a lock before it ends except to the admin: neither to
\* another run's acquire nor to another run's release.
HoldsWhatItTouches ==
  \A h \in Running : \A r \in Owned(h) : held[r] = runId[h]

\* No lock outlives its run, on any path past the `try` of its request: whoever
\* is in the table is running and asked for that resource, or is a dev run that
\* got its locks and no directory.
NoOrphanLock ==
  \A r \in Resources : held[r] # NoRun =>
     \/ \E h \in Running : runId[h] = held[r] /\ r \in Owned(h)
     \/ held[r] \in stray

\* Only the pilot request that holds RunState.lock has a worker.
OnePilot ==
  \A h \in PilotReqs : pc[h] # "idle" => runLock = h

\* A lock leaves the table only when its own run ends or the admin breaks it,
\* and never passes from one run to another in a step.  The lock of a run that
\* never began is freed by the admin alone, one resource at a time.
OnlyOwnerReleases ==
  [][\A r \in Resources : held[r] # NoRun /\ held'[r] # held[r] =>
        /\ held'[r] = NoRun
        /\ \/ \E h \in Running : /\ runId[h] = held[r]
                                 /\ h \notin Running' \/ r \in lost'[h]
           \/ held[r] \in stray /\ held' = [held EXCEPT ![r] = NoRun]]_vars

\* Every lock of a run that began is eventually given back, and so is
\* RunState.lock: a refused pilot can be retried.
LocksAreFreed ==
  /\ \A r \in Resources :
       held[r] # NoRun ~> held[r] = NoRun \/ held[r] \in stray
  /\ runLock # NoReq ~> runLock = NoReq

\* The table of ids implements exclusive use of resources.
Using == [h \in Handlers |-> IF h \in Running THEN HeldBy(runId[h]) ELSE {}]
Mutex == INSTANCE BenchMutex WITH using <- Using
ImplementsMutex == Mutex!Spec

=============================================================================
