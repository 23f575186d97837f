------------------------------- MODULE PilotRun -------------------------------
(***************************************************************************)
(* The run engine of the web server: class RunState of web/server.py with  *)
(* the loop of core/runner.py it drives.  Every HTTP request runs in a     *)
(* thread of its own and RunState is shared without a lock (RunState.lock  *)
(* only admits one worker), so a request is a few steps, each of which     *)
(* reads or writes the shared state once.                                  *)
(*                                                                         *)
(*   start            POST /api/run      -> a worker thread (_run)         *)
(*   request_cancel   POST /api/run/cancel                                 *)
(*   answer           POST /api/manual                                     *)
(*                                                                         *)
(* A plan is a sequence of units: what the runner does between two looks   *)
(* at the cancel flag.  "auto" is a check run in process, "manual" one     *)
(* that asks the operator, "batch" the container checks of one dispatch.   *)
(* Labels (who, plan) and the contents of records are left out.            *)
(***************************************************************************)
EXTENDS Naturals, Sequences

CONSTANTS
  Reqs, Cancels, Answers,   \* request threads, by endpoint
  Plans,                    \* the sequences of units a run may have
  MaxUnits,                 \* bound on their length
  Bench,                    \* the one resource every run touches
  Other,                    \* another holder of the bench (workbench, agent run)
  NoReq, NoRun, NoPrompt, NoCaller

Units == {"auto", "manual", "batch"}

ASSUME PilotAssumption ==
  /\ MaxUnits \in Nat
  /\ \A plan \in Plans : plan \in Seq(Units) /\ Len(plan) <= MaxUnits
  /\ NoReq \notin Reqs
  /\ NoRun \notin Reqs \cup {Other}
  /\ Other \notin Reqs

Callers == Cancels \cup Answers

\* A prompt is named by its run and by how much of the plan is left.
Prompts == Reqs \X (0..MaxUnits)

ASSUME PromptAssumption ==
  /\ NoPrompt \notin Prompts /\ NoCaller \notin Callers
  /\ Cancels \cap Answers = {}

VARIABLES
  runLock,      \* RunState.lock: whose worker holds it
  active,       \* RunState.active
  cancelFlag,   \* RunState.cancel_event
  pending,      \* RunState.pending: the prompt on display
  events,       \* RunState.events; an event's run is history
  prompter,     \* manual._PROMPTER: the run that installed it
  held,         \* ResourceLocks._held
  pc,           \* where each start request, then its worker, is
  todo,         \* the units a worker has not begun
  prompt,       \* the prompt objects: who answered, and whether the Event is set
  caller,       \* cancel and answer requests: step, prompt in hand, run seen active
  outcome,      \* history: how each run ended
  stopped,      \* history: the runs during which the cancel flag was set
  timedOut      \* history: the prompts whose wait timed out

stateVars == <<active, cancelFlag, pending>>
workVars == <<runLock, pc, todo, outcome, timedOut>>
benchVars == <<prompter, held>>
callVars == <<caller, stopped>>
vars == <<stateVars, workVars, benchVars, callVars, events, prompt>>

INSTANCE ResourceLocks WITH Resources <- {Bench}, RunIds <- Reqs \cup {Other}

Terminal == {"done", "error"}

\* Where a worker is while it has the bench, and while it is alive.
Checking == {"loop", "checking", "dispatching", "prompting", "waiting", "answered"}
OnBench == Checking \cup {"agent", "report"}
Working == OnBench \cup {"spawned", "select", "locking", "finally"}
\* Where RunState.lock is held.
Inside == Working \cup {"claimed", "reset", "unlock"}

Event(type, q) == [type |-> type, run |-> q, prompt |-> NoPrompt, by |-> NoCaller]
Emit(event) == events' = Append(events, event)

Events == [type : Terminal \cup {"start", "plan", "record", "manual", "manual-done", "cancelling"},
           run : Reqs, prompt : Prompts \cup {NoPrompt}, by : Callers \cup {NoCaller}]

TypeOK ==
  /\ runLock \in Reqs \cup {NoReq}
  /\ active \in BOOLEAN /\ cancelFlag \in BOOLEAN
  /\ pending \in Prompts \cup {NoPrompt}
  /\ events \in Seq(Events)
  /\ prompter \in Reqs \cup {NoReq}
  /\ LocksTypeOK
  /\ pc \in [Reqs -> Inside \cup {"idle", "refused", "ended"}]
  /\ todo \in [Reqs -> {p \in Seq(Units) : Len(p) <= MaxUnits}]
  /\ prompt \in [Prompts -> [by : Callers \cup {NoCaller}, set : BOOLEAN]]
  /\ caller \in [Callers -> [at : {"idle", "set", "pick", "write", "emit", "done", "no"},
                             prompt : Prompts \cup {NoPrompt}, run : Reqs \cup {NoReq}]]
  /\ outcome \in [Reqs -> {"open", "refused", "silent"} \cup Terminal]
  /\ stopped \subseteq Reqs /\ timedOut \subseteq Prompts

Init ==
  /\ runLock = NoReq
  /\ active = FALSE /\ cancelFlag = FALSE
  /\ pending = NoPrompt
  /\ events = <<>>
  /\ prompter = NoReq
  /\ LocksInit
  /\ pc = [q \in Reqs |-> "idle"]
  /\ todo = [q \in Reqs |-> <<>>]
  /\ prompt = [p \in Prompts |-> [by |-> NoCaller, set |-> FALSE]]
  /\ caller = [c \in Callers |-> [at |-> "idle", prompt |-> NoPrompt, run |-> NoReq]]
  /\ outcome = [q \in Reqs |-> "open"]
  /\ stopped = {} /\ timedOut = {}

Move(q, from, to) == pc[q] = from /\ pc' = [pc EXCEPT ![q] = to]

-----------------------------------------------------------------------------
(* start *)

\* Mutant: a start is refused although no run is active.
StartRefusedAnyway(q) ==
  /\ Move(q, "idle", "refused")
  /\ outcome' = [outcome EXCEPT ![q] = "refused"]
  /\ UNCHANGED <<stateVars, runLock, todo, timedOut, benchVars, callVars, events, prompt>>

\* if not self.lock.acquire(blocking=False): return False
StartRefused(q) ==
  /\ runLock # NoReq
  /\ Move(q, "idle", "refused")
  /\ outcome' = [outcome EXCEPT ![q] = "refused"]
  /\ UNCHANGED <<stateVars, runLock, todo, timedOut, benchVars, callVars, events, prompt>>

StartClaim(q) ==
  /\ runLock = NoReq
  /\ Move(q, "idle", "claimed")
  /\ runLock' = q
  /\ UNCHANGED <<stateVars, todo, outcome, timedOut, benchVars, callVars, events, prompt>>

\* A new list of events replaces the old one.
StartReset(q) ==
  /\ Move(q, "claimed", "reset")
  /\ events' = <<>> /\ pending' = NoPrompt
  /\ UNCHANGED <<active, cancelFlag, runLock, todo, outcome, timedOut, benchVars, callVars, prompt>>

\* cancel_event.clear(), active = True, and the worker thread starts.
StartArm(q) ==
  /\ Move(q, "reset", "spawned")
  /\ cancelFlag' = FALSE /\ active' = TRUE
  /\ UNCHANGED <<pending, runLock, todo, outcome, timedOut, benchVars, callVars, events, prompt>>

Start(q) == StartRefused(q) \/ StartClaim(q) \/ StartReset(q) \/ StartArm(q)

-----------------------------------------------------------------------------
(* _run *)

\* The run's fate is told: a terminal event, then `finally`.
Settle(q, fate) ==
  /\ Emit(Event(fate, q))
  /\ outcome' = [outcome EXCEPT ![q] = fate]

EmitStart(q) ==
  /\ Move(q, "spawned", "select")
  /\ Emit(Event("start", q))
  /\ UNCHANGED <<stateVars, runLock, todo, outcome, timedOut, benchVars, callVars, prompt>>

\* Checks of the server, or else an agent of the owner's that has them.
Select(q) ==
  /\ Move(q, "select", "locking")
  /\ UNCHANGED <<stateVars, runLock, todo, outcome, timedOut, benchVars, callVars, events, prompt>>

\* Nothing selected and no agent: "done" with a note.  A suite or a bench that
\* cannot be loaded raises.
SelectNothing(q) ==
  /\ Move(q, "select", "finally")
  /\ \E fate \in Terminal : Settle(q, fate)
  /\ UNCHANGED <<stateVars, runLock, todo, timedOut, benchVars, callVars, prompt>>

\* locks.acquire, set_prompter, then the plan: checks, or "via agent".
LockGranted(q) ==
  /\ \/ \E plan \in Plans : Move(q, "locking", "loop") /\ todo' = [todo EXCEPT ![q] = plan]
     \/ Move(q, "locking", "agent") /\ UNCHANGED todo
  /\ Acquire({Bench}, q)
  /\ prompter' = q
  /\ Emit(Event("plan", q))
  /\ UNCHANGED <<stateVars, runLock, outcome, timedOut, callVars, prompt>>

LockBusy(q) ==
  /\ Move(q, "locking", "finally")
  /\ Reject({Bench}, q)
  /\ Settle(q, "error")
  /\ UNCHANGED <<stateVars, runLock, todo, timedOut, prompter, callVars, prompt>>

\* runner.run: `if cancelled(): break`, or no unit left.
LoopExit(q) ==
  /\ cancelFlag \/ todo[q] = <<>>
  /\ Move(q, "loop", "report")
  /\ UNCHANGED <<stateVars, runLock, todo, outcome, timedOut, benchVars, callVars, events, prompt>>

UnitStep == [auto |-> "checking", manual |-> "prompting", batch |-> "dispatching"]

\* Mutant: the loop does not look at the cancel flag.
BeginUnitAnyway(q) ==
  /\ todo[q] # <<>>
  /\ Move(q, "loop", UnitStep[Head(todo[q])])
  /\ todo' = [todo EXCEPT ![q] = Tail(@)]
  /\ UNCHANGED <<stateVars, runLock, outcome, timedOut, benchVars, callVars, events, prompt>>

BeginUnit(q) ==
  /\ ~cancelFlag /\ todo[q] # <<>>
  /\ Move(q, "loop", UnitStep[Head(todo[q])])
  /\ todo' = [todo EXCEPT ![q] = Tail(@)]
  /\ UNCHANGED <<stateVars, runLock, outcome, timedOut, benchVars, callVars, events, prompt>>

PromptOf(q) == <<q, Len(todo[q])>>

\* _web_prompter: a fresh prompt object goes on display ...
RaisePrompt(q) ==
  /\ Move(q, "prompting", "waiting")
  /\ pending' = PromptOf(q)
  /\ prompt' = [prompt EXCEPT ![PromptOf(q)] = [by |-> NoCaller, set |-> FALSE]]
  /\ Emit([Event("manual", q) EXCEPT !.prompt = PromptOf(q)])
  /\ UNCHANGED <<active, cancelFlag, runLock, todo, outcome, timedOut, benchVars, callVars>>

\* ... ev.wait(timeout=1800) ...
PromptSet(q) ==
  /\ prompt[PromptOf(q)].set
  /\ Move(q, "waiting", "answered")
  /\ UNCHANGED <<stateVars, runLock, todo, outcome, timedOut, benchVars, callVars, events, prompt>>

\* Mutant: ev.wait() with no timeout.
PromptNeverTimesOut(q) == FALSE /\ UNCHANGED vars

PromptTimeout(q) ==
  /\ ~prompt[PromptOf(q)].set
  /\ Move(q, "waiting", "answered")
  /\ timedOut' = timedOut \cup {PromptOf(q)}
  /\ UNCHANGED <<stateVars, runLock, todo, outcome, benchVars, callVars, events, prompt>>

\* Mutant: the prompt stays on display once it is answered.
TakeAnswerLeavesPending(q) ==
  /\ Move(q, "answered", "checking")
  /\ Emit([Event("manual-done", q) EXCEPT
             !.prompt = pending,
             !.by = IF pending = NoPrompt THEN NoCaller ELSE prompt[pending].by])
  /\ UNCHANGED <<stateVars, runLock, todo, outcome, timedOut, benchVars, callVars, prompt>>

\* Mutant: the prompter serves one prompt and uninstalls itself.
TakeAnswerUninstalls(q) ==
  /\ Move(q, "answered", "checking")
  /\ Emit([Event("manual-done", q) EXCEPT
             !.prompt = pending,
             !.by = IF pending = NoPrompt THEN NoCaller ELSE prompt[pending].by])
  /\ pending' = NoPrompt /\ prompter' = NoReq
  /\ UNCHANGED <<active, cancelFlag, held, runLock, todo, outcome, timedOut, callVars, prompt>>

\* ... and the answer found in it, if any, becomes the verdict.
TakeAnswer(q) ==
  /\ Move(q, "answered", "checking")
  /\ Emit([Event("manual-done", q) EXCEPT
             !.prompt = pending,
             !.by = IF pending = NoPrompt THEN NoCaller ELSE prompt[pending].by])
  /\ pending' = NoPrompt
  /\ UNCHANGED <<active, cancelFlag, runLock, todo, outcome, timedOut, benchVars, callVars, prompt>>

FinishUnit(q) ==
  /\ Move(q, "checking", "loop") \/ Move(q, "dispatching", "loop")
  /\ Emit(Event("record", q))
  /\ UNCHANGED <<stateVars, runLock, todo, outcome, timedOut, benchVars, callVars, prompt>>

\* Mutant: the error is told and the loop goes on.
UnitRaisesAndGoesOn(q) ==
  /\ Move(q, "checking", "loop") \/ Move(q, "dispatching", "loop")
  /\ Settle(q, "error")
  /\ UNCHANGED <<stateVars, runLock, todo, timedOut, benchVars, callVars, prompt>>

\* The dispatch raises, or a check returns no Result: run_check then fails
\* outside its try.  An Exception is caught by _run.
UnitRaises(q) ==
  /\ Move(q, "checking", "finally") \/ Move(q, "dispatching", "finally")
  /\ Settle(q, "error")
  /\ UNCHANGED <<stateVars, runLock, todo, timedOut, benchVars, callVars, prompt>>

\* The check raises SystemExit: neither run_check nor _run catches it.
UnitExits(q) ==
  /\ Move(q, "checking", "finally")
  /\ outcome' = [outcome EXCEPT ![q] = "silent"]
  /\ UNCHANGED <<stateVars, runLock, todo, timedOut, benchVars, callVars, events, prompt>>

\* _agent_worker_run: it never looks at the cancel flag.
AgentReturns(q) ==
  /\ Move(q, "agent", "report")
  /\ Emit(Event("record", q))
  /\ UNCHANGED <<stateVars, runLock, todo, outcome, timedOut, benchVars, callVars, prompt>>

\* Via an agent the worker may time out or fail; writing the report may fail.
Conclude(q) ==
  /\ \/ Move(q, "report", "finally") /\ \E fate \in Terminal : Settle(q, fate)
     \/ Move(q, "agent", "finally") /\ Settle(q, "error")
  /\ UNCHANGED <<stateVars, runLock, todo, timedOut, benchVars, callVars, prompt>>

\* Mutant: `finally` does not release the bench.
CleanupKeepsBench(q) ==
  /\ Move(q, "finally", "unlock")
  /\ prompter' = NoReq
  /\ active' = FALSE
  /\ UNCHANGED <<cancelFlag, pending, held, runLock, todo, outcome, timedOut, callVars,
                 events, prompt>>

\* finally: set_prompter(None), locks.release, active = False ...
Cleanup(q) ==
  /\ Move(q, "finally", "unlock")
  /\ prompter' = NoReq
  /\ Release(q)
  /\ active' = FALSE
  /\ UNCHANGED <<cancelFlag, pending, runLock, todo, outcome, timedOut, callVars, events, prompt>>

\* ... lock.release()
Unlock(q) ==
  /\ Move(q, "unlock", "ended")
  /\ runLock' = NoReq
  /\ UNCHANGED <<stateVars, todo, outcome, timedOut, benchVars, callVars, events, prompt>>

Worker(q) ==
  \/ EmitStart(q) \/ Select(q) \/ SelectNothing(q) \/ LockGranted(q) \/ LockBusy(q)
  \/ LoopExit(q) \/ BeginUnit(q) \/ RaisePrompt(q) \/ PromptSet(q) \/ PromptTimeout(q)
  \/ TakeAnswer(q) \/ FinishUnit(q) \/ UnitRaises(q) \/ UnitExits(q)
  \/ AgentReturns(q) \/ Conclude(q) \/ Cleanup(q) \/ Unlock(q)

-----------------------------------------------------------------------------
(* request_cancel and answer *)

Step(c, from, to) == caller[c].at = from /\ caller' = [caller EXCEPT ![c].at = to]

\* if not self.active: return False
CancelLook(c) ==
  /\ caller[c].at = "idle"
  /\ caller' = [caller EXCEPT ![c] = [at |-> IF active THEN "set" ELSE "no",
                                      prompt |-> NoPrompt,
                                      run |-> IF active THEN runLock ELSE NoReq]]
  /\ UNCHANGED <<stateVars, workVars, benchVars, stopped, events, prompt>>

CancelSet(c) ==
  /\ Step(c, "set", "pick")
  /\ cancelFlag' = TRUE
  /\ stopped' = IF active THEN stopped \cup {runLock} ELSE stopped
  /\ UNCHANGED <<active, pending, workVars, benchVars, events, prompt>>

\* p = self.pending
Pick(c, from, none) ==
  /\ caller[c].at = from
  /\ caller' = [caller EXCEPT ![c].at = IF pending = NoPrompt THEN none ELSE "write",
                              ![c].prompt = pending]
  /\ UNCHANGED <<stateVars, workVars, benchVars, stopped, events, prompt>>

\* Mutant: self.pending is read a second time for the answer.
WriteToShown(c, next) ==
  /\ Step(c, "write", next)
  /\ prompt' = [p \in Prompts |-> IF p = pending THEN [by |-> c, set |-> TRUE] ELSE prompt[p]]
  /\ UNCHANGED <<stateVars, workVars, benchVars, stopped, events>>

\* p["answer"] = ...; p["ev"].set(), on the object picked, shown or not
Write(c, next) ==
  /\ Step(c, "write", next)
  /\ prompt' = [prompt EXCEPT ![caller[c].prompt] = [by |-> c, set |-> TRUE]]
  /\ UNCHANGED <<stateVars, workVars, benchVars, stopped, events>>

CancelEmit(c) ==
  /\ Step(c, "emit", "done")
  /\ Emit(Event("cancelling", caller[c].run))
  /\ UNCHANGED <<stateVars, workVars, benchVars, stopped, prompt>>

request_cancel(c) ==
  CancelLook(c) \/ CancelSet(c) \/ Pick(c, "pick", "emit") \/ Write(c, "emit") \/ CancelEmit(c)

answer(a) == Pick(a, "idle", "no") \/ Write(a, "done")

-----------------------------------------------------------------------------
(* The other users of the bench, and the admin's forced unlock *)

OthersTakeBench ==
  /\ held[Bench] = NoRun
  /\ Acquire({Bench}, Other)
  /\ UNCHANGED <<stateVars, workVars, prompter, callVars, events, prompt>>

OthersLeaveBench ==
  /\ held[Bench] = Other
  /\ Release(Other)
  /\ UNCHANGED <<stateVars, workVars, prompter, callVars, events, prompt>>

AdminUnlocks ==
  /\ held[Bench] \in Reqs
  /\ ForceRelease(Bench)
  /\ UNCHANGED <<stateVars, workVars, prompter, callVars, events, prompt>>

Next ==
  \/ \E q \in Reqs : Start(q) \/ Worker(q)
  \/ \E c \in Cancels : request_cancel(c)
  \/ \E a \in Answers : answer(a)
  \/ OthersTakeBench \/ OthersLeaveBench \/ AdminUnlocks

Spec == Init /\ [][Next]_vars

\* A thread that can take a step does: a worker's checks return, a prompt's
\* wait is bounded, a request that has begun goes on.
Fairness ==
  /\ \A q \in Reqs : WF_vars(Worker(q)) /\ WF_vars(StartReset(q)) /\ WF_vars(StartArm(q))
  /\ \A c \in Cancels : WF_vars(CancelSet(c) \/ Pick(c, "pick", "emit")
                                \/ Write(c, "emit") \/ CancelEmit(c))
  /\ \A a \in Answers : WF_vars(Write(a, "done"))

FairSpec == Spec /\ Fairness

-----------------------------------------------------------------------------
(* Properties *)

\* One run at a time: no two start requests are between claiming RunState.lock
\* and giving it back, whatever the order of starts and ends.
OneRunAtATime ==
  \A q \in Reqs : pc[q] \in Inside => runLock = q

\* The status never says idle while a worker is alive, so a cancel request
\* always finds it.
InactiveMeansIdle ==
  ~active => \A q \in Reqs : pc[q] \notin Working

\* The prompt on display belongs to the run in progress, which is waiting for
\* it: no prompt of an ended run is left behind, none is overwritten.
PendingIsLive ==
  pending # NoPrompt =>
    \E q \in Reqs : pc[q] \in {"waiting", "answered"} /\ pending = PromptOf(q)

\* A worker on the bench has its own prompter installed, and it is removed
\* with the run: no run's `finally` removes another's.
PrompterIsLive ==
  \A q \in Reqs : pc[q] \in OnBench => prompter = q

\* The bench is never left locked under a run that is over.
NoBenchLeak ==
  held[Bench] \in Reqs => pc[held[Bench]] \in OnBench \cup {"finally"}

\* After a run's terminal event its list holds nothing of the run but notices
\* of late cancels: a client may stop reading there.
TerminalIsLast ==
  \A i, j \in DOMAIN events :
    i < j /\ events[i].type \in Terminal /\ events[i].run = events[j].run
      => events[j].type = "cancelling"

\* The verdict of a manual check comes from a caller that answered this very
\* prompt, or from nobody because the wait timed out.
VerdictSource ==
  \A i \in DOMAIN events : events[i].type = "manual-done" =>
    IF events[i].by = NoCaller
      THEN events[i].prompt \in timedOut
      ELSE caller[events[i].by].prompt = events[i].prompt

\* Once the flag is set during a run, that run begins no further unit.
NoUnitAfterCancel ==
  [][\A q \in stopped : pc[q] \in OnBench => todo'[q] = todo[q]]_vars

\* A started run ends: nothing blocks it for ever.
RunsEnd == \A q \in Reqs : pc[q] = "claimed" ~> pc[q] = "ended"

\* An accepted run settles its fate once, before it makes room for the next.
Lifecycle == INSTANCE RunLifecycle WITH slot <- runLock, fate <- outcome
ImplementsLifecycle == Lifecycle!Spec

=============================================================================
