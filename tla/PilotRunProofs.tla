---------------------------- MODULE PilotRunProofs ----------------------------
(***************************************************************************)
(* Proofs about PilotRun, for any set of requests and any plans.  The      *)
(* invariant is built in layers.  Typed is inductive by itself: its part   *)
(* Control says whose worker is where.  Every other layer rests on it: the *)
(* bench, the prompt on display, verdicts, fates, the order of events, the *)
(* cancel flag.  Each variable has a lemma naming the steps that touch it. *)
(***************************************************************************)
EXTENDS PilotRun, TLAPS

-----------------------------------------------------------------------------
(* The layers *)

\* RunState.lock is held by the one request that is inside, and `active` says
\* whether its worker is alive.
LockHolderIsInside == runLock # NoReq => pc[runLock] \in Inside
ActiveIsWorking == active <=> (runLock # NoReq /\ pc[runLock] \in Working)

\* A cancel that got past its look knows a run.
CancelKnowsRun ==
  \A c \in Cancels : caller[c].at \in {"set", "pick", "write", "emit"} => caller[c].run \in Reqs

Control == OneRunAtATime /\ LockHolderIsInside /\ ActiveIsWorking

Typed == TypeOK /\ Control /\ CancelKnowsRun

-----------------------------------------------------------------------------
(* Types *)

\* The events the engine makes are well formed.
LEMMA EventIsTyped ==
  ASSUME NEW q \in Reqs,
         NEW type \in Terminal \cup {"start", "plan", "record", "manual", "manual-done", "cancelling"},
         NEW p \in Prompts \cup {NoPrompt}, NEW c \in Callers \cup {NoCaller}
  PROVE  /\ Event(type, q) \in Events
         /\ [Event(type, q) EXCEPT !.prompt = p] \in Events
         /\ [Event(type, q) EXCEPT !.prompt = p, !.by = c] \in Events
BY DEF Event, Events

\* A worker's prompt is one of Prompts.
LEMMA PromptOfIsPrompt ==
  ASSUME TypeOK, NEW q \in Reqs
  PROVE  PromptOf(q) \in Prompts
<1>1. todo[q] \in Seq(Units) /\ Len(todo[q]) <= MaxUnits
  BY DEF TypeOK
<1>2. Len(todo[q]) \in 0..MaxUnits
  BY <1>1, PilotAssumption
<1>3. QED
  BY <1>2 DEF PromptOf, Prompts

\* The list of events keeps its type.
LEMMA EventsStep == Typed /\ [Next]_vars => events' \in Seq(Events)
<1> SUFFICES ASSUME Typed, [Next]_vars PROVE events' \in Seq(Events)
  OBVIOUS
<1>1. events \in Seq(Events)
  BY DEF Typed, TypeOK
<1>2. \A e \in Events : Emit(e) => events' \in Seq(Events)
  BY <1>1 DEF Emit
<1>3. \A q \in Reqs, type \in Terminal \cup {"start", "plan", "record", "manual", "manual-done", "cancelling"} :
        Emit(Event(type, q)) => events' \in Seq(Events)
  BY <1>2, EventIsTyped
<1>4. <<>> \in Seq(Events)
  OBVIOUS
<1> USE <1>1, <1>2, <1>3
<1>5. ASSUME NEW q \in Reqs, Start(q) PROVE events' \in Seq(Events)
  BY <1>4, <1>5 DEF Start, StartRefused, StartClaim, StartReset, StartArm
<1>6. ASSUME NEW q \in Reqs, Worker(q) PROVE events' \in Seq(Events)
  <2>1. CASE EmitStart(q) \/ LockGranted(q) \/ FinishUnit(q) \/ AgentReturns(q)
    BY <2>1 DEF EmitStart, LockGranted, FinishUnit, AgentReturns
  <2>2. CASE SelectNothing(q) \/ LockBusy(q) \/ UnitRaises(q) \/ Conclude(q)
    BY <2>2 DEF SelectNothing, LockBusy, UnitRaises, Conclude, Settle, Terminal
  <2>3. CASE RaisePrompt(q)
    <3>1. [Event("manual", q) EXCEPT !.prompt = PromptOf(q)] \in Events
      BY EventIsTyped, PromptOfIsPrompt DEF Typed
    <3>2. QED
      BY <2>3, <3>1 DEF RaisePrompt
  <2>4. CASE TakeAnswer(q)
    <3> DEFINE by == IF pending = NoPrompt THEN NoCaller ELSE prompt[pending].by
    <3>1. pending \in Prompts \cup {NoPrompt} /\ by \in Callers \cup {NoCaller}
      BY DEF Typed, TypeOK
    <3>2. [Event("manual-done", q) EXCEPT !.prompt = pending, !.by = by] \in Events
      BY <3>1, EventIsTyped
    <3>3. QED
      BY <2>4, <3>2 DEF TakeAnswer
  <2>5. CASE Select(q) \/ LoopExit(q) \/ BeginUnit(q) \/ PromptSet(q) \/ PromptTimeout(q)
             \/ UnitExits(q) \/ Cleanup(q) \/ Unlock(q)
    BY <2>5 DEF Select, LoopExit, BeginUnit, PromptSet, PromptTimeout, UnitExits, Cleanup, Unlock
  <2>6. QED
    BY <1>6, <2>1, <2>2, <2>3, <2>4, <2>5 DEF Worker
<1>7. ASSUME NEW c \in Cancels, request_cancel(c) PROVE events' \in Seq(Events)
  <2>1. CASE CancelEmit(c)
    <3>1. caller[c].run \in Reqs
      BY <2>1 DEF Typed, CancelKnowsRun, CancelEmit, Step
    <3>2. QED
      BY <2>1, <3>1 DEF CancelEmit
  <2>2. CASE ~CancelEmit(c)
    BY <1>7, <2>2 DEF request_cancel, CancelLook, CancelSet, Pick, Write
  <2>3. QED
    BY <2>1, <2>2
<1>8. ASSUME NEW a \in Answers, answer(a) PROVE events' \in Seq(Events)
  BY <1>8 DEF answer, Pick, Write
<1>9. CASE OthersTakeBench \/ OthersLeaveBench \/ AdminUnlocks \/ UNCHANGED vars
  BY <1>9 DEF OthersTakeBench, OthersLeaveBench, AdminUnlocks, vars
<1>10. QED
  BY <1>5, <1>6, <1>7, <1>8, <1>9 DEF Next

\* Only LockGranted and BeginUnit touch what is left of a plan.
LEMMA TodoChanges ==
  [Next]_vars => UNCHANGED todo \/ \E q \in Reqs : LockGranted(q) \/ BeginUnit(q)
BY DEF Next, vars, workVars, Start, Worker, request_cancel, answer, StartRefused, StartClaim,
   StartReset, StartArm, EmitStart, Select, SelectNothing, LockBusy, LoopExit, RaisePrompt,
   PromptSet, PromptTimeout, TakeAnswer, FinishUnit, UnitRaises, UnitExits, AgentReturns,
   Conclude, Cleanup, Unlock, CancelLook, CancelSet, Pick, Write, CancelEmit,
   OthersTakeBench, OthersLeaveBench, AdminUnlocks

\* What is left of a plan is a bounded sequence of units.
LEMMA TodoStep ==
  Typed /\ [Next]_vars => todo' \in [Reqs -> {p \in Seq(Units) : Len(p) <= MaxUnits}]
<1> DEFINE Rests == {p \in Seq(Units) : Len(p) <= MaxUnits}
<1> SUFFICES ASSUME Typed, [Next]_vars PROVE todo' \in [Reqs -> Rests]
  OBVIOUS
<1>1. todo \in [Reqs -> Rests]
  BY DEF Typed, TypeOK
<1>2. Plans \subseteq Rests
  BY PilotAssumption
<1>3. \A rest \in Rests : rest # <<>> => Tail(rest) \in Rests
  BY PilotAssumption
<1> HIDE DEF Rests
<1>4. ASSUME NEW q \in Reqs, LockGranted(q) PROVE todo' \in [Reqs -> Rests]
  BY <1>1, <1>2, <1>4 DEF LockGranted
<1>5. ASSUME NEW q \in Reqs, BeginUnit(q) PROVE todo' \in [Reqs -> Rests]
  BY <1>1, <1>3, <1>5 DEF BeginUnit
<1>6. CASE UNCHANGED todo
  BY <1>1, <1>6
<1>7. QED
  BY <1>4, <1>5, <1>6, TodoChanges

-----------------------------------------------------------------------------
(* Who moves, and who is where *)

\* Before its cleanup a worker stays a worker, and leaves the lock and
\* `active` alone.
LEMMA WorkerMoves ==
  ASSUME TypeOK, NEW q \in Reqs, Worker(q), ~Cleanup(q), ~Unlock(q)
  PROVE  /\ pc[q] \in Working \ {"finally"} /\ pc'[q] \in Working
         /\ pc' = [pc EXCEPT ![q] = pc'[q]]
         /\ UNCHANGED <<runLock, active>>
<1> USE DEF TypeOK, Working, OnBench, Checking, Move, stateVars, workVars
<1>1. CASE EmitStart(q) \/ Select(q) \/ SelectNothing(q)
  BY <1>1 DEF EmitStart, Select, SelectNothing
<1>2. CASE LockGranted(q)
  BY <1>2 DEF LockGranted
<1>3. CASE LockBusy(q) \/ LoopExit(q) \/ RaisePrompt(q) \/ PromptSet(q) \/ PromptTimeout(q)
  BY <1>3 DEF LockBusy, LoopExit, RaisePrompt, PromptSet, PromptTimeout
<1>4. CASE BeginUnit(q)
  <2>1. todo[q] \in Seq(Units) /\ todo[q] # <<>>
    BY <1>4 DEF BeginUnit
  <2>2. Head(todo[q]) \in Units
    BY <2>1
  <2>3. UnitStep[Head(todo[q])] \in {"checking", "prompting", "dispatching"}
    BY <2>2 DEF UnitStep, Units
  <2>4. QED
    BY <1>4, <2>3 DEF BeginUnit
<1>5. CASE TakeAnswer(q) \/ UnitExits(q) \/ AgentReturns(q)
  BY <1>5 DEF TakeAnswer, UnitExits, AgentReturns
<1>6. CASE FinishUnit(q)
  BY <1>6 DEF FinishUnit
<1>7. CASE UnitRaises(q)
  BY <1>7 DEF UnitRaises
<1>8. CASE Conclude(q)
  BY <1>8 DEF Conclude
<1>9. QED
  BY <1>1, <1>2, <1>3, <1>4, <1>5, <1>6, <1>7, <1>8 DEF Worker

\* Only requests and their workers move, take the lock or say they are active.
LEMMA OnlyRunsMove ==
  [Next]_vars => UNCHANGED <<pc, runLock, active, outcome>> \/ \E q \in Reqs : Start(q) \/ Worker(q)
BY DEF Next, vars, workVars, stateVars, request_cancel, answer, CancelLook, CancelSet, Pick, Write,
   CancelEmit, OthersTakeBench, OthersLeaveBench, AdminUnlocks

\* Control is preserved, and so are the types it speaks of.
LEMMA ControlStep ==
  Typed /\ [Next]_vars =>
    /\ Control'
    /\ pc' \in [Reqs -> Inside \cup {"idle", "refused", "ended"}]
    /\ runLock' \in Reqs \cup {NoReq} /\ active' \in BOOLEAN
<1> DEFINE Goal == /\ Control
                   /\ pc \in [Reqs -> Inside \cup {"idle", "refused", "ended"}]
                   /\ runLock \in Reqs \cup {NoReq} /\ active \in BOOLEAN
<1> SUFFICES ASSUME Typed, [Next]_vars PROVE Goal'
  OBVIOUS
<1>1. Goal /\ TypeOK
  BY DEF Typed, TypeOK
<1> USE DEF Control, OneRunAtATime, LockHolderIsInside, ActiveIsWorking
<1>2. ASSUME NEW q \in Reqs, Start(q) PROVE Goal'
  <2> USE <1>1, PilotAssumption DEF Move, stateVars, workVars, Inside, Working, OnBench, Checking
  <2>1. CASE StartRefused(q)
    BY <2>1 DEF StartRefused
  <2>2. CASE StartClaim(q)
    BY <2>2 DEF StartClaim
  <2>3. CASE StartReset(q)
    BY <2>3 DEF StartReset
  <2>4. CASE StartArm(q)
    BY <2>4 DEF StartArm
  <2>5. QED
    BY <1>2, <2>1, <2>2, <2>3, <2>4 DEF Start
<1>3. ASSUME NEW q \in Reqs, Worker(q) PROVE Goal'
  <2>1. CASE Cleanup(q)
    BY <1>1, <2>1, PilotAssumption DEF Cleanup, Move, Inside, Working, OnBench, Checking
  <2>2. CASE Unlock(q)
    BY <1>1, <2>2, PilotAssumption DEF Unlock, Move, stateVars, Inside, Working, OnBench, Checking
  <2>3. CASE ~Cleanup(q) /\ ~Unlock(q)
    BY <1>1, <1>3, <2>3, WorkerMoves DEF Inside
  <2>4. QED
    BY <2>1, <2>2, <2>3
<1>4. CASE UNCHANGED <<pc, runLock, active>>
  BY <1>1, <1>4
<1>5. QED
  BY <1>2, <1>3, <1>4, OnlyRunsMove

-----------------------------------------------------------------------------
(* What touches what *)

\* Only the callers' own steps change them; only CancelSet adds to `stopped`.
LEMMA CallerChanges ==
  [Next]_vars => \/ UNCHANGED <<caller, stopped>>
                 \/ \E c \in Cancels : request_cancel(c)
                 \/ \E a \in Answers : answer(a)
BY DEF Next, vars, callVars, Start, Worker, StartRefused, StartClaim, StartReset, StartArm,
   EmitStart, Select, SelectNothing, LockGranted, LockBusy, LoopExit, BeginUnit, RaisePrompt,
   PromptSet, PromptTimeout, TakeAnswer, FinishUnit, UnitRaises, UnitExits, AgentReturns,
   Conclude, Cleanup, Unlock, OthersTakeBench, OthersLeaveBench, AdminUnlocks

\* A prompt is put on display, answered in the object, timed out and taken
\* off; a start clears the display.
LEMMA PromptChanges ==
  [Next]_vars => \/ UNCHANGED <<pending, prompt, timedOut>>
                 \/ \E q \in Reqs : StartReset(q) \/ RaisePrompt(q) \/ PromptTimeout(q) \/ TakeAnswer(q)
                 \/ \E c \in Callers : Write(c, "emit") \/ Write(c, "done")
BY DEF Next, vars, stateVars, workVars, Callers, Start, Worker, request_cancel, answer,
   StartRefused, StartClaim, StartArm,
   EmitStart, Select, SelectNothing, LockGranted, LockBusy, LoopExit, BeginUnit,
   PromptSet, FinishUnit, UnitRaises, UnitExits, AgentReturns, Conclude, Cleanup, Unlock,
   CancelLook, CancelSet, Pick, CancelEmit, OthersTakeBench, OthersLeaveBench, AdminUnlocks

\* The prompter and the bench are taken and given back together, except by
\* the other holders of the bench and the admin.
LEMMA BenchChanges ==
  [Next]_vars => \/ UNCHANGED benchVars
                 \/ \E q \in Reqs : LockGranted(q) \/ Cleanup(q)
                 \/ UNCHANGED prompter /\ (OthersTakeBench \/ OthersLeaveBench \/ AdminUnlocks)
BY DEF Next, vars, benchVars, Start, Worker, request_cancel, answer, StartRefused, StartClaim,
   StartReset, StartArm, EmitStart, Select, SelectNothing, LockBusy, Reject, LoopExit, BeginUnit,
   RaisePrompt, PromptSet, PromptTimeout, TakeAnswer, FinishUnit, UnitRaises, UnitExits,
   AgentReturns, Conclude, Unlock, CancelLook, CancelSet, Pick, Write, CancelEmit,
   OthersTakeBench, OthersLeaveBench, AdminUnlocks

\* Only StartArm clears the cancel flag and only CancelSet sets it.
LEMMA FlagChanges ==
  [Next]_vars => \/ UNCHANGED cancelFlag
                 \/ \E q \in Reqs : StartArm(q)
                 \/ \E c \in Cancels : CancelSet(c)
BY DEF Next, vars, stateVars, Start, Worker, request_cancel, answer, StartRefused, StartClaim,
   StartReset, EmitStart, Select, SelectNothing, LockGranted, LockBusy, LoopExit, BeginUnit,
   RaisePrompt, PromptSet, PromptTimeout, TakeAnswer, FinishUnit, UnitRaises, UnitExits,
   AgentReturns, Conclude, Cleanup, Unlock, CancelLook, Pick, Write, CancelEmit,
   OthersTakeBench, OthersLeaveBench, AdminUnlocks

-----------------------------------------------------------------------------
(* Type correctness *)

\* Callers keep their types, and a cancel under way knows its run.
LEMMA CallerStep ==
  Typed /\ [Next]_vars =>
    /\ caller' \in [Callers -> [at : {"idle", "set", "pick", "write", "emit", "done", "no"},
                                prompt : Prompts \cup {NoPrompt}, run : Reqs \cup {NoReq}]]
    /\ stopped' \subseteq Reqs
    /\ CancelKnowsRun'
<1> DEFINE Goal == /\ caller \in [Callers ->
                        [at : {"idle", "set", "pick", "write", "emit", "done", "no"},
                         prompt : Prompts \cup {NoPrompt}, run : Reqs \cup {NoReq}]]
                   /\ stopped \subseteq Reqs
                   /\ CancelKnowsRun
<1> SUFFICES ASSUME Typed, [Next]_vars PROVE Goal'
  OBVIOUS
<1>1. /\ Goal
      /\ pending \in Prompts \cup {NoPrompt}
      /\ active => runLock \in Reqs
      /\ runLock \in Reqs \cup {NoReq}
  BY DEF Typed, TypeOK, Control, ActiveIsWorking
<1> USE DEF CancelKnowsRun, Callers
<1>2. ASSUME NEW c \in Cancels, request_cancel(c) PROVE Goal'
  <2>1. CASE CancelLook(c)
    BY <1>1, <2>1 DEF CancelLook
  <2>2. CASE CancelSet(c)
    BY <1>1, <2>2 DEF CancelSet, Step
  <2>3. CASE Pick(c, "pick", "emit")
    <3>1. PICK to \in {"emit", "write"} :
            caller' = [caller EXCEPT ![c].at = to, ![c].prompt = pending]
      BY <2>3 DEF Pick
    <3>2. caller[c].at = "pick" /\ stopped' = stopped
      BY <2>3 DEF Pick
    <3>3. CancelKnowsRun'
      <4>1. SUFFICES ASSUME NEW d \in Cancels, caller'[d].at \in {"set", "pick", "write", "emit"}
                     PROVE  caller'[d].run \in Reqs
        OBVIOUS
      <4>2. caller[d].at \in {"set", "pick", "write", "emit"}
        BY <1>1, <3>1, <3>2, <4>1
      <4>3. caller[d].run \in Reqs
        BY <1>1, <4>2
      <4>4. QED
        BY <1>1, <3>1, <4>3
    <3>4. QED
      BY <1>1, <3>1, <3>2, <3>3
  <2>4. CASE Write(c, "emit")
    BY <1>1, <2>4 DEF Write, Step
  <2>5. CASE CancelEmit(c)
    BY <1>1, <2>5 DEF CancelEmit, Step
  <2>6. QED
    BY <1>2, <2>1, <2>2, <2>3, <2>4, <2>5 DEF request_cancel
<1>3. ASSUME NEW a \in Answers, answer(a) PROVE Goal'
  <2>1. a \notin Cancels
    BY PromptAssumption
  <2>2. CASE Pick(a, "idle", "no")
    <3>1. PICK to \in {"no", "write"} :
            caller' = [caller EXCEPT ![a].at = to, ![a].prompt = pending]
      BY <2>2 DEF Pick
    <3>2. stopped' = stopped
      BY <2>2 DEF Pick
    <3>3. \A d \in Cancels : caller'[d] = caller[d]
      BY <1>1, <2>1, <3>1
    <3>4. CancelKnowsRun'
      BY <1>1, <3>3
    <3>5. QED
      BY <1>1, <3>1, <3>2, <3>4
  <2>3. CASE Write(a, "done")
    BY <1>1, <2>1, <2>3 DEF Write, Step
  <2>4. QED
    BY <1>3, <2>2, <2>3 DEF answer
<1>4. CASE UNCHANGED <<caller, stopped>>
  BY <1>1, <1>4
<1>5. QED
  BY <1>2, <1>3, <1>4, CallerChanges

\* Prompts keep their types.
LEMMA PromptStep ==
  Typed /\ [Next]_vars =>
    /\ pending' \in Prompts \cup {NoPrompt}
    /\ prompt' \in [Prompts -> [by : Callers \cup {NoCaller}, set : BOOLEAN]]
    /\ timedOut' \subseteq Prompts
<1> DEFINE Goal == /\ pending \in Prompts \cup {NoPrompt}
                   /\ prompt \in [Prompts -> [by : Callers \cup {NoCaller}, set : BOOLEAN]]
                   /\ timedOut \subseteq Prompts
<1> SUFFICES ASSUME Typed, [Next]_vars PROVE Goal'
  OBVIOUS
<1>1. Goal /\ TypeOK
  BY DEF Typed, TypeOK
<1>2. ASSUME NEW q \in Reqs, StartReset(q) PROVE Goal'
  BY <1>1, <1>2 DEF StartReset, workVars
<1>3. ASSUME NEW q \in Reqs, RaisePrompt(q) PROVE Goal'
  BY <1>1, <1>3, PromptOfIsPrompt DEF RaisePrompt
<1>4. ASSUME NEW q \in Reqs, PromptTimeout(q) PROVE Goal'
  BY <1>1, <1>4, PromptOfIsPrompt DEF PromptTimeout, stateVars
<1>5. ASSUME NEW q \in Reqs, TakeAnswer(q) PROVE Goal'
  BY <1>1, <1>5 DEF TakeAnswer
<1>6. ASSUME NEW c \in Callers, Write(c, "emit") \/ Write(c, "done") PROVE Goal'
  <2>1. prompt' = [prompt EXCEPT ![caller[c].prompt] = [by |-> c, set |-> TRUE]]
    BY <1>6 DEF Write
  <2>2. UNCHANGED <<pending, timedOut>>
    BY <1>6 DEF Write, stateVars, workVars
  <2>3. QED
    BY <1>1, <2>1, <2>2
<1>7. CASE UNCHANGED <<pending, prompt, timedOut>>
  BY <1>1, <1>7
<1>8. QED
  BY <1>2, <1>3, <1>4, <1>5, <1>6, <1>7, PromptChanges

\* The prompter and the lock table keep their types.
LEMMA BenchStep ==
  Typed /\ [Next]_vars => prompter' \in Reqs \cup {NoReq} /\ LocksTypeOK'
<1> SUFFICES ASSUME Typed, [Next]_vars PROVE prompter' \in Reqs \cup {NoReq} /\ LocksTypeOK'
  OBVIOUS
<1>1. prompter \in Reqs \cup {NoReq} /\ LocksTypeOK
  BY DEF Typed, TypeOK
<1> USE DEF LocksTypeOK
<1>2. ASSUME NEW q \in Reqs, LockGranted(q)
      PROVE  prompter' \in Reqs \cup {NoReq} /\ LocksTypeOK'
  BY <1>1, <1>2 DEF LockGranted, Acquire
<1>3. ASSUME NEW q \in Reqs, Cleanup(q)
      PROVE  prompter' \in Reqs \cup {NoReq} /\ LocksTypeOK'
  BY <1>1, <1>3 DEF Cleanup, Release
<1>4. CASE UNCHANGED prompter /\ (OthersTakeBench \/ OthersLeaveBench \/ AdminUnlocks)
  BY <1>1, <1>4 DEF OthersTakeBench, OthersLeaveBench, AdminUnlocks, Acquire, Release, ForceRelease
<1>5. CASE UNCHANGED benchVars
  BY <1>1, <1>5 DEF benchVars
<1>6. QED
  BY <1>2, <1>3, <1>4, <1>5, BenchChanges

\* Fates and the cancel flag keep their types.
LEMMA OutcomeStep ==
  Typed /\ [Next]_vars => /\ outcome' \in [Reqs -> {"open", "refused", "silent"} \cup Terminal]
                          /\ cancelFlag' \in BOOLEAN
<1> DEFINE Fates == {"open", "refused", "silent"} \cup Terminal
<1> SUFFICES ASSUME Typed, [Next]_vars PROVE outcome' \in [Reqs -> Fates] /\ cancelFlag' \in BOOLEAN
  OBVIOUS
<1>1. outcome \in [Reqs -> Fates] /\ cancelFlag \in BOOLEAN
  BY DEF Typed, TypeOK
<1>2. cancelFlag' \in BOOLEAN
  BY <1>1, FlagChanges DEF StartArm, CancelSet
<1>3. ASSUME NEW q \in Reqs, Start(q) PROVE outcome' \in [Reqs -> Fates]
  BY <1>1, <1>3 DEF Start, StartRefused, StartClaim, StartReset, StartArm
<1>4. ASSUME NEW q \in Reqs, NEW fate \in Terminal, Settle(q, fate) PROVE outcome' \in [Reqs -> Fates]
  BY <1>1, <1>4 DEF Settle
<1>5. ASSUME NEW q \in Reqs, Worker(q) PROVE outcome' \in [Reqs -> Fates]
  <2>1. CASE SelectNothing(q) \/ LockBusy(q) \/ UnitRaises(q) \/ Conclude(q)
    BY <1>4, <2>1 DEF SelectNothing, LockBusy, UnitRaises, Conclude, Terminal
  <2>2. CASE UnitExits(q)
    BY <1>1, <2>2 DEF UnitExits
  <2>3. CASE UNCHANGED outcome
    BY <1>1, <2>3
  <2>4. QED
    BY <1>5, <2>1, <2>2, <2>3 DEF Worker, EmitStart, Select, LockGranted, LoopExit, BeginUnit,
       RaisePrompt, PromptSet, PromptTimeout, TakeAnswer, FinishUnit, AgentReturns, Cleanup, Unlock
<1>6. CASE UNCHANGED outcome
  BY <1>1, <1>2, <1>6
<1>7. QED
  BY <1>2, <1>3, <1>5, <1>6, OnlyRunsMove

\* Typed is inductive.
LEMMA TypedInductive == Typed /\ [Next]_vars => Typed'
<1> SUFFICES ASSUME Typed, [Next]_vars PROVE Typed'
  OBVIOUS
<1>1. TypeOK'
  BY EventsStep, TodoStep, ControlStep, CallerStep, PromptStep, BenchStep, OutcomeStep DEF TypeOK
<1>2. QED
  BY <1>1, ControlStep, CallerStep DEF Typed

LEMMA TypedInit == Init => Typed
<1>1. Init => TypeOK
  <2> SUFFICES ASSUME Init PROVE TypeOK
    OBVIOUS
  <2>1. /\ events \in Seq(Events)
        /\ todo \in [Reqs -> {p \in Seq(Units) : Len(p) <= MaxUnits}]
    BY PilotAssumption DEF Init
  <2>2. LocksTypeOK
    BY DEF Init, LocksInit, LocksTypeOK
  <2>3. /\ prompt \in [Prompts -> [by : Callers \cup {NoCaller}, set : BOOLEAN]]
        /\ caller \in [Callers -> [at : {"idle", "set", "pick", "write", "emit", "done", "no"},
                                   prompt : Prompts \cup {NoPrompt}, run : Reqs \cup {NoReq}]]
    BY DEF Init
  <2>4. /\ pc \in [Reqs -> Inside \cup {"idle", "refused", "ended"}]
        /\ outcome \in [Reqs -> {"open", "refused", "silent"} \cup Terminal]
        /\ runLock \in Reqs \cup {NoReq} /\ prompter \in Reqs \cup {NoReq}
        /\ active \in BOOLEAN /\ cancelFlag \in BOOLEAN
        /\ pending \in Prompts \cup {NoPrompt}
        /\ stopped \subseteq Reqs /\ timedOut \subseteq Prompts
    BY DEF Init
  <2>5. QED
    BY <2>1, <2>2, <2>3, <2>4 DEF TypeOK
<1>2. Init => Control /\ CancelKnowsRun
  BY PilotAssumption DEF Init, Control, OneRunAtATime, LockHolderIsInside, ActiveIsWorking,
     CancelKnowsRun, Inside, Working, OnBench, Checking, Callers
<1>3. QED
  BY <1>1, <1>2 DEF Typed

\* Typed always holds.
LEMMA TypedInvariant == Spec => []Typed
BY TypedInit, TypedInductive, PTL DEF Spec

\* Whatever the interleaving of starts, workers, cancels and answers, the
\* shared fields keep their types: an event never names a run that is not one.
THEOREM TypeCorrect == Spec => []TypeOK
BY TypedInvariant, PTL DEF Typed

\* No two start requests are between taking RunState.lock and giving it back.
THEOREM RunsAreSerial == Spec => []OneRunAtATime
BY TypedInvariant, PTL DEF Typed, Control

\* The status of the server never says idle while a worker is alive.
THEOREM StatusIsTrue == Spec => []InactiveMeansIdle
<1>1. Typed => InactiveMeansIdle
  BY PilotAssumption DEF Typed, TypeOK, Control, ActiveIsWorking, OneRunAtATime, InactiveMeansIdle, Inside
<1>2. QED
  BY <1>1, TypedInvariant, PTL

-----------------------------------------------------------------------------
(* The bench and the prompter *)

\* A worker comes on the bench by taking its lock and leaves by its cleanup.
LEMMA BenchBounds ==
  ASSUME Typed, [Next]_vars, NEW q \in Reqs
  PROVE  /\ pc'[q] \in OnBench => pc[q] \in OnBench \/ LockGranted(q)
         /\ pc[q] \in OnBench \cup {"finally"} => pc'[q] \in OnBench \cup {"finally"} \/ Cleanup(q)
<1> DEFINE Goal == /\ pc'[q] \in OnBench => pc[q] \in OnBench \/ LockGranted(q)
                   /\ pc[q] \in OnBench \cup {"finally"} =>
                        pc'[q] \in OnBench \cup {"finally"} \/ Cleanup(q)
<1>1. TypeOK /\ pc \in [Reqs -> Inside \cup {"idle", "refused", "ended"}]
  BY DEF Typed, TypeOK
<1>2. ASSUME NEW r \in Reqs, Start(r) PROVE Goal
  BY <1>1, <1>2 DEF Start, StartRefused, StartClaim, StartReset, StartArm, Move, OnBench, Checking
<1>3. ASSUME NEW r \in Reqs, Worker(r) PROVE Goal
  <2>1. CASE r # q
    <3>1. pc'[q] = pc[q]
      BY <1>1, <1>3, <2>1, WorkerMoves DEF Cleanup, Unlock, Move
    <3>2. QED
      BY <3>1
  <2>2. CASE r = q
    <3>1. CASE Cleanup(q) \/ Unlock(q)
      BY <1>1, <3>1 DEF Cleanup, Unlock, Move, OnBench, Checking
    <3>2. CASE ~Cleanup(q) /\ ~Unlock(q)
      <4>1. pc[q] \in Working /\ pc'[q] \in Working
        BY <1>1, <1>3, <2>2, <3>2, WorkerMoves
      <4>2. CASE pc[q] \in {"spawned", "select", "locking"}
        BY <1>1, <1>3, <2>2, <4>2 DEF Worker, EmitStart, Select, SelectNothing, LockBusy, LoopExit,
           BeginUnit, RaisePrompt, PromptSet, PromptTimeout, TakeAnswer, FinishUnit, UnitRaises,
           UnitExits, AgentReturns, Conclude, Cleanup, Unlock, Move, OnBench, Checking
      <4>3. CASE pc[q] \in OnBench
        <5>1. pc'[q] \notin {"spawned", "select", "locking"}
          <6>1. CASE BeginUnit(q)
            <7>1. todo[q] \in Seq(Units) /\ todo[q] # <<>>
              BY <1>1, <6>1 DEF BeginUnit, TypeOK
            <7>2. UnitStep[Head(todo[q])] \in {"checking", "prompting", "dispatching"}
              BY <7>1 DEF UnitStep, Units
            <7>3. QED
              BY <1>1, <6>1, <7>2 DEF BeginUnit, Move
          <6>2. CASE ~BeginUnit(q)
            BY <1>1, <1>3, <2>2, <4>3, <6>2 DEF Worker, EmitStart, Select, SelectNothing, LockGranted,
               LockBusy, LoopExit, RaisePrompt, PromptSet, PromptTimeout, TakeAnswer, FinishUnit,
               UnitRaises, UnitExits, AgentReturns, Conclude, Cleanup, Unlock, Move, OnBench, Checking
          <6>3. QED
            BY <6>1, <6>2
        <5>2. QED
          BY <4>1, <4>3, <5>1 DEF Working
      <4>4. CASE pc[q] = "finally"
        BY <1>1, <1>3, <2>2, <3>2, <4>4, WorkerMoves
      <4>5. QED
        BY <4>1, <4>2, <4>3, <4>4 DEF Working
    <3>3. QED
      BY <3>1, <3>2
  <2>3. QED
    BY <2>1, <2>2
<1>4. CASE UNCHANGED pc
  BY <1>4
<1>5. QED
  BY <1>2, <1>3, <1>4, OnlyRunsMove

\* PrompterIsLive and NoBenchLeak rest on Control alone.
LEMMA BenchInvariant ==
  Typed /\ PrompterIsLive /\ NoBenchLeak /\ [Next]_vars => PrompterIsLive' /\ NoBenchLeak'
<1> SUFFICES ASSUME Typed, PrompterIsLive, NoBenchLeak, [Next]_vars
             PROVE  PrompterIsLive' /\ NoBenchLeak'
  OBVIOUS
<1>1. /\ held \in [{Bench} -> Reqs \cup {Other} \cup {NoRun}]
      /\ prompter \in Reqs \cup {NoReq}
      /\ pc \in [Reqs -> Inside \cup {"idle", "refused", "ended"}]
      /\ OneRunAtATime
  BY DEF Typed, TypeOK, LocksTypeOK, Control
<1>2. ASSUME NEW q \in Reqs, LockGranted(q) PROVE PrompterIsLive' /\ NoBenchLeak'
  <2>1. /\ prompter' = q /\ held' = [r \in {Bench} |-> q]
        /\ pc[q] = "locking" /\ pc'[q] \in OnBench
        /\ \A r \in Reqs : r # q => pc'[r] = pc[r]
    BY <1>1, <1>2 DEF LockGranted, Acquire, Move, OnBench, Checking
  <2>2. \A r \in Reqs : r # q => pc'[r] \notin OnBench
    BY <1>1, <2>1 DEF OneRunAtATime, Inside, Working
  <2>3. QED
    BY <2>1, <2>2 DEF PrompterIsLive, NoBenchLeak
<1>3. ASSUME NEW q \in Reqs, Cleanup(q) PROVE PrompterIsLive' /\ NoBenchLeak'
  <2>1. /\ held' = [r \in {Bench} |-> IF held[r] = q THEN NoRun ELSE held[r]]
        /\ pc[q] = "finally" /\ pc'[q] = "unlock"
        /\ \A r \in Reqs : r # q => pc'[r] = pc[r]
    BY <1>1, <1>3 DEF Cleanup, Release, Move
  <2>2. \A r \in Reqs : pc'[r] \notin OnBench
    BY <1>1, <2>1 DEF OneRunAtATime, Inside, Working, OnBench, Checking
  <2>3. NoBenchLeak'
    BY <1>1, <2>1, PilotAssumption DEF NoBenchLeak
  <2>4. QED
    BY <2>2, <2>3 DEF PrompterIsLive
<1>4. CASE ~ \E q \in Reqs : LockGranted(q) \/ Cleanup(q)
  <2>1. UNCHANGED prompter
    BY <1>4, BenchChanges DEF benchVars
  <2>2. PrompterIsLive'
    BY <1>4, <2>1, BenchBounds DEF PrompterIsLive
  <2>3. held'[Bench] \in Reqs => held'[Bench] = held[Bench]
    BY <1>1, <1>4, BenchChanges, PilotAssumption DEF benchVars, OthersTakeBench, OthersLeaveBench,
       AdminUnlocks, Acquire, Release, ForceRelease
  <2>4. QED
    BY <1>4, <2>2, <2>3, BenchBounds DEF NoBenchLeak
<1>5. QED
  BY <1>2, <1>3, <1>4

\* No run, no prompter and no lock at first.
LEMMA BenchInvariantInit == Init => PrompterIsLive /\ NoBenchLeak
BY PilotAssumption DEF Init, LocksInit, PrompterIsLive, NoBenchLeak, OnBench, Checking

\* A worker on the bench has its own prompter installed: no run's `finally`
\* takes away another's.
THEOREM PromptsReachTheirRun == Spec => []PrompterIsLive
BY TypedInvariant, BenchInvariant, BenchInvariantInit, PTL DEF Spec

\* The bench is never left locked under a run that is over.
THEOREM BenchIsGivenBack == Spec => []NoBenchLeak
BY TypedInvariant, BenchInvariant, BenchInvariantInit, PTL DEF Spec

-----------------------------------------------------------------------------
(* Prompts and verdicts *)

WaitShowsPrompt == \A q \in Reqs : pc[q] \in {"waiting", "answered"} => pending = PromptOf(q)

\* A worker waits for the prompt it has raised, and its plan stands still.
LEMMA WaitBounds ==
  ASSUME Typed, [Next]_vars, NEW q \in Reqs, pc'[q] \in {"waiting", "answered"}, ~RaisePrompt(q)
  PROVE  /\ pc[q] \in {"waiting", "answered"}
         /\ todo'[q] = todo[q]
         /\ pc'[q] = pc[q] \/ PromptSet(q) \/ PromptTimeout(q)
<1>1. /\ TypeOK /\ pc \in [Reqs -> Inside \cup {"idle", "refused", "ended"}]
      /\ todo \in [Reqs -> {p \in Seq(Units) : Len(p) <= MaxUnits}]
  BY DEF Typed, TypeOK
<1>2. pc[q] \in {"waiting", "answered"} /\ (pc'[q] = pc[q] \/ PromptSet(q) \/ PromptTimeout(q))
  <2>1. ASSUME NEW r \in Reqs, Start(r) PROVE pc'[q] = pc[q]
    BY <1>1, <2>1 DEF Start, StartRefused, StartClaim, StartReset, StartArm, Move
  <2>2. ASSUME NEW r \in Reqs, r # q, Worker(r) PROVE pc'[q] = pc[q]
    BY <1>1, <2>2, WorkerMoves DEF Cleanup, Unlock, Move
  <2>3. CASE BeginUnit(q)
    <3>1. todo[q] \in Seq(Units) /\ todo[q] # <<>>
      BY <1>1, <2>3 DEF BeginUnit
    <3>2. UnitStep[Head(todo[q])] \in {"checking", "prompting", "dispatching"}
      BY <3>1 DEF UnitStep, Units
    <3>3. QED
      BY <1>1, <2>3, <3>2 DEF BeginUnit, Move
  <2>4. CASE Worker(q) /\ ~BeginUnit(q)
    BY <1>1, <2>4 DEF Worker, EmitStart, Select, SelectNothing, LockGranted, LockBusy, LoopExit,
       PromptSet, PromptTimeout, TakeAnswer, FinishUnit, UnitRaises, UnitExits, AgentReturns,
       Conclude, Cleanup, Unlock, Move
  <2>5. QED
    BY <2>1, <2>2, <2>3, <2>4, OnlyRunsMove
<1>3. ASSUME NEW r \in Reqs, r # q, LockGranted(r) \/ BeginUnit(r) PROVE todo'[q] = todo[q]
  BY <1>1, <1>3 DEF LockGranted, BeginUnit
<1>4. ~LockGranted(q) /\ ~BeginUnit(q)
  BY <1>2 DEF LockGranted, BeginUnit, Move
<1>5. QED
  BY <1>2, <1>3, <1>4, TodoChanges

\* A prompt is on display exactly while its worker waits for it.
LEMMA WaitInvariant ==
  Typed /\ WaitShowsPrompt /\ PendingIsLive /\ [Next]_vars => WaitShowsPrompt' /\ PendingIsLive'
<1> SUFFICES ASSUME Typed, WaitShowsPrompt, PendingIsLive, [Next]_vars
             PROVE  WaitShowsPrompt' /\ PendingIsLive'
  OBVIOUS
<1>1. /\ TypeOK /\ OneRunAtATime /\ pc \in [Reqs -> Inside \cup {"idle", "refused", "ended"}]
      /\ \A q, r \in Reqs : pc[q] \in Inside /\ pc[r] \in Inside => q = r
  BY DEF Typed, TypeOK, Control, OneRunAtATime
<1>2. ASSUME NEW q \in Reqs, StartReset(q) PROVE WaitShowsPrompt' /\ PendingIsLive'
  <2>1. pending' = NoPrompt /\ pc[q] = "claimed" /\ pc'[q] = "reset" /\ ~\E r \in Reqs : RaisePrompt(r)
    BY <1>1, <1>2 DEF StartReset, RaisePrompt, Move, Inside, Working, OnBench, Checking
  <2>2. \A r \in Reqs : pc[r] \notin {"waiting", "answered"}
    BY <1>1, <2>1 DEF Inside, Working, OnBench, Checking
  <2>3. QED
    BY <2>1, <2>2, WaitBounds DEF WaitShowsPrompt, PendingIsLive
<1>3. ASSUME NEW q \in Reqs, RaisePrompt(q) PROVE WaitShowsPrompt' /\ PendingIsLive'
  <2>1. /\ pending' = PromptOf(q) /\ todo' = todo
        /\ pc[q] = "prompting" /\ pc' = [pc EXCEPT ![q] = "waiting"]
    BY <1>3 DEF RaisePrompt, Move
  <2>2. \A r \in Reqs : r # q => pc'[r] \notin {"waiting", "answered"}
    BY <1>1, <2>1 DEF Inside, Working, OnBench, Checking
  <2>3. QED
    BY <1>1, <2>1, <2>2 DEF WaitShowsPrompt, PendingIsLive, PromptOf
<1>4. ASSUME NEW q \in Reqs, TakeAnswer(q) PROVE WaitShowsPrompt' /\ PendingIsLive'
  <2>1. pending' = NoPrompt /\ pc[q] = "answered" /\ pc' = [pc EXCEPT ![q] = "checking"]
    BY <1>4 DEF TakeAnswer, Move
  <2>2. \A r \in Reqs : pc'[r] \notin {"waiting", "answered"}
    BY <1>1, <2>1 DEF Inside, Working, OnBench, Checking
  <2>3. QED
    BY <2>1, <2>2 DEF WaitShowsPrompt, PendingIsLive
<1>5. CASE pending' = pending /\ ~ \E q \in Reqs : RaisePrompt(q) \/ TakeAnswer(q)
  <2>1. WaitShowsPrompt'
    BY <1>5, WaitBounds DEF WaitShowsPrompt, PromptOf
  <2>2. ASSUME NEW q \in Reqs, pc[q] \in {"waiting", "answered"}
        PROVE  pc'[q] \in {"waiting", "answered"}
    <3>1. ASSUME NEW r \in Reqs, Start(r) PROVE pc'[q] = pc[q]
      BY <1>1, <2>2, <3>1 DEF Start, StartRefused, StartClaim, StartReset, StartArm, Move
    <3>2. ASSUME NEW r \in Reqs, r # q, Worker(r) PROVE pc'[q] = pc[q]
      BY <1>1, <3>2, WorkerMoves DEF Cleanup, Unlock, Move
    <3>3. CASE Worker(q)
      BY <1>1, <1>5, <2>2, <3>3 DEF Worker, EmitStart, Select, SelectNothing, LockGranted, LockBusy,
         LoopExit, BeginUnit, PromptSet, PromptTimeout, FinishUnit, UnitRaises, UnitExits,
         AgentReturns, Conclude, Cleanup, Unlock, Move
    <3>4. QED
      BY <2>2, <3>1, <3>2, <3>3, OnlyRunsMove
  <2>3. PendingIsLive'
    <3>1. SUFFICES ASSUME pending' # NoPrompt
                   PROVE  \E q \in Reqs : pc'[q] \in {"waiting", "answered"} /\ pending' = PromptOf(q)'
      BY DEF PendingIsLive
    <3>2. PICK q \in Reqs : pc[q] \in {"waiting", "answered"} /\ pending = PromptOf(q)
      BY <1>5, <3>1 DEF PendingIsLive
    <3>3. pc'[q] \in {"waiting", "answered"} /\ todo'[q] = todo[q]
      BY <1>5, <2>2, <3>2, WaitBounds
    <3>4. QED
      BY <1>5, <3>2, <3>3 DEF PromptOf
  <2>4. QED
    BY <2>1, <2>3
<1>6. ASSUME NEW c \in Callers, Write(c, "emit") \/ Write(c, "done")
      PROVE  pending' = pending /\ ~ \E q \in Reqs : RaisePrompt(q) \/ TakeAnswer(q)
  <2>1. pending' = pending /\ pc' = pc
    BY <1>6 DEF Write, stateVars, workVars
  <2>2. QED
    BY <1>1, <2>1 DEF RaisePrompt, TakeAnswer, Move
<1>7. ASSUME NEW q \in Reqs, PromptTimeout(q)
      PROVE  pending' = pending /\ ~ \E r \in Reqs : RaisePrompt(r) \/ TakeAnswer(r)
  <2>1. pending' = pending /\ pc[q] = "waiting" /\ pc'[q] = "answered"
    BY <1>1, <1>7 DEF PromptTimeout, Move, stateVars
  <2>2. QED
    BY <1>1, <2>1 DEF RaisePrompt, TakeAnswer, Move
<1>8. CASE UNCHANGED pending
  BY <1>3, <1>4, <1>5, <1>8
<1>9. QED
  BY <1>2, <1>3, <1>4, <1>5, <1>6, <1>7, <1>8, PromptChanges

\* Nothing is on display at first.
LEMMA WaitInit == Init => WaitShowsPrompt /\ PendingIsLive
BY DEF Init, WaitShowsPrompt, PendingIsLive

\* The prompt on display belongs to the run in progress, which waits for it.
THEOREM DisplayIsLive == Spec => []PendingIsLive
BY TypedInvariant, WaitInvariant, WaitInit, PTL DEF Spec

\* A prompt that is set was answered by a caller that had picked it up, and a
\* caller that has written never picks up another.
Wrote(c, p) == caller[c].prompt = p /\ caller[c].at \in {"emit", "done"}

SetByWriter(p) ==
  /\ prompt[p].set => prompt[p].by # NoCaller
  /\ prompt[p].by # NoCaller => Wrote(prompt[p].by, p)

WriterPicked == \A p \in Prompts : SetByWriter(p)

AnswerReady ==
  \A q \in Reqs : pc[q] = "answered" => prompt[PromptOf(q)].set \/ PromptOf(q) \in timedOut

VerdictKnown ==
  \A i \in DOMAIN events : events[i].type = "manual-done" =>
    IF events[i].by = NoCaller THEN events[i].prompt \in timedOut
                               ELSE Wrote(events[i].by, events[i].prompt)

Verdicts == WriterPicked /\ AnswerReady /\ VerdictKnown

\* A caller that has written is done with prompts.
LEMMA WroteStays ==
  ASSUME Typed, [Next]_vars, NEW c \in Callers, NEW p, Wrote(c, p)
  PROVE  Wrote(c, p)'
<1>1. caller \in [Callers -> [at : {"idle", "set", "pick", "write", "emit", "done", "no"},
                              prompt : Prompts \cup {NoPrompt}, run : Reqs \cup {NoReq}]]
  BY DEF Typed, TypeOK
<1>2. ASSUME NEW d \in Cancels, request_cancel(d) PROVE Wrote(c, p)'
  BY <1>1, <1>2 DEF Wrote, request_cancel, CancelLook, CancelSet, Pick, Write, CancelEmit, Step, Callers
<1>3. ASSUME NEW a \in Answers, answer(a) PROVE Wrote(c, p)'
  BY <1>1, <1>3 DEF Wrote, answer, Pick, Write, Step, Callers
<1>4. CASE UNCHANGED caller
  BY <1>4 DEF Wrote
<1>5. QED
  BY <1>2, <1>3, <1>4, CallerChanges

\* No prompt is forgotten to have timed out.
LEMMA TimedOutGrows == [Next]_vars => timedOut \subseteq timedOut'
BY PromptChanges DEF StartReset, RaisePrompt, PromptTimeout, TakeAnswer, Write, workVars

\* WriterPicked is preserved: an answer goes into the object picked up.
LEMMA WriterStep ==
  Typed /\ WriterPicked /\ [Next]_vars => WriterPicked'
<1> SUFFICES ASSUME Typed, WriterPicked, [Next]_vars PROVE WriterPicked'
  OBVIOUS
<1>1. /\ prompt \in [Prompts -> [by : Callers \cup {NoCaller}, set : BOOLEAN]]
      /\ caller \in [Callers -> [at : {"idle", "set", "pick", "write", "emit", "done", "no"},
                                 prompt : Prompts \cup {NoPrompt}, run : Reqs \cup {NoReq}]]
  BY DEF Typed, TypeOK
<1>2. ASSUME NEW p \in Prompts,
             prompt'[p] = prompt[p] \/ prompt'[p] = [by |-> NoCaller, set |-> FALSE]
      PROVE  SetByWriter(p)'
  <2>1. CASE prompt'[p] = prompt[p]
    <3>1. prompt[p].by \in Callers \cup {NoCaller} /\ SetByWriter(p)
      BY <1>1 DEF WriterPicked
    <3>2. \A c \in Callers : prompt[p].by = c => Wrote(c, p)'
      BY <3>1, PromptAssumption, WroteStays DEF SetByWriter
    <3>3. QED
      BY <2>1, <3>1, <3>2 DEF SetByWriter, Wrote
  <2>2. CASE prompt'[p] = [by |-> NoCaller, set |-> FALSE]
    BY <2>2 DEF SetByWriter
  <2>3. QED
    BY <1>2, <2>1, <2>2
<1>3. ASSUME NEW q \in Reqs, RaisePrompt(q) PROVE WriterPicked'
  BY <1>1, <1>2, <1>3 DEF RaisePrompt, WriterPicked
<1>4. ASSUME NEW c \in Callers, Write(c, "emit") \/ Write(c, "done") PROVE WriterPicked'
  <2>1. /\ prompt' = [prompt EXCEPT ![caller[c].prompt] = [by |-> c, set |-> TRUE]]
        /\ caller'[c].prompt = caller[c].prompt
        /\ caller'[c].at \in {"emit", "done"}
    BY <1>1, <1>4 DEF Write, Step
  <2>2. c # NoCaller
    BY PromptAssumption
  <2>3. \A p \in Prompts : p # caller[c].prompt => prompt'[p] = prompt[p]
    BY <1>1, <2>1
  <2>4. ASSUME NEW p \in Prompts, p = caller[c].prompt
        PROVE  prompt'[p] = [by |-> c, set |-> TRUE] /\ Wrote(c, p)'
    BY <1>1, <2>1, <2>4 DEF Wrote
  <2>5. QED
    BY <1>2, <2>2, <2>3, <2>4 DEF WriterPicked, SetByWriter, Wrote
<1>5. CASE UNCHANGED prompt
  BY <1>2, <1>5 DEF WriterPicked
<1>6. QED
  BY <1>3, <1>4, <1>5, PromptChanges DEF StartReset, PromptTimeout, TakeAnswer

\* AnswerReady is preserved: a worker goes on when its prompt is set or timed out.
LEMMA AnswerStep ==
  Typed /\ AnswerReady /\ [Next]_vars => AnswerReady'
<1> SUFFICES ASSUME Typed, AnswerReady, [Next]_vars, NEW q \in Reqs, pc'[q] = "answered"
             PROVE  prompt'[PromptOf(q)'].set \/ PromptOf(q)' \in timedOut'
  BY DEF AnswerReady
<1>1. /\ TypeOK /\ PromptOf(q) \in Prompts
      /\ prompt \in [Prompts -> [by : Callers \cup {NoCaller}, set : BOOLEAN]]
      /\ pc \in [Reqs -> Inside \cup {"idle", "refused", "ended"}]
  BY PromptOfIsPrompt DEF Typed, TypeOK
<1>2. ~RaisePrompt(q)
  BY <1>1 DEF RaisePrompt, Move
<1>3. PromptOf(q)' = PromptOf(q)
  BY <1>2, WaitBounds DEF PromptOf
<1>4. CASE PromptSet(q)
  BY <1>3, <1>4 DEF PromptSet
<1>5. CASE PromptTimeout(q)
  BY <1>3, <1>5 DEF PromptTimeout
<1>6. CASE pc[q] = "answered"
  <2>1. prompt[PromptOf(q)].set => prompt'[PromptOf(q)].set
    <3>1. ASSUME NEW r \in Reqs, RaisePrompt(r) PROVE prompt'[PromptOf(q)] = prompt[PromptOf(q)]
      <4>1. PromptOf(r) # PromptOf(q)
        BY <1>2, <3>1 DEF PromptOf
      <4>2. QED
        BY <1>1, <3>1, <4>1 DEF RaisePrompt
    <3>2. ASSUME NEW c \in Callers, Write(c, "emit") \/ Write(c, "done"), prompt[PromptOf(q)].set
          PROVE  prompt'[PromptOf(q)].set
      BY <1>1, <3>2 DEF Write
    <3>3. QED
      BY <3>1, <3>2, PromptChanges DEF StartReset, PromptTimeout, TakeAnswer
  <2>2. QED
    BY <1>3, <1>6, <2>1, TimedOutGrows DEF AnswerReady
<1>7. QED
  BY <1>2, <1>4, <1>5, <1>6, WaitBounds

\* A step leaves the list of events alone, starts a new one, or appends one
\* event; terminal events come with the settling of an open run.
LEMMA EventChanges ==
  ASSUME Typed, [Next]_vars
  PROVE  \/ UNCHANGED events
         \/ events' = <<>> /\ \E q \in Reqs : StartReset(q)
         \/ \E q \in Reqs : RaisePrompt(q) \/ TakeAnswer(q)
         \/ \E q \in Reqs, type \in {"start", "plan", "record"} : Emit(Event(type, q)) /\ Worker(q)
         \/ \E q \in Reqs, fate \in Terminal : Settle(q, fate) /\ Worker(q)
         \/ \E q \in Reqs : Emit(Event("cancelling", q)) /\ UNCHANGED outcome
<1> DEFINE Goal == \/ UNCHANGED events
                   \/ events' = <<>> /\ \E q \in Reqs : StartReset(q)
                   \/ \E q \in Reqs : RaisePrompt(q) \/ TakeAnswer(q)
                   \/ \E q \in Reqs, type \in {"start", "plan", "record"} :
                        Emit(Event(type, q)) /\ Worker(q)
                   \/ \E q \in Reqs, fate \in Terminal : Settle(q, fate) /\ Worker(q)
                   \/ \E q \in Reqs : Emit(Event("cancelling", q)) /\ UNCHANGED outcome
<1>1. ASSUME NEW q \in Reqs, Start(q) PROVE Goal
  BY <1>1 DEF Start, StartRefused, StartClaim, StartReset, StartArm
<1>2. ASSUME NEW q \in Reqs, Worker(q) PROVE Goal
  <2>1. CASE EmitStart(q) \/ LockGranted(q) \/ FinishUnit(q) \/ AgentReturns(q)
    BY <1>2, <2>1 DEF EmitStart, LockGranted, FinishUnit, AgentReturns
  <2>2. CASE SelectNothing(q) \/ LockBusy(q) \/ UnitRaises(q) \/ Conclude(q)
    BY <1>2, <2>2 DEF SelectNothing, LockBusy, UnitRaises, Conclude, Terminal
  <2>3. CASE RaisePrompt(q) \/ TakeAnswer(q)
    BY <2>3
  <2>4. CASE UNCHANGED events
    BY <2>4
  <2>5. QED
    BY <1>2, <2>1, <2>2, <2>3, <2>4 DEF Worker, Select, LoopExit, BeginUnit, PromptSet,
       PromptTimeout, UnitExits, Cleanup, Unlock
<1>3. ASSUME NEW c \in Cancels, request_cancel(c) PROVE Goal
  <2>1. CASE CancelEmit(c)
    <3>1. caller[c].run \in Reqs
      BY <2>1 DEF Typed, CancelKnowsRun, CancelEmit, Step
    <3>2. QED
      BY <2>1, <3>1 DEF CancelEmit, workVars
  <2>2. CASE ~CancelEmit(c)
    BY <1>3, <2>2 DEF request_cancel, CancelLook, CancelSet, Pick, Write
  <2>3. QED
    BY <2>1, <2>2
<1>4. ASSUME NEW a \in Answers, answer(a) PROVE Goal
  BY <1>4 DEF answer, Pick, Write
<1>5. CASE OthersTakeBench \/ OthersLeaveBench \/ AdminUnlocks \/ UNCHANGED vars
  BY <1>5 DEF OthersTakeBench, OthersLeaveBench, AdminUnlocks, vars
<1>6. QED
  BY <1>1, <1>2, <1>3, <1>4, <1>5 DEF Next

\* VerdictKnown is preserved: TakeAnswer reads the prompt it waited for.
LEMMA VerdictStep ==
  Typed /\ WaitShowsPrompt /\ Verdicts /\ [Next]_vars => VerdictKnown'
<1> DEFINE Known(i) == events[i].type = "manual-done" =>
             IF events[i].by = NoCaller THEN events[i].prompt \in timedOut
                                        ELSE Wrote(events[i].by, events[i].prompt)
<1> SUFFICES ASSUME Typed, WaitShowsPrompt, Verdicts, [Next]_vars,
                    NEW i \in DOMAIN events'
             PROVE  Known(i)'
  BY DEF VerdictKnown
<1>1. /\ events \in Seq(Events) /\ events' \in Seq(Events)
      /\ VerdictKnown
  BY EventsStep DEF Typed, TypeOK, Verdicts
<1>2. ASSUME i \in DOMAIN events, events'[i] = events[i] PROVE Known(i)'
  <2>1. Known(i) /\ events[i].by \in Callers \cup {NoCaller}
    <3>1. events[i] \in Events
      BY <1>1, <1>2
    <3>2. QED
      BY <1>1, <1>2, <3>1 DEF VerdictKnown, Events
  <2>2. \A c \in Callers : \A p : Wrote(c, p) => Wrote(c, p)'
    BY WroteStays
  <2>3. QED
    BY <1>2, <2>1, <2>2, TimedOutGrows DEF Wrote
<1>3. ASSUME NEW e \in Events, Emit(e), e.type # "manual-done" PROVE Known(i)'
  BY <1>1, <1>2, <1>3 DEF Emit
<1>4. CASE events' = <<>>
  BY <1>4
<1>5. CASE events' = events
  BY <1>2, <1>5
<1>6. ASSUME NEW q \in Reqs, TakeAnswer(q) PROVE Known(i)'
  <2> DEFINE p == PromptOf(q)
             e == [Event("manual-done", q) EXCEPT !.prompt = p, !.by = prompt[p].by]
  <2>1. p \in Prompts /\ pending = p /\ p # NoPrompt /\ pc[q] = "answered"
    BY <1>6, PromptOfIsPrompt, PromptAssumption DEF Typed, TakeAnswer, Move, WaitShowsPrompt
  <2>2. events' = Append(events, e) /\ UNCHANGED <<prompt, caller, timedOut>>
    BY <1>6, <2>1 DEF TakeAnswer, Emit, callVars
  <2>3. /\ e.type = "manual-done" /\ e.prompt = p /\ e.by = prompt[p].by
    BY DEF Event
  <2>4. IF e.by = NoCaller THEN e.prompt \in timedOut ELSE Wrote(e.by, e.prompt)
    BY <2>1, <2>3 DEF Verdicts, WriterPicked, SetByWriter, AnswerReady
  <2>5. CASE i \in DOMAIN events
    BY <1>1, <1>2, <2>2, <2>5
  <2>6. CASE i \notin DOMAIN events
    <3>1. events'[i] = e
      BY <1>1, <2>2, <2>6
    <3>2. QED
      BY <2>2, <2>4, <3>1 DEF Wrote
  <2>7. QED
    BY <2>5, <2>6
<1>7. ASSUME NEW q \in Reqs, NEW type \in {"start", "plan", "record", "cancelling"} \cup Terminal,
             Emit(Event(type, q))
      PROVE  Known(i)'
  <2>1. Event(type, q) \in Events /\ Event(type, q).type = type
    BY EventIsTyped DEF Event
  <2>2. type # "manual-done"
    BY DEF Terminal
  <2>3. QED
    BY <1>3, <1>7, <2>1, <2>2
<1>8. ASSUME NEW q \in Reqs, RaisePrompt(q) PROVE Known(i)'
  <2> DEFINE e == [Event("manual", q) EXCEPT !.prompt = PromptOf(q)]
  <2>1. e \in Events /\ e.type = "manual"
    BY EventIsTyped, PromptOfIsPrompt DEF Typed, Event
  <2>2. QED
    BY <1>3, <1>8, <2>1 DEF RaisePrompt
<1>9. QED
  BY <1>4, <1>5, <1>6, <1>7, <1>8, EventChanges DEF Settle

\* The three together are inductive.
LEMMA VerdictInvariant ==
  Typed /\ WaitShowsPrompt /\ Verdicts /\ [Next]_vars => Verdicts'
BY WriterStep, AnswerStep, VerdictStep DEF Verdicts

\* The verdict of a manual check comes from a caller that answered this very
\* prompt, or from nobody because its wait timed out.
THEOREM VerdictsAreGenuine == Spec => []VerdictSource
<1>1. Init => Verdicts
  BY DEF Init, Verdicts, WriterPicked, SetByWriter, AnswerReady, VerdictKnown
<1>2. Verdicts => VerdictSource
  BY DEF Verdicts, VerdictKnown, VerdictSource, Wrote
<1>3. QED
  BY <1>1, <1>2, TypedInvariant, WaitInvariant, WaitInit, VerdictInvariant, PTL DEF Spec

-----------------------------------------------------------------------------
(* How a run ends *)

\* A request is open until its worker has settled its fate.
Unsettled == {"idle", "claimed", "reset"} \cup (Working \ {"finally"})
FatesMatch == \A q \in Reqs : outcome[q] = "open" <=> pc[q] \in Unsettled

\* The kinds of worker steps, as far as its fate goes.
LEMMA WorkerFates ==
  ASSUME Typed, NEW q \in Reqs, Worker(q)
  PROVE  \/ /\ pc[q] \in Unsettled /\ pc' = [pc EXCEPT ![q] = "finally"]
            /\ UNCHANGED runLock
            /\ \E fate \in Terminal \cup {"silent"} : outcome' = [outcome EXCEPT ![q] = fate]
         \/ /\ pc[q] \in Unsettled /\ pc'[q] \in Unsettled /\ pc' = [pc EXCEPT ![q] = pc'[q]]
            /\ UNCHANGED <<runLock, outcome>>
         \/ /\ pc[q] = "finally" /\ pc' = [pc EXCEPT ![q] = "unlock"]
            /\ UNCHANGED <<runLock, outcome>>
         \/ /\ pc[q] = "unlock" /\ pc' = [pc EXCEPT ![q] = "ended"]
            /\ runLock' = NoReq /\ UNCHANGED outcome
<1>1. /\ TypeOK /\ pc \in [Reqs -> Inside \cup {"idle", "refused", "ended"}]
  BY DEF Typed, TypeOK
<1> USE <1>1 DEF Unsettled, Working, OnBench, Checking, Move
<1>2. CASE SelectNothing(q) \/ LockBusy(q) \/ UnitRaises(q) \/ Conclude(q)
  BY <1>2 DEF SelectNothing, LockBusy, UnitRaises, Conclude, Settle, Terminal
<1>3. CASE UnitExits(q)
  BY <1>3 DEF UnitExits
<1>4. CASE Cleanup(q)
  BY <1>4 DEF Cleanup
<1>5. CASE Unlock(q)
  BY <1>5 DEF Unlock
<1>6. CASE BeginUnit(q)
  <2>1. todo[q] \in Seq(Units) /\ todo[q] # <<>>
    BY <1>6 DEF BeginUnit, TypeOK
  <2>2. UnitStep[Head(todo[q])] \in {"checking", "prompting", "dispatching"}
    BY <2>1 DEF UnitStep, Units
  <2>3. QED
    BY <1>6, <2>2 DEF BeginUnit
<1>7. CASE EmitStart(q) \/ Select(q) \/ LoopExit(q) \/ AgentReturns(q)
  BY <1>7 DEF EmitStart, Select, LoopExit, AgentReturns
<1>8. CASE LockGranted(q)
  BY <1>8 DEF LockGranted
<1>9. CASE RaisePrompt(q) \/ PromptSet(q) \/ PromptTimeout(q) \/ TakeAnswer(q)
  BY <1>9 DEF RaisePrompt, PromptSet, PromptTimeout, TakeAnswer
<1>10. CASE FinishUnit(q)
  BY <1>10 DEF FinishUnit
<1>11. QED
  BY <1>2, <1>3, <1>4, <1>5, <1>6, <1>7, <1>8, <1>9, <1>10 DEF Worker

\* The kinds of start steps, as far as the fate of the request goes.
LEMMA StartFates ==
  ASSUME Typed, NEW q \in Reqs, Start(q)
  PROVE  \/ /\ pc[q] = "idle" /\ pc' = [pc EXCEPT ![q] = "refused"]
            /\ runLock # NoReq /\ UNCHANGED runLock
            /\ outcome' = [outcome EXCEPT ![q] = "refused"]
         \/ /\ pc[q] = "idle" /\ pc' = [pc EXCEPT ![q] = "claimed"]
            /\ runLock = NoReq /\ runLock' = q /\ UNCHANGED outcome
         \/ /\ pc[q] \in {"claimed", "reset"} /\ pc'[q] \in {"reset", "spawned"}
            /\ pc' = [pc EXCEPT ![q] = pc'[q]]
            /\ UNCHANGED <<runLock, outcome>>
BY DEF Typed, TypeOK, Start, StartRefused, StartClaim, StartReset, StartArm, Move

\* FatesMatch is preserved.
LEMMA FatesStep == Typed /\ FatesMatch /\ [Next]_vars => FatesMatch'
<1> SUFFICES ASSUME Typed, FatesMatch, [Next]_vars PROVE FatesMatch'
  OBVIOUS
<1>1. /\ pc \in [Reqs -> Inside \cup {"idle", "refused", "ended"}]
      /\ outcome \in [Reqs -> {"open", "refused", "silent"} \cup Terminal]
  BY DEF Typed, TypeOK
<1> USE <1>1 DEF FatesMatch, Unsettled, Working, OnBench, Checking
<1>2. ASSUME NEW q \in Reqs, Start(q) PROVE FatesMatch'
  BY <1>2, StartFates
<1>3. ASSUME NEW q \in Reqs, Worker(q) PROVE FatesMatch'
  BY <1>3, WorkerFates DEF Terminal
<1>4. CASE UNCHANGED <<pc, outcome>>
  BY <1>4
<1>5. QED
  BY <1>2, <1>3, <1>4, OnlyRunsMove

\* FatesMatch always holds.
LEMMA FatesInvariant == Spec => []FatesMatch
<1>1. Init => FatesMatch
  BY DEF Init, FatesMatch, Unsettled
<1>2. QED
  BY <1>1, FatesStep, TypedInvariant, PTL DEF Spec

\* RunState implements the life cycle: an accepted run settles its fate once,
\* while it has the slot, and only then makes room.
THEOREM LifecycleRefinement == Spec => ImplementsLifecycle
<1>1. Init => Lifecycle!Init
  BY DEF Init, Lifecycle!Init
<1>2. Typed /\ FatesMatch /\ [Next]_vars => [Lifecycle!Next]_<<runLock, outcome>>
  <2> SUFFICES ASSUME Typed, FatesMatch, [Next]_vars
               PROVE  Lifecycle!Next \/ UNCHANGED <<runLock, outcome>>
    OBVIOUS
  <2>1. /\ pc \in [Reqs -> Inside \cup {"idle", "refused", "ended"}]
        /\ runLock \in Reqs \cup {NoReq}
        /\ Control
    BY DEF Typed, TypeOK
  <2>2. \A q \in Reqs : pc[q] \in Inside => runLock = q
    BY <2>1 DEF Control, OneRunAtATime
  <2>3. ASSUME NEW q \in Reqs, Start(q) PROVE Lifecycle!Next \/ UNCHANGED <<runLock, outcome>>
    <3>1. CASE /\ pc[q] = "idle" /\ runLock # NoReq /\ UNCHANGED runLock
               /\ outcome' = [outcome EXCEPT ![q] = "refused"]
      <4>1. runLock # q
        BY <2>1, <3>1 DEF Control, LockHolderIsInside, Inside, Working, OnBench, Checking
      <4>2. outcome[q] = "open"
        BY <3>1 DEF FatesMatch, Unsettled
      <4>3. Lifecycle!Refuse(q)
        BY <3>1, <4>1, <4>2 DEF Lifecycle!Refuse
      <4>4. QED
        BY <4>3 DEF Lifecycle!Next
    <3>2. CASE pc[q] = "idle" /\ runLock = NoReq /\ runLock' = q /\ UNCHANGED outcome
      <4>1. Lifecycle!Accept(q)
        BY <3>2 DEF Lifecycle!Accept, FatesMatch, Unsettled
      <4>2. QED
        BY <4>1 DEF Lifecycle!Next
    <3>3. CASE UNCHANGED <<runLock, outcome>>
      BY <3>3
    <3>4. QED
      BY <2>3, <3>1, <3>2, <3>3, StartFates
  <2>4. ASSUME NEW q \in Reqs, Worker(q) PROVE Lifecycle!Next \/ UNCHANGED <<runLock, outcome>>
    <3>1. CASE /\ pc[q] \in Unsettled /\ UNCHANGED runLock
               /\ \E fate \in Terminal \cup {"silent"} : outcome' = [outcome EXCEPT ![q] = fate]
      <4>1. pc[q] \in Inside
        BY <2>4 DEF Worker, EmitStart, Select, SelectNothing, LockGranted, LockBusy, LoopExit,
           BeginUnit, RaisePrompt, PromptSet, PromptTimeout, TakeAnswer, FinishUnit, UnitRaises,
           UnitExits, AgentReturns, Conclude, Cleanup, Unlock, Move, Inside, Working, OnBench, Checking
      <4>2. runLock = q /\ outcome[q] = "open"
        BY <2>2, <3>1, <4>1 DEF FatesMatch
      <4>3. Lifecycle!Settle(q)
        BY <3>1, <4>2 DEF Lifecycle!Settle, Terminal
      <4>4. QED
        BY <4>3 DEF Lifecycle!Next
    <3>2. CASE pc[q] = "unlock" /\ runLock' = NoReq /\ UNCHANGED outcome
      <4>1. runLock = q
        BY <2>2, <3>2 DEF Inside
      <4>2. outcome[q] # "open"
        BY <3>2 DEF FatesMatch, Unsettled, Working, OnBench, Checking
      <4>3. Lifecycle!Vacate(q)
        BY <3>2, <4>1, <4>2 DEF Lifecycle!Vacate
      <4>4. QED
        BY <4>3 DEF Lifecycle!Next
    <3>3. CASE UNCHANGED <<runLock, outcome>>
      BY <3>3
    <3>4. QED
      BY <2>4, <3>1, <3>2, <3>3, WorkerFates
  <2>5. QED
    BY <2>3, <2>4, OnlyRunsMove
<1>3. QED
  BY <1>1, <1>2, TypedInvariant, FatesInvariant, PTL DEF Spec, ImplementsLifecycle, Lifecycle!Spec

\* Only a run that is settled has a terminal event on the list.
ToldMeansSettled ==
  \A i \in DOMAIN events : events[i].type \in Terminal => outcome[events[i].run] # "open"

EventsInOrder == ToldMeansSettled /\ TerminalIsLast

\* Nothing but Settle and UnitExits changes the fate of an open run.
LEMMA SettledStays ==
  ASSUME Typed, FatesMatch, [Next]_vars, NEW q \in Reqs, outcome[q] # "open"
  PROVE  outcome'[q] # "open"
<1>1. outcome \in [Reqs -> {"open", "refused", "silent"} \cup Terminal]
  BY DEF Typed, TypeOK
<1>2. ASSUME NEW r \in Reqs, Start(r) PROVE outcome'[q] # "open"
  BY <1>1, <1>2, StartFates
<1>3. ASSUME NEW r \in Reqs, Worker(r) PROVE outcome'[q] # "open"
  BY <1>1, <1>3, WorkerFates DEF Terminal
<1>4. QED
  BY <1>2, <1>3, OnlyRunsMove

\* A worker that appends an event is that of an open run.
LEMMA SpeakerIsOpen ==
  ASSUME Typed, FatesMatch, NEW q \in Reqs, Worker(q), ~Cleanup(q), ~Unlock(q)
  PROVE  outcome[q] = "open"
<1>1. pc[q] \in Working \ {"finally"}
  BY WorkerMoves DEF Typed
<1>2. QED
  BY <1>1 DEF FatesMatch, Unsettled

\* EventsInOrder is preserved, whatever is appended.
LEMMA OrderStep ==
  Typed /\ FatesMatch /\ EventsInOrder /\ [Next]_vars => EventsInOrder'
<1> SUFFICES ASSUME Typed, FatesMatch, EventsInOrder, [Next]_vars PROVE EventsInOrder'
  OBVIOUS
<1>1. /\ events \in Seq(Events)
      /\ outcome \in [Reqs -> {"open", "refused", "silent"} \cup Terminal]
      /\ \A i \in DOMAIN events : events[i].run \in Reqs
  <2>1. events \in Seq(Events)
    BY DEF Typed, TypeOK
  <2>2. \A i \in DOMAIN events : events[i] \in Events
    BY <2>1
  <2>3. QED
    BY <2>1, <2>2 DEF Typed, TypeOK, Events
<1>2. CASE UNCHANGED events
  BY <1>1, <1>2, SettledStays DEF EventsInOrder, ToldMeansSettled, TerminalIsLast
<1>3. CASE events' = <<>>
  BY <1>3 DEF EventsInOrder, ToldMeansSettled, TerminalIsLast
\* Any event of an open run may follow, and a notice of a cancel always may.
<1>4. ASSUME NEW e, e.run \in Reqs, Emit(e),
             e.type \in Terminal => outcome'[e.run] # "open",
             e.type # "cancelling" => outcome[e.run] = "open"
      PROVE  EventsInOrder'
  <2>1. events' = Append(events, e)
    BY <1>4 DEF Emit
  <2>2. /\ DOMAIN events' = 1..Len(events) + 1
        /\ DOMAIN events = 1..Len(events) /\ Len(events) \in Nat
        /\ \A i \in 1..Len(events) : events'[i] = events[i]
        /\ events'[Len(events) + 1] = e
    BY <1>1, <2>1
  <2>3. ToldMeansSettled'
    BY <1>1, <1>4, <2>2, SettledStays DEF EventsInOrder, ToldMeansSettled
  <2>4. TerminalIsLast'
    BY <1>1, <1>4, <2>2 DEF EventsInOrder, ToldMeansSettled, TerminalIsLast
  <2>5. QED
    BY <2>3, <2>4 DEF EventsInOrder
<1>5. ASSUME NEW q \in Reqs, RaisePrompt(q) \/ TakeAnswer(q) PROVE EventsInOrder'
  <2>1. outcome[q] = "open"
    BY <1>5 DEF RaisePrompt, TakeAnswer, Move, FatesMatch, Unsettled, Working, OnBench, Checking
  <2>2. CASE RaisePrompt(q)
    <3> DEFINE e == [Event("manual", q) EXCEPT !.prompt = PromptOf(q)]
    <3>1. e.run = q /\ e.type = "manual"
      BY DEF Event
    <3>2. QED
      BY <1>4, <2>1, <2>2, <3>1 DEF RaisePrompt, Terminal
  <2>3. CASE TakeAnswer(q)
    <3> DEFINE e == [Event("manual-done", q) EXCEPT
                       !.prompt = pending,
                       !.by = IF pending = NoPrompt THEN NoCaller ELSE prompt[pending].by]
    <3>1. e.run = q /\ e.type = "manual-done"
      BY DEF Event
    <3>2. QED
      BY <1>4, <2>1, <2>3, <3>1 DEF TakeAnswer, Terminal
  <2>4. QED
    BY <1>5, <2>2, <2>3
<1>6. ASSUME NEW q \in Reqs, NEW type \in {"start", "plan", "record"}, Emit(Event(type, q)), Worker(q)
      PROVE  EventsInOrder'
  <2>1. Event(type, q).run = q /\ Event(type, q).type = type
    BY DEF Event
  <2>2. events' # events
    BY <1>1, <1>6 DEF Emit
  <2>3. outcome[q] = "open"
    BY <1>6, <2>2, SpeakerIsOpen DEF Cleanup, Unlock
  <2>4. QED
    BY <1>4, <1>6, <2>1, <2>3 DEF Terminal
<1>7. ASSUME NEW q \in Reqs, NEW fate \in Terminal, Settle(q, fate), Worker(q) PROVE EventsInOrder'
  <2>1. Event(fate, q).run = q /\ Event(fate, q).type = fate
    BY DEF Event
  <2>2. events' # events /\ Emit(Event(fate, q)) /\ outcome'[q] = fate
    BY <1>1, <1>7 DEF Settle, Emit
  <2>3. outcome[q] = "open"
    BY <1>7, <2>2, SpeakerIsOpen DEF Cleanup, Unlock
  <2>4. QED
    BY <1>4, <2>1, <2>2, <2>3 DEF Terminal
<1>8. ASSUME NEW q \in Reqs, Emit(Event("cancelling", q)), UNCHANGED outcome PROVE EventsInOrder'
  <2>1. Event("cancelling", q).run = q /\ Event("cancelling", q).type = "cancelling"
    BY DEF Event
  <2>2. QED
    BY <1>4, <1>8, <2>1 DEF Terminal
<1>9. QED
  BY <1>2, <1>3, <1>5, <1>6, <1>7, <1>8, EventChanges

\* After a run's terminal event the list holds nothing of it but notices of
\* late cancels.
THEOREM TerminalEnds == Spec => []TerminalIsLast
<1>1. Init => EventsInOrder
  BY DEF Init, EventsInOrder, ToldMeansSettled, TerminalIsLast
<1>2. QED
  BY <1>1, OrderStep, TypedInvariant, FatesInvariant, PTL DEF Spec, EventsInOrder

-----------------------------------------------------------------------------
(* Cancel *)

\* A run that was stopped keeps its flag: nothing clears it before a new start.
StoppedMeansFlag ==
  \A q \in stopped : /\ pc[q] \in Working \cup {"unlock", "ended"}
                     /\ pc[q] \in Working => cancelFlag

\* StoppedMeansFlag is preserved: the flag outlives the run it stopped.
LEMMA StoppedStep == Typed /\ StoppedMeansFlag /\ [Next]_vars => StoppedMeansFlag'
<1> SUFFICES ASSUME Typed, StoppedMeansFlag, [Next]_vars, NEW q \in stopped'
             PROVE  /\ pc'[q] \in Working \cup {"unlock", "ended"}
                    /\ pc'[q] \in Working => cancelFlag'
  BY DEF StoppedMeansFlag
<1>1. /\ TypeOK /\ Control /\ stopped \subseteq Reqs
      /\ pc \in [Reqs -> Inside \cup {"idle", "refused", "ended"}]
  BY DEF Typed, TypeOK
<1>2. CASE q \in stopped
  <2>1. /\ q \in Reqs /\ pc[q] \in Working \cup {"unlock", "ended"}
        /\ pc[q] \in Working => cancelFlag
    BY <1>1, <1>2 DEF StoppedMeansFlag
  <2>2. /\ pc'[q] \in Working \cup {"unlock", "ended"}
        /\ pc'[q] \in Working => pc[q] \in Working
    <3>1. ASSUME NEW r \in Reqs, Start(r) PROVE pc'[q] = pc[q]
      BY <1>1, <2>1, <3>1, StartFates DEF Working, OnBench, Checking, Start, StartRefused, StartClaim,
         StartReset, StartArm, Move
    <3>2. ASSUME NEW r \in Reqs, r # q, Worker(r) PROVE pc'[q] = pc[q]
      BY <1>1, <2>1, <3>2, WorkerMoves DEF Cleanup, Unlock, Move
    <3>3. CASE Cleanup(q) \/ Unlock(q)
      BY <1>1, <2>1, <3>3 DEF Cleanup, Unlock, Move, Working, OnBench, Checking
    <3>4. CASE Worker(q) /\ ~Cleanup(q) /\ ~Unlock(q)
      BY <1>1, <2>1, <3>4, WorkerMoves
    <3>5. QED
      BY <2>1, <3>1, <3>2, <3>3, <3>4, OnlyRunsMove
  <2>3. ASSUME NEW r \in Reqs, StartArm(r) PROVE pc'[q] \notin Working
    <3>1. r # q /\ pc[r] = "reset"
      BY <2>1, <2>3 DEF StartArm, Move, Working, OnBench, Checking
    <3>2. pc[q] \notin Working
      BY <1>1, <2>1, <3>1 DEF Control, OneRunAtATime, Inside
    <3>3. QED
      BY <2>2, <3>2
  <2>4. QED
    BY <2>1, <2>2, <2>3, FlagChanges DEF CancelSet
<1>3. CASE q \notin stopped
  <2>1. PICK c \in Cancels : CancelSet(c)
    BY <1>3, CallerChanges DEF request_cancel, answer, CancelLook, Pick, Write, CancelEmit
  <2>2. active /\ q = runLock /\ cancelFlag' = TRUE /\ pc' = pc
    BY <1>1, <1>3, <2>1 DEF CancelSet, workVars, TypeOK
  <2>3. QED
    BY <1>1, <2>2 DEF Control, ActiveIsWorking
<1>4. QED
  BY <1>2, <1>3

\* Once the flag is set during a run, that run begins no further unit.
THEOREM CancelledRunsStop == Spec => NoUnitAfterCancel
<1>1. Init => StoppedMeansFlag
  BY DEF Init, StoppedMeansFlag
<1>2. Typed /\ StoppedMeansFlag /\ [Next]_vars =>
        [\A q \in stopped : pc[q] \in OnBench => todo'[q] = todo[q]]_vars
  <2> SUFFICES ASSUME Typed, StoppedMeansFlag, [Next]_vars,
                      NEW q \in stopped, pc[q] \in OnBench
               PROVE  todo'[q] = todo[q]
    OBVIOUS
  <2>1. /\ q \in Reqs /\ cancelFlag
        /\ todo \in [Reqs -> {p \in Seq(Units) : Len(p) <= MaxUnits}]
    BY DEF Typed, TypeOK, StoppedMeansFlag, Working
  <2>2. ASSUME NEW r \in Reqs, LockGranted(r) PROVE todo'[q] = todo[q]
    <3>1. r # q
      BY <2>2 DEF LockGranted, Move, OnBench, Checking
    <3>2. QED
      BY <2>1, <2>2, <3>1 DEF LockGranted
  <2>3. ASSUME NEW r \in Reqs, BeginUnit(r) PROVE todo'[q] = todo[q]
    BY <2>1, <2>3 DEF BeginUnit
  <2>4. QED
    BY <2>2, <2>3, TodoChanges
<1>3. QED
  BY <1>1, <1>2, TypedInvariant, StoppedStep, PTL DEF Spec, NoUnitAfterCancel

=============================================================================
