--------------------------- MODULE BenchRunsProofs ---------------------------
(***************************************************************************)
(* Proofs about BenchRuns, for every bench and every set of requests.      *)
(* The invariant that carries them is IInv: ids of running requests differ *)
(* (this is where the assumption on the clock is used), each run holds     *)
(* what it touches, and every entry of the table belongs to a run.         *)
(***************************************************************************)
EXTENDS BenchRuns, TLAPS

IdsOfRunning == \A h \in Handlers : pc[h] = "running" <=> runId[h] # NoRun

UniqueIds ==
  /\ \A g, h \in Running : runId[g] = runId[h] => g = h
  /\ \A h \in Running : runId[h] \notin stray

IInv ==
  /\ TypeOK
  /\ IdsOfRunning
  /\ UniqueIds
  /\ HoldsWhatItTouches
  /\ NoOrphanLock

-----------------------------------------------------------------------------
\* Whatever boards are asked for, only resources of the bench are locked.
LEMMA TouchedAreResources ==
  \A selection : touched_resources(selection) \subseteq Resources
<1> SUFFICES ASSUME NEW selection, NEW r \in touched_resources(selection)
             PROVE  r \in Resources
  OBVIOUS
<1>1. Targets(selection) \subseteq Boards
  BY DEF Targets
<1>2. \A b \in Boards : AgentsOf(b, LockedAliases) \subseteq Agents
  BY BenchAssumption DEF AgentsOf
<1>3. QED
  BY <1>1, <1>2 DEF touched_resources, Resources

\* The id a request computes is one of RunIds, hence not the free mark.
LEMMA IdNowType ==
  ASSUME TypeOK, NEW h \in Handlers
  PROVE  IdNow(h) \in RunIds /\ IdNow(h) # NoRun
BY NoRunAssumption DEF TypeOK, IdNow, RunIds

-----------------------------------------------------------------------------
\* The state of every request and of the lock table is well typed, whatever
\* the interleaving of runs, workbench calls and forced unlocks.
THEOREM TypeCorrect == Spec => []TypeOK
<1>1. Init => TypeOK
  BY RequestAssumption DEF Init, LocksInit, TypeOK, LocksTypeOK
<1>2. TypeOK /\ [Next]_vars => TypeOK'
  <2> SUFFICES ASSUME TypeOK, [Next]_vars PROVE TypeOK'
    OBVIOUS
  <2> USE DEF TypeOK, LocksTypeOK, Handlers
  <2>1. ASSUME NEW h \in Handlers, NEW s \in SUBSET (Boards \cup {UnknownBoard}), Begin(h, s)
        PROVE  TypeOK'
    BY <2>1, IdNowType DEF Begin, Acquire
  <2>2. ASSUME NEW h \in Handlers, NEW next \in {"idle", "unlocking"}, End(h, next)
        PROVE  TypeOK'
    BY <2>2 DEF End, Release
  <2>3. ASSUME NEW h \in PilotReqs, Pilot(h)
        PROVE  TypeOK'
    <3>1. CASE PilotStart(h)
      BY <3>1 DEF PilotStart
    <3>2. CASE PilotAbort(h)
      BY <3>2 DEF PilotAbort
    <3>3. CASE PilotAcquire(h)
      BY <2>1, <3>3 DEF PilotAcquire
    <3>4. CASE PilotBusy(h)
      BY <3>4 DEF PilotBusy, Reject
    <3>5. CASE PilotRelease(h)
      BY <2>2, <3>5 DEF PilotRelease
    <3>6. CASE PilotUnlock(h)
      BY <3>6 DEF PilotUnlock
    <3>7. QED
      BY <2>3, <3>1, <3>2, <3>3, <3>4, <3>5, <3>6 DEF Pilot
  <2>4. ASSUME NEW h \in DevReqs, DevAcquire(h)
        PROVE  TypeOK'
    BY <2>1, <2>4 DEF DevAcquire
  <2>11. ASSUME NEW h \in DevReqs, DevNoDir(h)
         PROVE  TypeOK'
    BY <2>11, IdNowType DEF DevNoDir, Acquire
  <2>5. ASSUME NEW h \in AgentReqs, AgentAcquire(h)
        PROVE  TypeOK'
    BY <2>1, <2>5 DEF AgentAcquire
  <2>6. ASSUME NEW h \in DevReqs \cup AgentReqs, WorkbenchEnd(h)
        PROVE  TypeOK'
    BY <2>2, <2>6 DEF WorkbenchEnd
  <2>7. ASSUME NEW r \in Resources, locks_force(r)
        PROVE  TypeOK'
    BY <2>7 DEF locks_force, ForceRelease
  <2>8. CASE Tick
    BY <2>8, RequestAssumption DEF Tick
  <2>9. CASE UNCHANGED vars
    BY <2>9 DEF vars
  <2>10. QED
    BY <2>3, <2>4, <2>5, <2>6, <2>7, <2>8, <2>9, <2>11 DEF Next
<1>3. QED
  BY <1>1, <1>2, PTL DEF Spec

-----------------------------------------------------------------------------
(* Inductiveness of IInv, one lemma for taking locks, one for giving back. *)

\* A successful acquire finds every resource it wants free: an entry under
\* the new id would belong to a running request or to a run that never began,
\* and the id is new.
LEMMA AcquireFindsFree ==
  ASSUME IInv, NEW h \in Handlers, NEW s, IdIsNew(h),
         Acquire(touched_resources(s), IdNow(h)), NEW r \in touched_resources(s)
  PROVE  held[r] = NoRun
<1>1. r \in Resources
  BY TouchedAreResources
<1>2. held[r] \in {NoRun, IdNow(h)}
  BY DEF Acquire, Conflict
<1>3. held[r] # IdNow(h)
  BY <1>1, IdNowType DEF IInv, NoOrphanLock, IdIsNew
<1>4. QED
  BY <1>2, <1>3

LEMMA BeginFindsFree ==
  ASSUME UniqueMs, IInv, NEW h \in Handlers, NEW s \in SUBSET (Boards \cup {UnknownBoard}),
         Begin(h, s), NEW r \in touched_resources(s)
  PROVE  held[r] = NoRun
BY AcquireFindsFree DEF Begin

LEMMA BeginPreserves ==
  ASSUME UniqueMs, IInv, TypeOK', NEW h \in Handlers,
         NEW s \in SUBSET (Boards \cup {UnknownBoard}),
         pc[h] # "running", Begin(h, s)
  PROVE  IInv'
<1> USE DEF IInv, TypeOK, LocksTypeOK, Running
<1>1. /\ pc' = [pc EXCEPT ![h] = "running"]
      /\ runId' = [runId EXCEPT ![h] = IdNow(h)]
      /\ sel' = [sel EXCEPT ![h] = s]
      /\ lost' = [lost EXCEPT ![h] = {}]
      /\ held' = [r \in Resources |-> IF r \in touched_resources(s) THEN IdNow(h) ELSE held[r]]
  BY DEF Begin, Acquire
<1>2. \A g \in Handlers : g # h => Owned(g)' = Owned(g)
  BY <1>1 DEF Owned
<1>3. Owned(h)' = touched_resources(s)
  BY <1>1 DEF Owned
<1>4. touched_resources(s) \subseteq Resources
  BY TouchedAreResources
<1>5. IdNow(h) # NoRun
  BY IdNowType
<1>6. IdsOfRunning'
  BY <1>1, <1>5 DEF IdsOfRunning
<1>11. stray' = stray
  BY DEF Begin
<1>7. UniqueIds'
  BY <1>1, <1>11 DEF UniqueIds, Begin, IdIsNew
<1>8. HoldsWhatItTouches'
  <2> SUFFICES ASSUME NEW g \in Running', NEW r \in Owned(g)'
               PROVE  held'[r] = runId'[g]
    BY DEF HoldsWhatItTouches
  <2>1. CASE g = h
    BY <2>1, <1>1, <1>3, <1>4
  <2>2. CASE g # h
    <3>1. g \in Running /\ r \in Owned(g)
      BY <2>2, <1>1, <1>2
    <3>2. held[r] = runId[g] /\ held[r] # NoRun
      BY <3>1 DEF HoldsWhatItTouches, IdsOfRunning
    <3>3. r \in Resources /\ r \notin touched_resources(s)
      BY <3>1, <3>2, BeginFindsFree, TouchedAreResources DEF Owned
    <3>4. QED
      BY <2>2, <3>2, <3>3, <1>1
  <2>3. QED
    BY <2>1, <2>2
<1>9. NoOrphanLock'
  <2> SUFFICES ASSUME NEW r \in Resources, held'[r] # NoRun
               PROVE  \/ \E g \in Running' : runId'[g] = held'[r] /\ r \in Owned(g)'
                      \/ held'[r] \in stray
    BY <1>11 DEF NoOrphanLock
  <2>1. CASE r \in touched_resources(s)
    BY <2>1, <1>1, <1>3
  <2>2. CASE r \notin touched_resources(s) /\ held'[r] \notin stray
    <3>1. PICK g \in Running : runId[g] = held[r] /\ r \in Owned(g)
      BY <2>2, <1>1 DEF NoOrphanLock
    <3>2. g # h
      OBVIOUS
    <3>3. QED
      BY <2>2, <3>1, <3>2, <1>1, <1>2
  <2>3. QED
    BY <2>1, <2>2
<1>10. QED
  BY <1>6, <1>7, <1>8, <1>9

\* Ending a run frees exactly its own entries, because no other run has its id.
LEMMA EndPreserves ==
  ASSUME IInv, TypeOK', NEW h \in Handlers, NEW next \in {"idle", "unlocking"},
         h \in Running, End(h, next)
  PROVE  IInv'
<1> USE DEF IInv, TypeOK, LocksTypeOK, Running
<1>1. /\ pc' = [pc EXCEPT ![h] = next]
      /\ runId' = [runId EXCEPT ![h] = NoRun]
      /\ sel' = [sel EXCEPT ![h] = {}]
      /\ lost' = [lost EXCEPT ![h] = {}]
      /\ held' = [r \in Resources |-> IF held[r] = runId[h] THEN NoRun ELSE held[r]]
  BY DEF End, Release
<1>2. Running' = Running \ {h}
  BY <1>1
<1>3. \A g \in Handlers : g # h => Owned(g)' = Owned(g)
  BY <1>1 DEF Owned
<1>4. IdsOfRunning'
  BY <1>1 DEF IdsOfRunning
<1>9. stray' = stray
  BY DEF End
<1>5. UniqueIds'
  BY <1>1, <1>2, <1>9 DEF UniqueIds
<1>6. HoldsWhatItTouches'
  <2> SUFFICES ASSUME NEW g \in Running', NEW r \in Owned(g)'
               PROVE  held'[r] = runId'[g]
    BY DEF HoldsWhatItTouches
  <2>1. g \in Running /\ g # h /\ r \in Owned(g)
    BY <1>2, <1>3
  <2>2. held[r] = runId[g] /\ runId[g] # runId[h]
    BY <2>1 DEF HoldsWhatItTouches, UniqueIds
  <2>3. r \in Resources
    BY <2>1, TouchedAreResources DEF Owned
  <2>4. QED
    BY <1>1, <2>1, <2>2, <2>3
<1>7. NoOrphanLock'
  <2> SUFFICES ASSUME NEW r \in Resources, held'[r] # NoRun
               PROVE  \/ \E g \in Running' : runId'[g] = held'[r] /\ r \in Owned(g)'
                      \/ held'[r] \in stray
    BY <1>9 DEF NoOrphanLock
  <2>1. held'[r] = held[r] /\ held[r] # runId[h]
    BY <1>1
  <2>2. CASE \E g \in Running : runId[g] = held[r] /\ r \in Owned(g)
    BY <1>1, <1>2, <1>3, <2>1, <2>2
  <2>3. QED
    BY <2>1, <2>2 DEF NoOrphanLock
<1>8. QED
  BY <1>4, <1>5, <1>6, <1>7

\* A forced unlock takes one entry out and records whom it was taken from.
LEMMA ForcePreserves ==
  ASSUME IInv, TypeOK', NEW r \in Resources, locks_force(r)
  PROVE  IInv'
<1> USE DEF IInv, TypeOK, LocksTypeOK, Running
<1>1. /\ held' = [held EXCEPT ![r] = NoRun]
      /\ UNCHANGED <<pc, runId, sel, stray>>
      /\ lost' = [h \in Handlers |->
                IF h \in Running /\ runId[h] = held[r] THEN lost[h] \cup {r} ELSE lost[h]]
  BY DEF locks_force, ForceRelease
<1>2. Running' = Running
  BY <1>1
<1>3. \A h \in Handlers : Owned(h)' = IF h \in Running /\ runId[h] = held[r]
                                      THEN Owned(h) \ {r} ELSE Owned(h)
  BY <1>1 DEF Owned
<1>4. IdsOfRunning' /\ UniqueIds'
  BY <1>1, <1>2 DEF IdsOfRunning, UniqueIds
<1>5. HoldsWhatItTouches'
  <2> SUFFICES ASSUME NEW h \in Running, NEW q \in Owned(h)'
               PROVE  held'[q] = runId[h]
    BY <1>1, <1>2 DEF HoldsWhatItTouches
  <2>1. q \in Owned(h) /\ held[q] = runId[h]
    BY <1>3 DEF HoldsWhatItTouches
  <2>2. q # r
    BY <1>3, <2>1
  <2>3. QED
    BY <1>1, <2>1, <2>2
<1>6. NoOrphanLock'
  <2> SUFFICES ASSUME NEW q \in Resources, held'[q] # NoRun
               PROVE  \/ \E h \in Running : runId[h] = held[q] /\ q \in Owned(h)'
                      \/ held[q] \in stray
    BY <1>1, <1>2 DEF NoOrphanLock
  <2>1. q # r /\ held[q] # NoRun
    BY <1>1
  <2>2. QED
    BY <1>3, <2>1 DEF NoOrphanLock
<1>7. QED
  BY <1>4, <1>5, <1>6

\* An id whose run never begins stays apart from those of running requests, and
\* locks only what was free.
LEMMA NoDirPreserves ==
  ASSUME UniqueMs, IInv, TypeOK', NEW h \in Handlers, DevNoDir(h)
  PROVE  IInv'
<1> USE DEF IInv, TypeOK, LocksTypeOK, Running
<1>1. PICK b \in Boards : Acquire(touched_resources({b}), IdNow(h))
  BY DEF DevNoDir
<1>2. /\ UNCHANGED <<pc, runId, sel, lost>>
      /\ stray' = stray \cup {IdNow(h)}
      /\ IdIsNew(h)
  BY DEF DevNoDir
<1>3. held' = [r \in Resources |-> IF r \in touched_resources({b}) THEN IdNow(h) ELSE held[r]]
  BY <1>1 DEF Acquire
<1>4. \A r \in touched_resources({b}) : held[r] = NoRun
  BY <1>1, <1>2, AcquireFindsFree
<1>5. Running' = Running /\ \A g \in Handlers : Owned(g)' = Owned(g)
  BY <1>2 DEF Owned
<1>6. IdsOfRunning' /\ UniqueIds'
  BY <1>2, <1>5 DEF IdsOfRunning, UniqueIds, IdIsNew
<1>7. HoldsWhatItTouches'
  <2> SUFFICES ASSUME NEW g \in Running, NEW r \in Owned(g)
               PROVE  held'[r] = runId[g]
    BY <1>2, <1>5 DEF HoldsWhatItTouches
  <2>1. r \in Resources /\ held[r] = runId[g] /\ held[r] # NoRun
    BY TouchedAreResources DEF HoldsWhatItTouches, IdsOfRunning, Owned
  <2>2. QED
    BY <1>3, <1>4, <2>1
<1>8. NoOrphanLock'
  BY <1>2, <1>3, <1>5 DEF NoOrphanLock
<1>9. QED
  BY <1>6, <1>7, <1>8

\* Steps that touch neither the table nor a running request.
LEMMA QuietPreserves ==
  ASSUME IInv, TypeOK', UNCHANGED <<held, runId, sel, lost, stray>>, Running' = Running
  PROVE  IInv'
<1>1. \A h \in Handlers : Owned(h)' = Owned(h)
  BY DEF Owned
<1>2. QED
  BY <1>1 DEF IInv, IdsOfRunning, UniqueIds, HoldsWhatItTouches, NoOrphanLock, Running

\* While no two overlapping runs are stamped in the same millisecond, IInv
\* holds for ever.
LEMMA IInvCorrect == ASSUME UniqueMs PROVE Spec => []IInv
<1>1. Init => IInv
  <2> SUFFICES ASSUME Init PROVE IInv
    OBVIOUS
  <2>1. TypeOK
    BY RequestAssumption DEF Init, LocksInit, TypeOK, LocksTypeOK
  <2>2. QED
    BY <2>1 DEF Init, LocksInit, IInv, IdsOfRunning, UniqueIds, HoldsWhatItTouches,
                NoOrphanLock, Running
<1>2. IInv /\ TypeOK' /\ [Next]_vars => IInv'
  <2> SUFFICES ASSUME IInv, TypeOK', [Next]_vars PROVE IInv'
    OBVIOUS
  <2>0. TypeOK
    BY DEF IInv
  <2>1. ASSUME NEW h \in PilotReqs, Pilot(h)
        PROVE  IInv'
    <3>0. h \in Handlers
      BY DEF Handlers
    <3>1. CASE PilotStart(h)
      BY <2>0, <3>0, <3>1, QuietPreserves DEF PilotStart, Running, TypeOK
    <3>2. CASE PilotAbort(h)
      BY <2>0, <3>0, <3>2, QuietPreserves DEF PilotAbort, Running, TypeOK
    <3>3. CASE PilotAcquire(h)
      BY <3>0, <3>3, BeginPreserves DEF PilotAcquire
    <3>4. CASE PilotBusy(h)
      BY <2>0, <3>0, <3>4, QuietPreserves DEF PilotBusy, Reject, Running, TypeOK
    <3>5. CASE PilotRelease(h)
      BY <3>0, <3>5, EndPreserves DEF PilotRelease, Running
    <3>6. CASE PilotUnlock(h)
      BY <2>0, <3>0, <3>6, QuietPreserves DEF PilotUnlock, Running, TypeOK
    <3>7. QED
      BY <2>1, <3>1, <3>2, <3>3, <3>4, <3>5, <3>6 DEF Pilot
  <2>9. ASSUME NEW h \in DevReqs, DevNoDir(h)
        PROVE  IInv'
    BY <2>9, NoDirPreserves DEF Handlers
  <2>2. ASSUME NEW h \in DevReqs, DevAcquire(h)
        PROVE  IInv'
    BY <2>2, BeginPreserves DEF DevAcquire, Handlers
  <2>3. ASSUME NEW h \in AgentReqs, AgentAcquire(h)
        PROVE  IInv'
    BY <2>3, BeginPreserves DEF AgentAcquire, Handlers
  <2>4. ASSUME NEW h \in DevReqs \cup AgentReqs, WorkbenchEnd(h)
        PROVE  IInv'
    BY <2>4, EndPreserves DEF WorkbenchEnd, Handlers, Running
  <2>5. ASSUME NEW r \in Resources, locks_force(r)
        PROVE  IInv'
    BY <2>5, ForcePreserves
  <2>6. CASE Tick
    BY <2>6, QuietPreserves DEF Tick, Running
  <2>7. CASE UNCHANGED vars
    BY <2>7, QuietPreserves DEF vars, Running
  <2>8. QED
    BY <2>1, <2>2, <2>3, <2>4, <2>5, <2>6, <2>7, <2>9 DEF Next
<1>3. QED
  BY <1>1, <1>2, TypeCorrect, PTL DEF Spec

-----------------------------------------------------------------------------
(* The properties of the runs, for every value of the constants. *)

\* Two overlapping runs own disjoint sets of boards and agents.
THEOREM Exclusive == ASSUME UniqueMs PROVE Spec => []BenchExclusive
<1>1. IInv => BenchExclusive
  BY DEF IInv, BenchExclusive, HoldsWhatItTouches, UniqueIds
<1>2. QED
  BY <1>1, IInvCorrect, PTL

\* A run keeps its locks until it ends, except for what an admin takes.
THEOREM KeepsItsLocks == ASSUME UniqueMs PROVE Spec => []HoldsWhatItTouches
BY IInvCorrect, PTL DEF IInv

\* Nothing stays locked after its run is over, but for the locks of a dev run
\* that got no directory.
THEOREM NoLeak == ASSUME UniqueMs PROVE Spec => []NoOrphanLock
BY IInvCorrect, PTL DEF IInv

\* At most one pilot run exists, whatever the clock does.
THEOREM PilotsAreSerial == Spec => []OnePilot
<1>1. Init => OnePilot
  BY DEF Init, OnePilot, Handlers
<1>2. TypeOK /\ OnePilot /\ [Next]_vars => OnePilot'
  <2> SUFFICES ASSUME TypeOK, OnePilot, [Next]_vars PROVE OnePilot'
    OBVIOUS
  <2> USE DEF TypeOK, OnePilot, Handlers
  <2>1. ASSUME NEW h \in PilotReqs, Pilot(h)
        PROVE  OnePilot'
    BY <2>1, RequestAssumption DEF Pilot, PilotStart, PilotAbort, PilotAcquire, PilotBusy,
       PilotRelease, PilotUnlock, Begin, End
  <2>2. ASSUME NEW h \in DevReqs \cup AgentReqs,
               DevAcquire(h) \/ DevNoDir(h) \/ AgentAcquire(h) \/ WorkbenchEnd(h)
        PROVE  OnePilot'
    BY <2>2, RequestAssumption DEF DevAcquire, DevNoDir, AgentAcquire, WorkbenchEnd, Begin, End
  <2>3. ASSUME \/ \E r \in Resources : locks_force(r)
               \/ Tick \/ UNCHANGED vars
        PROVE  pc' = pc /\ runLock' = runLock
    BY <2>3 DEF locks_force, Tick, vars
  <2>4. QED
    BY <2>1, <2>2, <2>3 DEF Next
<1>3. QED
  BY <1>1, <1>2, TypeCorrect, PTL DEF Spec

-----------------------------------------------------------------------------
(* The two facts about steps: who may free a lock, and the refinement. *)

\* The steps of BenchRuns, by what they do to the table.
LEMMA StepCases ==
  ASSUME [Next]_vars
  PROVE  \/ \E h \in Handlers, s \in SUBSET (Boards \cup {UnknownBoard}) :
              pc[h] # "running" /\ Begin(h, s)
         \/ \E h \in Running, next \in {"idle", "unlocking"} : End(h, next)
         \/ \E h \in DevReqs : DevNoDir(h)
         \/ \E r \in Resources : locks_force(r)
         \/ UNCHANGED <<held, runId>> /\ (TypeOK => Running' = Running)
<1> USE DEF Handlers, Running
<1>1. ASSUME NEW h \in PilotReqs, Pilot(h)
      PROVE  \/ \E s \in SUBSET (Boards \cup {UnknownBoard}) : pc[h] # "running" /\ Begin(h, s)
             \/ h \in Running /\ End(h, "unlocking")
             \/ UNCHANGED <<held, runId>> /\ (TypeOK => Running' = Running)
  <2>1. CASE PilotAcquire(h)
    BY <2>1 DEF PilotAcquire
  <2>2. CASE PilotRelease(h)
    BY <2>2 DEF PilotRelease
  <2>3. CASE PilotStart(h) \/ PilotAbort(h) \/ PilotBusy(h) \/ PilotUnlock(h)
    BY <2>3 DEF PilotStart, PilotAbort, PilotBusy, PilotUnlock, Reject, TypeOK
  <2>4. QED
    BY <1>1, <2>1, <2>2, <2>3 DEF Pilot
<1>2. ASSUME NEW h \in DevReqs, DevAcquire(h)
      PROVE  \E s \in SUBSET (Boards \cup {UnknownBoard}) : pc[h] # "running" /\ Begin(h, s)
  BY <1>2 DEF DevAcquire
<1>3. ASSUME NEW h \in AgentReqs, AgentAcquire(h)
      PROVE  \E s \in SUBSET (Boards \cup {UnknownBoard}) : pc[h] # "running" /\ Begin(h, s)
  BY <1>3 DEF AgentAcquire
<1>4. ASSUME NEW h \in DevReqs \cup AgentReqs, WorkbenchEnd(h)
      PROVE  h \in Running /\ End(h, "idle")
  BY <1>4 DEF WorkbenchEnd
<1>5. CASE Tick \/ UNCHANGED vars
  BY <1>5 DEF Tick, vars
<1>6. QED
  BY <1>1, <1>2, <1>3, <1>4, <1>5 DEF Next

\* An entry leaves the table only at the end of its run or by force, and no
\* step hands it from one run to another.
THEOREM OnlyOwners == ASSUME UniqueMs PROVE Spec => OnlyOwnerReleases
<1>1. ASSUME IInv, [Next]_vars, NEW r \in Resources, held[r] # NoRun, held'[r] # held[r]
      PROVE  /\ held'[r] = NoRun
             /\ \/ \E h \in Running : /\ runId[h] = held[r]
                                      /\ h \notin Running' \/ r \in lost'[h]
                \/ held[r] \in stray /\ held' = [held EXCEPT ![r] = NoRun]
  <2> USE <1>1 DEF IInv, TypeOK, LocksTypeOK
  <2>1. ASSUME NEW h \in Handlers, NEW s \in SUBSET (Boards \cup {UnknownBoard}), Begin(h, s)
        PROVE  FALSE
    BY <2>1, BeginFindsFree DEF Begin, Acquire
  <2>2. ASSUME NEW h \in Running, NEW next \in {"idle", "unlocking"}, End(h, next)
        PROVE  held'[r] = NoRun /\ runId[h] = held[r] /\ h \notin Running'
    BY <2>2 DEF End, Release, Running
  <2>3. ASSUME NEW q \in Resources, locks_force(q)
        PROVE  /\ held' = [held EXCEPT ![r] = NoRun]
               /\ held[r] \in stray \/ \E h \in Running : runId[h] = held[r] /\ r \in lost'[h]
    BY <2>3 DEF locks_force, ForceRelease, NoOrphanLock, Running
  <2>4. ASSUME NEW h \in DevReqs, DevNoDir(h)
        PROVE  FALSE
    BY <2>4, AcquireFindsFree DEF DevNoDir, Acquire, Handlers
  <2>5. CASE UNCHANGED <<held, runId>>
    BY <2>5
  <2>6. QED
    BY <2>1, <2>2, <2>3, <2>4, <2>5, StepCases
<1>2. IInv /\ [Next]_vars =>
        [\A r \in Resources : held[r] # NoRun /\ held'[r] # held[r] =>
           /\ held'[r] = NoRun
           /\ \/ \E h \in Running : /\ runId[h] = held[r]
                                    /\ h \notin Running' \/ r \in lost'[h]
              \/ held[r] \in stray /\ held' = [held EXCEPT ![r] = NoRun]]_vars
  BY <1>1
<1>3. QED
  BY <1>2, IInvCorrect, PTL DEF Spec, OnlyOwnerReleases

\* The lock table implements exclusive use of resources: every step of a run
\* enters, leaves, is revoked, or stutters.
THEOREM Refinement == ASSUME UniqueMs PROVE Spec => ImplementsMutex
<1>1. Init => Mutex!Init
  BY DEF Init, Mutex!Init, Using, Running
<1>2. IInv /\ IInv' /\ [Next]_vars => [Mutex!Next]_Using
  <2> SUFFICES ASSUME IInv, IInv', [Next]_vars PROVE [Mutex!Next]_Using
    OBVIOUS
  <2> USE DEF IInv, TypeOK, LocksTypeOK, Running, Using, HeldBy
  <2>1. ASSUME NEW h \in Handlers, NEW s \in SUBSET (Boards \cup {UnknownBoard}),
               pc[h] # "running", Begin(h, s)
        PROVE  Mutex!Enter(h, touched_resources(s))
    <3>1. /\ pc' = [pc EXCEPT ![h] = "running"]
          /\ runId' = [runId EXCEPT ![h] = IdNow(h)]
          /\ held' = [r \in Resources |-> IF r \in touched_resources(s) THEN IdNow(h) ELSE held[r]]
          /\ IdIsNew(h)
      BY <2>1 DEF Begin, Acquire
    <3>2. \A r \in touched_resources(s) : held[r] = NoRun
      BY <2>1, BeginFindsFree
    <3>3. \A g \in Handlers : Using[g] \cap touched_resources(s) = {}
      BY <3>2 DEF IdsOfRunning
    <3>4. Using[h] = {}
      BY <2>1
    <3>5. \A r \in Resources : held[r] # IdNow(h)
      BY <3>1, IdNowType DEF NoOrphanLock, IdIsNew
    <3>6. Using'[h] = touched_resources(s)
      BY <3>1, <3>5, TouchedAreResources
    <3>7. ASSUME NEW g \in Handlers \ {h}
          PROVE  Using'[g] = Using[g]
      <4>1. CASE g \in Running
        <5>1. runId'[g] = runId[g] /\ runId[g] # IdNow(h) /\ runId[g] # NoRun
          BY <3>1, <4>1 DEF IdIsNew, IdsOfRunning
        <5>2. \A r \in Resources : held'[r] = runId[g] <=> held[r] = runId[g]
          BY <3>1, <3>2, <5>1
        <5>3. QED
          BY <3>1, <4>1, <5>1, <5>2
      <4>2. CASE g \notin Running
        BY <3>1, <4>2
      <4>3. QED
        BY <4>1, <4>2
    <3>8. Using' = [Using EXCEPT ![h] = touched_resources(s)]
      BY <3>6, <3>7
    <3>9. QED
      BY <3>3, <3>4, <3>8 DEF Mutex!Enter
  <2>2. ASSUME NEW h \in Running, NEW next \in {"idle", "unlocking"}, End(h, next)
        PROVE  Mutex!Leave(h)
    <3>1. /\ pc' = [pc EXCEPT ![h] = next]
          /\ runId' = [runId EXCEPT ![h] = NoRun]
          /\ held' = [r \in Resources |-> IF held[r] = runId[h] THEN NoRun ELSE held[r]]
      BY <2>2 DEF End, Release
    <3>2. ASSUME NEW g \in Handlers \ {h}
          PROVE  Using'[g] = Using[g]
      <4>1. CASE g \in Running
        <5>1. runId'[g] = runId[g] /\ runId[g] # runId[h] /\ runId[g] # NoRun
          BY <3>1, <4>1 DEF UniqueIds, IdsOfRunning
        <5>2. \A r \in Resources : held'[r] = runId[g] <=> held[r] = runId[g]
          BY <3>1, <5>1
        <5>3. QED
          BY <3>1, <4>1, <5>1, <5>2
      <4>2. CASE g \notin Running
        BY <3>1, <4>2
      <4>3. QED
        BY <4>1, <4>2
    <3>3. Using'[h] = {}
      BY <3>1
    <3>4. QED
      BY <3>2, <3>3 DEF Mutex!Leave
  <2>3. ASSUME NEW r \in Resources, locks_force(r)
        PROVE  Mutex!Revoke(r)
    BY <2>3 DEF locks_force, ForceRelease, Mutex!Revoke, IdsOfRunning
  <2>4. CASE UNCHANGED <<held, runId>> /\ Running' = Running
    BY <2>4
  <2>5. ASSUME NEW h \in DevReqs, DevNoDir(h)
        PROVE  UNCHANGED Using
    <3>1. PICK b \in Boards : Acquire(touched_resources({b}), IdNow(h))
      BY <2>5 DEF DevNoDir
    <3>2. UNCHANGED <<pc, runId>> /\ IdIsNew(h)
      BY <2>5 DEF DevNoDir
    <3>3. held' = [r \in Resources |-> IF r \in touched_resources({b}) THEN IdNow(h) ELSE held[r]]
      BY <3>1 DEF Acquire
    <3>4. \A r \in touched_resources({b}) : held[r] = NoRun
      BY <3>1, <3>2, AcquireFindsFree DEF Handlers
    <3>5. \A g \in Running, r \in Resources : held'[r] = runId[g] <=> held[r] = runId[g]
      BY <3>2, <3>3, <3>4 DEF IdIsNew, IdsOfRunning
    <3>6. QED
      BY <3>2, <3>5
  <2>6. QED
    BY <2>1, <2>2, <2>3, <2>4, <2>5, StepCases, TouchedAreResources DEF Mutex!Next
<1>3. QED
  BY <1>1, <1>2, IInvCorrect, PTL DEF Spec, Mutex!Spec, ImplementsMutex

=============================================================================
