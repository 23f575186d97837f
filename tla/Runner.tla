-------------------------------- MODULE Runner --------------------------------
(***************************************************************************)
(* One run of a suite (core/runner.py, run) with the checks it dispatches  *)
(* to the atf-mgmt container (access/mgmt/dispatch.py and worker.py).      *)
(*                                                                         *)
(* A check needs driver aliases and actions.  An alias of a board is       *)
(* served by a wired agent, by an agent the bench lacks, or by nobody,     *)
(* which for a driver other than a serial line means from the container.   *)
(* Checks run one at a time: in process on the channels of the board's     *)
(* context, or in a batch of the container.  What a check does on a board  *)
(* is its verdict; evidence, severities and metrics are left out.          *)
(***************************************************************************)
EXTENDS Selection

CONSTANTS
  Registry,     \* the checks loaded, in the order of REGISTRY
  Needs,        \* check -> the aliases it declares
  NeedsActions, \* check -> the actions it declares
  Suites,       \* the suites that may be run
  BoardSeq,     \* the boards of the bench, in its order
  BoardModel,   \* board -> model
  Drivers,      \* board -> alias -> [serial : BOOLEAN, agent : "wired", "gone" or "none"]
  BoardActions, \* board -> the actions configured for it
  Backends      \* "docker", "local"

\* "manual" and "na" are to every definition what "gap" is: not a pass.
Verdicts == {"pass", "gap", "skipped", "error"}
Boards == ToSet(BoardSeq)
Checks == ToSet(Registry)

ASSUME RunnerAssumption ==
  /\ Registry \in Seq(Checks) /\ IsInjective(Registry)
  /\ BoardSeq \in Seq(Boards) /\ IsInjective(BoardSeq)
  /\ Backends \subseteq {"docker", "local"}
  /\ \A s \in Suites :
       /\ s.reqs \in Seq(ToSet(s.reqs))
       /\ \A req \in ToSet(s.reqs) : req.tests \in Seq(ToSet(req.tests))

VARIABLES
  suite, backend,   \* what was asked for
  pc,
  specs,            \* the checks selected, in order
  at,               \* how many boards have been entered
  queue,            \* checks left to run on this board
  batch,            \* checks left in the container
  results,          \* what the container has to report
  records,          \* the records of the run
  opened,           \* aliases of this board's context with an open connection
  worker,           \* and those of the context that a local worker has made itself
  failed,           \* history: what raised, the local worker or the close of a channel
  cancel,           \* the cancel event
  ran               \* history: the checks executed, in order

asked == <<suite, backend>>
connections == <<opened, worker, failed>>
vars == <<asked, pc, specs, at, queue, batch, results, records, connections, cancel, ran>>

board == BoardSeq[at]

-----------------------------------------------------------------------------
(* What a board offers *)

\* available_drivers: the agent is wired, or none is asked for.
available_drivers(b) == {a \in DOMAIN Drivers[b] : Drivers[b][a].agent # "gone"}

\* _build_ctx: the channels of the in-process context.
in_process(b) == {a \in DOMAIN Drivers[b] : Drivers[b][a].agent = "wired"}

\* The vantage of the container: no agent, and not a serial line.
container_aliases(b) ==
  {a \in DOMAIN Drivers[b] : Drivers[b][a].agent = "none" /\ ~Drivers[b][a].serial}

needs_container(id, b) == Needs[id] \cap container_aliases(b) # {}

Runnable(id, b) == Needs[id] \subseteq available_drivers(b) /\ NeedsActions[id] \subseteq BoardActions[b]

\* Model gating.
SpecsOf(b) == Only(specs, {id \in Checks : ModelFits(id, BoardModel[b])})

Record(b, id, verdict) == [board |-> b, check |-> id, verdict |-> verdict]

Equipped(id, aliases, actions) == Needs[id] \subseteq aliases /\ NeedsActions[id] \subseteq actions

\* What a check connects to: nothing when it is not called.
Uses(id, aliases, actions) == IF Equipped(id, aliases, actions) THEN Needs[id] ELSE {}

Ran(id, verdict, aliases) ==
  ran' = Append(ran, [board |-> board, check |-> id, verdict |-> verdict, aliases |-> aliases])

\* Mutant: run_check does not look at what the context has.
RunCheckAnyway(id, aliases, actions, verdict) == Ran(id, verdict, aliases)

\* run_check: a check that lacks something in its context is skipped without
\* being called; one that is called may come out as anything.
RunCheck(id, aliases, actions, verdict) ==
  IF Equipped(id, aliases, actions) THEN Ran(id, verdict, aliases)
  ELSE verdict = "skipped" /\ UNCHANGED ran

-----------------------------------------------------------------------------
Init ==
  /\ suite \in Suites /\ backend \in Backends
  /\ pc = "select"
  /\ specs = <<>> /\ at = 0
  /\ queue = <<>> /\ batch = <<>> /\ results = <<>> /\ records = <<>>
  /\ opened = {} /\ worker = {} /\ failed = {} /\ cancel = FALSE
  /\ ran = <<>>

\* resolve_selection; without a check there is no run.
Resolve ==
  /\ pc = "select"
  /\ specs' = resolve_selection(Registry, suite)
  /\ pc' = IF specs' = <<>> THEN "done" ELSE "boards"
  /\ UNCHANGED <<asked, at, queue, batch, results, records, connections, cancel, ran>>

\* Another thread sets the event while the run goes on.
Cancel ==
  /\ pc \notin {"done", "raised"} /\ ~cancel
  /\ cancel' = TRUE
  /\ UNCHANGED <<asked, pc, specs, at, queue, batch, results, records, connections, ran>>

\* The next board: what it cannot run is recorded as skipped, the rest queued.
EnterBoard ==
  /\ pc = "boards" /\ ~cancel /\ at < Len(BoardSeq)
  /\ at' = at + 1
  /\ LET b == BoardSeq[at + 1]
         runnable == {id \in Checks : Runnable(id, b)}
         missing == Only(SpecsOf(b), Checks \ runnable)
     IN  /\ records' = records \o [i \in DOMAIN missing |-> Record(b, missing[i], "skipped")]
         /\ queue' = Only(SpecsOf(b), runnable)
  /\ pc' = "units"
  /\ UNCHANGED <<asked, specs, batch, results, connections, cancel, ran>>

\* No board left, or cancelled: run-meta.json is written.
Finish ==
  /\ pc = "boards" /\ (cancel \/ at = Len(BoardSeq))
  /\ pc' = "done"
  /\ UNCHANGED <<asked, specs, at, queue, batch, results, records, connections, cancel, ran>>

\* The next unit is a check in process ...
Here(id) == pc = "units" /\ ~cancel /\ queue # <<>> /\ id = Head(queue) /\ ~needs_container(id, board)

RunHere(id, verdict) ==
  /\ Here(id)
  /\ RunCheck(id, in_process(board), BoardActions[board], verdict)
  /\ queue' = Tail(queue)
  /\ records' = Append(records, Record(board, id, verdict))
  /\ opened' = opened \cup Uses(id, in_process(board), BoardActions[board])
  /\ UNCHANGED <<asked, pc, specs, at, batch, results, worker, failed, cancel>>

\* ... that may return no Result: run_check then raises outside its try.
CrashHere(id) ==
  /\ Here(id)
  /\ Equipped(id, in_process(board), BoardActions[board])
  /\ Ran(id, "error", in_process(board))
  /\ pc' = "unwind"
  /\ opened' = opened \cup Needs[id]
  /\ UNCHANGED <<asked, specs, at, queue, batch, results, records, worker, failed, cancel>>

\* How many checks at the head of the queue go to the container together.
BatchLength ==
  CHOOSE n \in 1..Len(queue) :
    /\ \A i \in 1..n : needs_container(queue[i], board)
    /\ n < Len(queue) => ~needs_container(queue[n + 1], board)

\* Mutant: all checks that need the container go in one batch.
BeginBatchGathers ==
  /\ pc = "units" /\ ~cancel /\ queue # <<>> /\ needs_container(Head(queue), board)
  /\ batch' = SelectSeq(queue, LAMBDA id : needs_container(id, board))
  /\ queue' = SelectSeq(queue, LAMBDA id : ~needs_container(id, board))
  /\ results' = <<>>
  /\ pc' = "batch"
  /\ UNCHANGED <<asked, specs, at, records, connections, cancel, ran>>

\* dispatch: consecutive checks that need the container are sent together.
BeginBatch ==
  /\ pc = "units" /\ ~cancel /\ queue # <<>> /\ needs_container(Head(queue), board)
  /\ batch' = SubSeq(queue, 1, BatchLength)
  /\ queue' = SubSeq(queue, BatchLength + 1, Len(queue))
  /\ results' = <<>>
  /\ pc' = "batch"
  /\ UNCHANGED <<asked, specs, at, records, connections, cancel, ran>>

\* worker.run, its next check.  The check may be unknown: the container has a
\* registry of its own, and the one of the server may have been reloaded.  What
\* a container connects to is closed with it.
WorkerRun(verdict) ==
  /\ pc = "batch" /\ batch # <<>>
  /\ LET id == Head(batch)  aliases == container_aliases(board) IN
       /\ results' = Append(results, Record(board, id, verdict))
       /\ \/ /\ RunCheck(id, aliases, {}, verdict)
             /\ worker' = IF backend = "local" THEN worker \cup Uses(id, aliases, {}) ELSE {}
          \/ verdict = "error" /\ UNCHANGED <<worker, ran>>
  /\ batch' = Tail(batch)
  /\ UNCHANGED <<asked, pc, specs, at, queue, records, opened, failed, cancel>>

\* Mutant: what the container had done before it failed is kept, the rest lost.
BatchFailsPartly ==
  /\ pc = "batch" /\ backend = "docker"
  /\ records' = records \o results
  /\ batch' = <<>> /\ results' = <<>> /\ pc' = "units"
  /\ UNCHANGED <<asked, specs, at, queue, connections, cancel, ran>>

\* The container fails, times out, or its output is not JSON: one error each.
BatchFails ==
  /\ pc = "batch" /\ backend = "docker"
  /\ LET sent == [i \in DOMAIN results |-> results[i].check] \o batch
     IN  records' = records \o [i \in DOMAIN sent |-> Record(board, sent[i], "error")]
  /\ batch' = <<>> /\ results' = <<>> /\ pc' = "units"
  /\ UNCHANGED <<asked, specs, at, queue, connections, cancel, ran>>

\* In process ("local") a check that returns no Result ends the run instead, and
\* passes the worker's channels by: they are not closed in a finally ...
CrashInBatch ==
  /\ pc = "batch" /\ backend = "local" /\ batch # <<>>
  /\ Equipped(Head(batch), container_aliases(board), {})
  /\ Ran(Head(batch), "error", container_aliases(board))
  /\ worker' = worker \cup Needs[Head(batch)]
  /\ failed' = failed \cup {"worker"}
  /\ batch' = <<>> /\ results' = <<>> /\ pc' = "unwind"
  /\ UNCHANGED <<asked, specs, at, queue, records, opened, cancel>>

\* ... and one that raises when it is closed ends the run too, and leaves the rest.
WorkerCloseFails ==
  /\ pc = "batch" /\ backend = "local" /\ batch = <<>>
  /\ worker # {} /\ worker' \in SUBSET worker
  /\ failed' = failed \cup {"worker"}
  /\ results' = <<>> /\ pc' = "unwind"
  /\ UNCHANGED <<asked, specs, at, queue, batch, records, opened, cancel, ran>>

BatchReturns ==
  /\ pc = "batch" /\ batch = <<>>
  /\ records' = records \o results
  /\ worker' = {}
  /\ results' = <<>> /\ pc' = "units"
  /\ UNCHANGED <<asked, specs, at, queue, batch, opened, failed, cancel, ran>>

\* Mutant: the channels are closed only when the board's loop ends normally.
CloseBoardLeaks ==
  /\ \/ pc = "units" /\ (cancel \/ queue = <<>>) /\ pc' = "boards" /\ opened' = {}
     \/ pc = "unwind" /\ pc' = "raised" /\ UNCHANGED opened
  /\ queue' = <<>>
  /\ UNCHANGED <<asked, specs, at, batch, results, records, worker, failed, cancel, ran>>

\* Mutant: a cancelled run leaves the rest of the board's checks waiting.
CloseBoardWhenEmpty ==
  /\ \/ pc = "units" /\ queue = <<>> /\ pc' = "boards"
     \/ pc = "unwind" /\ pc' = "raised"
  /\ opened' = {} /\ queue' = <<>>
  /\ UNCHANGED <<asked, specs, at, batch, results, records, worker, failed, cancel, ran>>

\* finally: the channels and the actions of the board are closed.
CloseBoard ==
  /\ \/ pc = "units" /\ (cancel \/ queue = <<>>) /\ pc' = "boards"
     \/ pc = "unwind" /\ pc' = "raised"
  /\ opened' = {} /\ queue' = <<>>
  /\ UNCHANGED <<asked, specs, at, batch, results, records, worker, failed, cancel, ran>>

\* One that raises when it is closed: the loop stops, and the rest stays open.
CloseFails ==
  /\ pc \in {"units", "unwind"} /\ (pc = "units" => cancel \/ queue = <<>>)
  /\ opened # {} /\ opened' \in SUBSET opened
  /\ failed' = failed \cup {"close"}
  /\ queue' = <<>> /\ pc' = "raised"
  /\ UNCHANGED <<asked, specs, at, batch, results, records, worker, cancel, ran>>

Step ==
  \/ Resolve \/ EnterBoard \/ Finish
  \/ \E id \in Checks : CrashHere(id) \/ \E verdict \in Verdicts : RunHere(id, verdict)
  \/ BeginBatch \/ (\E verdict \in Verdicts : WorkerRun(verdict))
  \/ BatchFails \/ CrashInBatch \/ WorkerCloseFails \/ BatchReturns
  \/ CloseBoard \/ CloseFails

Next == Step \/ Cancel

Spec == Init /\ [][Next]_vars

\* The thread of the run goes on: checks return and the container's call is
\* bounded by its timeout.
FairSpec == Spec /\ WF_vars(Step)

-----------------------------------------------------------------------------
TypeOK ==
  /\ suite \in Suites /\ backend \in Backends
  /\ pc \in {"select", "boards", "units", "batch", "unwind", "done", "raised"}
  /\ specs \in Seq(Checks) /\ queue \in Seq(Checks) /\ batch \in Seq(Checks)
  /\ at \in 0..Len(BoardSeq)
  /\ \A list \in {results, records} : list \in Seq([board : Boards, check : Checks, verdict : Verdicts])
  /\ \A list \in {opened, worker} : list \subseteq UNION {DOMAIN Drivers[b] : b \in Boards}
  /\ failed \subseteq {"worker", "close"}
  /\ cancel \in BOOLEAN
  /\ \A i \in DOMAIN ran : ran[i].board \in Boards /\ ran[i].check \in Checks

\* Every board has at most one record of a check, however often the suite names
\* it and whatever fails on the way; when a run ends that was not cancelled it
\* has exactly one for each check selected for its model.
OneRecordEach ==
  \A b \in Boards, id \in Checks :
    LET entries == {i \in DOMAIN records : records[i].board = b /\ records[i].check = id}
    IN  /\ \A i, j \in entries : i = j
        /\ pc = "done" /\ ~cancel /\ id \in ToSet(specs) /\ ModelFits(id, BoardModel[b])
             => entries # {}

\* Where an id is first named in a map.
FirstNamed(id) ==
  LET ids == InSome(suite.reqs) IN CHOOSE i \in DOMAIN ids :
    ids[i] = id /\ \A j \in 1..(i - 1) : ids[j] # id

\* On a board checks execute in the order the suite first names them, in
\* process and in containers alike: no teardown before its test.
RanInSuiteOrder ==
  suite.kind = "map" =>
    \A i, j \in DOMAIN ran :
      i < j /\ ran[i].board = ran[j].board => FirstNamed(ran[i].check) < FirstNamed(ran[j].check)

\* A check executes only where every driver it needs is present, and never on
\* a board of another model.
RanEquipped ==
  \A i \in DOMAIN ran : /\ Needs[ran[i].check] \subseteq ran[i].aliases
                        /\ ModelFits(ran[i].check, BoardModel[ran[i].board])

\* Each test of the requirement was executed on the board and passed, or there is none and
\* the fallback says so.
Earned(req, b) ==
  IF req.tests = <<>> THEN req.fallback = "pass"
  ELSE \A id \in ToSet(req.tests) :
         \E i \in DOMAIN ran : ran[i].board = b /\ ran[i].check = id /\ ran[i].verdict = "pass"

\* A requirement passes on a board only if that was earned there, and the report
\* calls it passed overall only if it was on every board with a record.
PassIsEarned ==
  pc = "done" /\ suite.kind = "map" =>
    LET verdicts == requirement_verdicts(suite.reqs, records)
        overall == _requirement_blocks(suite.reqs, records)
    IN  /\ \A c \in DOMAIN verdicts : verdicts[c] = "pass" => Earned(suite.reqs[c[1]], c[2])
        /\ \A r \in DOMAIN overall : overall[r] = "pass" =>
             /\ records # <<>>
             /\ \A i \in DOMAIN records : Earned(suite.reqs[r], records[i].board)

\* A run that goes on to the next board, or ends, has left no connection to the
\* one before.  One that raises leaves some only of the context in which a close
\* raised, and of a local worker that raised: whatever else ends a run, the
\* board's own channels are closed.
ChannelsClosed ==
  /\ pc \in {"boards", "done"} => opened = {} /\ worker = {}
  /\ pc = "raised" => (opened # {} => "close" \in failed) /\ (worker # {} => "worker" \in failed)

\* The run ends.
Ends == <>(pc \in {"done", "raised"})

=============================================================================
