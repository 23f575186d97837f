-------------------------- MODULE CheckSourcesProofs --------------------------
(***************************************************************************)
(* Proofs about CheckSources, for any sources, versions and requests.      *)
(*                                                                         *)
(* What a request has achieved so far is known while it is calm, and every *)
(* step of another ends its calm; so each invariant says of each job, by   *)
(* the point it is at, what holds if nobody disturbed it.  Base holds      *)
(* whoever does what; ReloadInv, EditInv, CatalogsInv and DirInv are one   *)
(* for each theorem.                                                       *)
(***************************************************************************)
EXTENDS CheckSources, TLAPS

-----------------------------------------------------------------------------
(* Jobs *)

\* A record with the fields of a job.
IsJob(r) == /\ r = [pc |-> r.pc, op |-> r.op, name |-> r.name, todo |-> r.todo, got |-> r.got, calm |-> r.calm]
            /\ r.calm \in BOOLEAN

Jobs == /\ job = [h \in Handlers |-> job[h]]
        /\ \A h \in Handlers : IsJob(job[h])

\* The same job, disturbed.
Disturbed(g) ==
  /\ ~job'[g].calm
  /\ job'[g].pc = job[g].pc /\ job'[g].op = job[g].op /\ job'[g].name = job[g].name
  /\ job'[g].todo = job[g].todo /\ job'[g].got = job[g].got

LEMMA Recalmed ==
  ASSUME NEW j, IsJob(j), NEW c
  PROVE  [j EXCEPT !.calm = c] = [pc |-> j.pc, op |-> j.op, name |-> j.name, todo |-> j.todo,
                                  got |-> j.got, calm |-> c]
<1>1. PICK r : r = [j EXCEPT !.calm = c]
  OBVIOUS
<1>2. r = [pc |-> j.pc, op |-> j.op, name |-> j.name, todo |-> j.todo, got |-> j.got, calm |-> c]
  BY <1>1 DEF IsJob
<1>3. QED
  BY <1>1, <1>2

LEMMA GoesOn ==
  ASSUME Jobs, NEW h \in Handlers, NEW r, IsJob(r), Goes(h, r)
  PROVE  /\ Jobs' /\ job'[h] = r
         /\ \A g \in Handlers : g # h => Disturbed(g)
<1>1. /\ job'[h] = r /\ job' = [g \in Handlers |-> job'[g]]
      /\ \A g \in Handlers : g # h => job'[g] = [job[g] EXCEPT !.calm = FALSE]
  BY DEF Goes
<1>2. ASSUME NEW g \in Handlers, g # h
      PROVE  Disturbed(g) /\ IsJob(job'[g])
  <2>1. PICK j : j = job[g]
    OBVIOUS
  <2>2. IsJob(j)
    BY <2>1 DEF Jobs
  <2>3. [j EXCEPT !.calm = FALSE] = [pc |-> j.pc, op |-> j.op, name |-> j.name, todo |-> j.todo,
                                     got |-> j.got, calm |-> FALSE]
    BY <2>2, Recalmed
  <2>4. QED
    BY <1>1, <1>2, <2>1, <2>3 DEF Disturbed, IsJob
<1>3. IsJob(job'[h])
  BY <1>1
<1>4. Jobs'
  <2>1. \A g \in Handlers : IsJob(job'[g])
    BY <1>2, <1>3
  <2>2. QED
    BY <1>1, <2>1 DEF Jobs, IsJob
<1>5. QED
  BY <1>1, <1>2, <1>4

LEMMA GoesToOn ==
  ASSUME Jobs, NEW h \in Handlers, NEW pc, GoesTo(h, pc)
  PROVE  /\ Jobs'
         /\ job'[h].pc = pc /\ job'[h].op = job[h].op /\ job'[h].name = job[h].name
         /\ job'[h].todo = job[h].todo /\ job'[h].got = job[h].got /\ job'[h].calm = job[h].calm
         /\ \A g \in Handlers : g # h => Disturbed(g)
<1>1. PICK j : j = job[h]
  OBVIOUS
<1>2. IsJob(j)
  BY <1>1 DEF Jobs
<1>3. PICK r : r = [j EXCEPT !.pc = pc]
  OBVIOUS
<1>4. r = [pc |-> pc, op |-> j.op, name |-> j.name, todo |-> j.todo, got |-> j.got, calm |-> j.calm]
  BY <1>2, <1>3 DEF IsJob
<1>5. IsJob(r)
  BY <1>2, <1>4 DEF IsJob
<1>6. Goes(h, r)
  BY <1>1, <1>3 DEF GoesTo
<1>7. Jobs' /\ job'[h] = r /\ \A g \in Handlers : g # h => Disturbed(g)
  BY <1>5, <1>6, GoesOn
<1>8. QED
  BY <1>1, <1>4, <1>7

LEMMA DisturbsAll ==
  ASSUME Jobs, Disturb
  PROVE  Jobs' /\ \A g \in Handlers : Disturbed(g)
<1>1. /\ job' = [g \in Handlers |-> job'[g]]
      /\ \A g \in Handlers : job'[g] = [job[g] EXCEPT !.calm = FALSE]
  BY DEF Disturb
<1>2. ASSUME NEW g \in Handlers
      PROVE  Disturbed(g) /\ IsJob(job'[g])
  <2>1. PICK j : j = job[g]
    OBVIOUS
  <2>2. IsJob(j)
    BY <2>1 DEF Jobs
  <2>3. [j EXCEPT !.calm = FALSE] = [pc |-> j.pc, op |-> j.op, name |-> j.name, todo |-> j.todo,
                                     got |-> j.got, calm |-> FALSE]
    BY <2>2, Recalmed
  <2>4. QED
    BY <1>1, <2>1, <2>3 DEF Disturbed, IsJob
<1>3. QED
  BY <1>1, <1>2 DEF Jobs, IsJob

\* What the job of h becomes, every other one disturbed.
Becomes(h, pc, op, name, todo, got, calm) ==
  /\ Jobs'
  /\ job'[h].pc = pc /\ job'[h].op = op /\ job'[h].name = name
  /\ job'[h].todo = todo /\ job'[h].got = got /\ job'[h].calm = calm
  /\ \A g \in Handlers : g # h => Disturbed(g)

LEMMA GoesOnAs ==
  ASSUME Jobs, NEW h \in Handlers, NEW pc, NEW op, NEW name, NEW todo, NEW got, NEW calm \in BOOLEAN,
         NEW r, Goes(h, r),
         r = [pc |-> pc, op |-> op, name |-> name, todo |-> todo, got |-> got, calm |-> calm]
  PROVE  Becomes(h, pc, op, name, todo, got, calm)
<1>1. IsJob(r)
  BY DEF IsJob
<1>2. Jobs' /\ job'[h] = r /\ \A g \in Handlers : g # h => Disturbed(g)
  BY <1>1, GoesOn
<1>3. QED
  BY <1>2 DEF Becomes

LEMMA BeginEffect ==
  ASSUME Jobs, NEW h \in Handlers, NEW op, NEW s, Begin(h, op, s)
  PROVE  Becomes(h, op, op, s, IF op = "sync" THEN Sources ELSE {}, None, TRUE)
<1>1. PICK j : j = job[h]
  OBVIOUS
<1>2. IsJob(j)
  BY <1>1 DEF Jobs
<1>3. PICK r : r = [Idle EXCEPT !.pc = op, !.op = op, !.name = s, !.calm = TRUE,
                           !.todo = IF op = "sync" THEN Sources ELSE {}]
  OBVIOUS
<1>4. r = [pc |-> op, op |-> op, name |-> s, todo |-> IF op = "sync" THEN Sources ELSE {},
           got |-> None, calm |-> TRUE]
  BY <1>2, <1>3 DEF IsJob, Idle
<1>5. Goes(h, r)
  BY <1>1, <1>3 DEF Begin
<1>6. j.calm \in BOOLEAN
  BY <1>2 DEF IsJob
<1>7. QED
  BY <1>1, <1>4, <1>5, <1>6, GoesOnAs

LEMMA SyncRecordEffect ==
  ASSUME Jobs, NEW h \in Handlers, SyncRecord(h)
  PROVE  Becomes(h, job[h].pc, job[h].op, None, job[h].todo, None, job[h].calm)
<1>1. PICK j : j = job[h]
  OBVIOUS
<1>2. IsJob(j)
  BY <1>1 DEF Jobs
<1>3. PICK r : r = [j EXCEPT !.got = None, !.name = None]
  OBVIOUS
<1>4. r = [pc |-> j.pc, op |-> j.op, name |-> None, todo |-> j.todo,
           got |-> None, calm |-> j.calm]
  BY <1>2, <1>3 DEF IsJob, Idle
<1>5. Goes(h, r)
  BY <1>1, <1>3 DEF SyncRecord
<1>6. j.calm \in BOOLEAN
  BY <1>2 DEF IsJob
<1>7. QED
  BY <1>1, <1>4, <1>5, <1>6, GoesOnAs

LEMMA ReloadsEffect ==
  ASSUME Jobs, NEW h \in Handlers, Reloads(h)
  PROVE  Becomes(h, "drop", "reload", None, job[h].todo, None, job[h].calm)
<1>1. PICK j : j = job[h]
  OBVIOUS
<1>2. IsJob(j)
  BY <1>1 DEF Jobs
<1>3. PICK r : r = [j EXCEPT !.pc = "drop", !.op = "reload", !.name = None, !.got = None]
  OBVIOUS
<1>4. r = [pc |-> "drop", op |-> "reload", name |-> None, todo |-> j.todo,
           got |-> None, calm |-> j.calm]
  BY <1>2, <1>3 DEF IsJob, Idle
<1>5. Goes(h, r)
  BY <1>1, <1>3 DEF Reloads
<1>6. j.calm \in BOOLEAN
  BY <1>2 DEF IsJob
<1>7. QED
  BY <1>1, <1>4, <1>5, <1>6, GoesOnAs

LEMMA UnlinkEffect ==
  ASSUME Jobs, NEW h \in Handlers, Unlink(h)
  PROVE  Becomes(h, "rmtree", job[h].op, job[h].name, job[h].todo, clear_check_source_sync(job[h].name), job[h].calm)
<1>1. PICK j : j = job[h]
  OBVIOUS
<1>2. IsJob(j)
  BY <1>1 DEF Jobs
<1>3. PICK r : r = [j EXCEPT !.pc = "rmtree", !.got = clear_check_source_sync(j.name)]
  OBVIOUS
<1>4. r = [pc |-> "rmtree", op |-> j.op, name |-> j.name, todo |-> j.todo,
           got |-> clear_check_source_sync(j.name), calm |-> j.calm]
  BY <1>2, <1>3 DEF IsJob, Idle
<1>5. Goes(h, r)
  BY <1>1, <1>3 DEF Unlink
<1>6. j.calm \in BOOLEAN
  BY <1>2 DEF IsJob
<1>7. QED
  BY <1>1, <1>4, <1>5, <1>6, GoesOnAs

LEMMA ListModulesEffect ==
  ASSUME Jobs, NEW h \in Handlers, ListModules(h)
  PROVE  Becomes(h, "purge", job[h].op, job[h].name, modules, job[h].got, job[h].calm)
<1>1. PICK j : j = job[h]
  OBVIOUS
<1>2. IsJob(j)
  BY <1>1 DEF Jobs
<1>3. PICK r : r = [j EXCEPT !.pc = "purge", !.todo = modules]
  OBVIOUS
<1>4. r = [pc |-> "purge", op |-> j.op, name |-> j.name, todo |-> modules,
           got |-> j.got, calm |-> j.calm]
  BY <1>2, <1>3 DEF IsJob, Idle
<1>5. Goes(h, r)
  BY <1>1, <1>3 DEF ListModules
<1>6. j.calm \in BOOLEAN
  BY <1>2 DEF IsJob
<1>7. QED
  BY <1>1, <1>4, <1>5, <1>6, GoesOnAs

LEMMA SetPathsEffect ==
  ASSUME Jobs, NEW h \in Handlers, SetPaths(h)
  PROVE  Becomes(h, "import", job[h].op, job[h].name, {i \in Ids : AutoIn(source_paths, i) # {}}, job[h].got, job[h].calm)
<1>1. PICK j : j = job[h]
  OBVIOUS
<1>2. IsJob(j)
  BY <1>1 DEF Jobs
<1>3. PICK r : r = [j EXCEPT !.pc = "import", !.todo = {i \in Ids : AutoIn(source_paths, i) # {}}]
  OBVIOUS
<1>4. r = [pc |-> "import", op |-> j.op, name |-> j.name, todo |-> {i \in Ids : AutoIn(source_paths, i) # {}},
           got |-> j.got, calm |-> j.calm]
  BY <1>2, <1>3 DEF IsJob, Idle
<1>5. Goes(h, r)
  BY <1>1, <1>3 DEF SetPaths
<1>6. j.calm \in BOOLEAN
  BY <1>2 DEF IsJob
<1>7. QED
  BY <1>1, <1>4, <1>5, <1>6, GoesOnAs

LEMMA MdSaveEffect ==
  ASSUME Jobs, NEW h \in Handlers, NEW i \in Ids, MdSave(h, i)
  PROVE  Becomes(h, "drop", "save", None, {}, None, TRUE)
<1>1. PICK j : j = job[h]
  OBVIOUS
<1>2. IsJob(j)
  BY <1>1 DEF Jobs
<1>3. PICK r : r = [Idle EXCEPT !.pc = "drop", !.op = "save", !.calm = TRUE]
  OBVIOUS
<1>4. r = [pc |-> "drop", op |-> "save", name |-> None, todo |-> {},
           got |-> None, calm |-> TRUE]
  BY <1>2, <1>3 DEF IsJob, Idle
<1>5. Goes(h, r)
  BY <1>1, <1>3 DEF MdSave
<1>6. j.calm \in BOOLEAN
  BY <1>2 DEF IsJob
<1>7. QED
  BY <1>1, <1>4, <1>5, <1>6, GoesOnAs

LEMMA GoesToEffect ==
  ASSUME Jobs, NEW h \in Handlers, NEW pc, GoesTo(h, pc)
  PROVE  Becomes(h, pc, job[h].op, job[h].name, job[h].todo, job[h].got, job[h].calm)
<1>1. PICK j : j = job[h]
  OBVIOUS
<1>2. IsJob(j)
  BY <1>1 DEF Jobs
<1>3. PICK r : r = [j EXCEPT !.pc = pc]
  OBVIOUS
<1>4. r = [pc |-> pc, op |-> j.op, name |-> j.name, todo |-> j.todo,
           got |-> j.got, calm |-> j.calm]
  BY <1>2, <1>3 DEF IsJob, Idle
<1>5. Goes(h, r)
  BY <1>1, <1>3 DEF GoesTo
<1>6. j.calm \in BOOLEAN
  BY <1>2 DEF IsJob
<1>7. QED
  BY <1>1, <1>4, <1>5, <1>6, GoesOnAs

LEMMA IdleEffect ==
  ASSUME Jobs, NEW h \in Handlers, Goes(h, Idle)
  PROVE  Becomes(h, "idle", "none", None, {}, None, FALSE)
<1>1. PICK j : j = job[h]
  OBVIOUS
<1>2. IsJob(j)
  BY <1>1 DEF Jobs
<1>3. PICK r : r = Idle
  OBVIOUS
<1>4. r = [pc |-> "idle", op |-> "none", name |-> None, todo |-> {},
           got |-> None, calm |-> FALSE]
  BY <1>2, <1>3 DEF IsJob, Idle
<1>5. Goes(h, r)
  BY <1>1, <1>3
<1>6. j.calm \in BOOLEAN
  BY <1>2 DEF IsJob
<1>7. QED
  BY <1>1, <1>4, <1>5, <1>6, GoesOnAs

LEMMA FetchEffect ==
  ASSUME Jobs, NEW h \in Handlers, NEW s, NEW x, NEW ok, NEW co, Goes(h, [job[h] EXCEPT !.name = s, !.todo = @ \ {x},
                                      !.got = [ok |-> ok, checkout |-> co]])
  PROVE  Becomes(h, job[h].pc, job[h].op, s, job[h].todo \ {x}, [ok |-> ok, checkout |-> co], job[h].calm)
<1>1. PICK j : j = job[h]
  OBVIOUS
<1>2. IsJob(j)
  BY <1>1 DEF Jobs
<1>3. PICK r : r = [j EXCEPT !.name = s, !.todo = @ \ {x},
                                      !.got = [ok |-> ok, checkout |-> co]]
  OBVIOUS
<1>4. r = [pc |-> j.pc, op |-> j.op, name |-> s, todo |-> j.todo \ {x},
           got |-> [ok |-> ok, checkout |-> co], calm |-> j.calm]
  BY <1>2, <1>3 DEF IsJob, Idle
<1>5. Goes(h, r)
  BY <1>1, <1>3
<1>6. j.calm \in BOOLEAN
  BY <1>2 DEF IsJob
<1>7. QED
  BY <1>1, <1>4, <1>5, <1>6, GoesOnAs

LEMMA ImportEffect ==
  ASSUME Jobs, NEW h \in Handlers, NEW i, Goes(h, [job[h] EXCEPT !.todo = @ \ {i}])
  PROVE  Becomes(h, job[h].pc, job[h].op, job[h].name, job[h].todo \ {i}, job[h].got, job[h].calm)
<1>1. PICK j : j = job[h]
  OBVIOUS
<1>2. IsJob(j)
  BY <1>1 DEF Jobs
<1>3. PICK r : r = [j EXCEPT !.todo = @ \ {i}]
  OBVIOUS
<1>4. r = [pc |-> j.pc, op |-> j.op, name |-> j.name, todo |-> j.todo \ {i},
           got |-> j.got, calm |-> j.calm]
  BY <1>2, <1>3 DEF IsJob, Idle
<1>5. Goes(h, r)
  BY <1>1, <1>3
<1>6. j.calm \in BOOLEAN
  BY <1>2 DEF IsJob
<1>7. QED
  BY <1>1, <1>4, <1>5, <1>6, GoesOnAs

LEMMA PurgedEffect ==
  ASSUME Jobs, NEW h \in Handlers, Goes(h, [job[h] EXCEPT !.pc = "paths", !.todo = {}])
  PROVE  Becomes(h, "paths", job[h].op, job[h].name, {}, job[h].got, job[h].calm)
<1>1. PICK j : j = job[h]
  OBVIOUS
<1>2. IsJob(j)
  BY <1>1 DEF Jobs
<1>3. PICK r : r = [j EXCEPT !.pc = "paths", !.todo = {}]
  OBVIOUS
<1>4. r = [pc |-> "paths", op |-> j.op, name |-> j.name, todo |-> {},
           got |-> j.got, calm |-> j.calm]
  BY <1>2, <1>3 DEF IsJob, Idle
<1>5. Goes(h, r)
  BY <1>1, <1>3
<1>6. j.calm \in BOOLEAN
  BY <1>2 DEF IsJob
<1>7. QED
  BY <1>1, <1>4, <1>5, <1>6, GoesOnAs

LEMMA BootSyncEffect ==
  ASSUME Jobs, NEW h \in Handlers, Goes(h, [job[h] EXCEPT !.pc = "sync", !.op = "reboot", !.todo = Sources])
  PROVE  Becomes(h, "sync", "reboot", job[h].name, Sources, job[h].got, job[h].calm)
<1>1. PICK j : j = job[h]
  OBVIOUS
<1>2. IsJob(j)
  BY <1>1 DEF Jobs
<1>3. PICK r : r = [j EXCEPT !.pc = "sync", !.op = "reboot", !.todo = Sources]
  OBVIOUS
<1>4. r = [pc |-> "sync", op |-> "reboot", name |-> j.name, todo |-> Sources,
           got |-> j.got, calm |-> j.calm]
  BY <1>2, <1>3 DEF IsJob, Idle
<1>5. Goes(h, r)
  BY <1>1, <1>3
<1>6. j.calm \in BOOLEAN
  BY <1>2 DEF IsJob
<1>7. QED
  BY <1>1, <1>4, <1>5, <1>6, GoesOnAs

LEMMA LiveEffect ==
  ASSUME Jobs, NEW h \in Handlers, Goes(h, [job[h] EXCEPT !.pc = "live", !.op = IF @ = "boot" THEN "reboot" ELSE @])
  PROVE  Becomes(h, "live", IF job[h].op = "boot" THEN "reboot" ELSE job[h].op, job[h].name, job[h].todo, job[h].got, job[h].calm)
<1>1. PICK j : j = job[h]
  OBVIOUS
<1>2. IsJob(j)
  BY <1>1 DEF Jobs
<1>3. PICK r : r = [j EXCEPT !.pc = "live", !.op = IF @ = "boot" THEN "reboot" ELSE @]
  OBVIOUS
<1>4. r = [pc |-> "live", op |-> IF j.op = "boot" THEN "reboot" ELSE j.op, name |-> j.name, todo |-> j.todo,
           got |-> j.got, calm |-> j.calm]
  BY <1>2, <1>3 DEF IsJob, Idle
<1>5. Goes(h, r)
  BY <1>1, <1>3
<1>6. j.calm \in BOOLEAN
  BY <1>2 DEF IsJob
<1>7. QED
  BY <1>1, <1>4, <1>5, <1>6, GoesOnAs

LEMMA AutoSaveEffect ==
  ASSUME Jobs, NEW h \in Handlers, NEW i, NEW e, Goes(h, [Idle EXCEPT !.pc = "pop", !.op = "edit", !.name = i, !.calm = TRUE, !.got = e])
  PROVE  Becomes(h, "pop", "edit", i, {}, e, TRUE)
<1>1. PICK j : j = job[h]
  OBVIOUS
<1>2. IsJob(j)
  BY <1>1 DEF Jobs
<1>3. PICK r : r = [Idle EXCEPT !.pc = "pop", !.op = "edit", !.name = i, !.calm = TRUE, !.got = e]
  OBVIOUS
<1>4. r = [pc |-> "pop", op |-> "edit", name |-> i, todo |-> {},
           got |-> e, calm |-> TRUE]
  BY <1>2, <1>3 DEF IsJob, Idle
<1>5. Goes(h, r)
  BY <1>1, <1>3
<1>6. j.calm \in BOOLEAN
  BY <1>2 DEF IsJob
<1>7. QED
  BY <1>1, <1>4, <1>5, <1>6, GoesOnAs

LEMMA UndoEffect ==
  ASSUME Jobs, NEW h \in Handlers, Goes(h, [job[h] EXCEPT !.pc = "pop", !.op = "undo"])
  PROVE  Becomes(h, "pop", "undo", job[h].name, job[h].todo, job[h].got, job[h].calm)
<1>1. PICK j : j = job[h]
  OBVIOUS
<1>2. IsJob(j)
  BY <1>1 DEF Jobs
<1>3. PICK r : r = [j EXCEPT !.pc = "pop", !.op = "undo"]
  OBVIOUS
<1>4. r = [pc |-> "pop", op |-> "undo", name |-> j.name, todo |-> j.todo,
           got |-> j.got, calm |-> j.calm]
  BY <1>2, <1>3 DEF IsJob, Idle
<1>5. Goes(h, r)
  BY <1>1, <1>3
<1>6. j.calm \in BOOLEAN
  BY <1>2 DEF IsJob
<1>7. QED
  BY <1>1, <1>4, <1>5, <1>6, GoesOnAs

-----------------------------------------------------------------------------
(* The requirement catalogs *)

EditPcs == {"pop", "exec", "rollback", "edited"}

\* Nobody but h is calm any more, h is not at the end of _reload_requirements, and in an edit
\* only when the step is one of an edit.
Elsewhere(h) ==
  /\ Jobs'
  /\ \A g \in Handlers : g # h => Disturbed(g)
  /\ job'[h].pc \notin {"catalogs", "done"}
  /\ job'[h].pc \in EditPcs => Edit(h)

LEMMA BecomesElsewhere ==
  ASSUME NEW h \in Handlers, NEW pc, NEW op, NEW name, NEW todo, NEW got, NEW calm,
         Becomes(h, pc, op, name, todo, got, calm), pc \notin {"catalogs", "done"}, Edit(h) \/ pc \notin EditPcs
  PROVE  Elsewhere(h)
BY DEF Becomes, Elsewhere

LEMMA IdleIsJob ==
  IsJob(Idle) /\ Idle.calm = FALSE
BY DEF IsJob, Idle

\* Each way to go on that is not one of GoesTo.
LEMMA EffectsElsewhere ==
  ASSUME Jobs, NEW h \in Handlers
  PROVE  /\ Goes(h, Idle) => Elsewhere(h)
         /\ Goes(h, [job[h] EXCEPT !.pc = "paths", !.todo = {}]) => Elsewhere(h)
         /\ Goes(h, [job[h] EXCEPT !.pc = "sync", !.op = "reboot", !.todo = Sources]) => Elsewhere(h)
         /\ Goes(h, [job[h] EXCEPT !.pc = "live", !.op = IF @ = "boot" THEN "reboot" ELSE @]) => Elsewhere(h)
         /\ Goes(h, [job[h] EXCEPT !.pc = "pop", !.op = "undo"]) /\ Edit(h) => Elsewhere(h)
<1>1. ASSUME Goes(h, Idle)
      PROVE  Elsewhere(h)
  BY <1>1, IdleEffect DEF Becomes, Elsewhere, EditPcs
<1>2. ASSUME Goes(h, [job[h] EXCEPT !.pc = "paths", !.todo = {}])
      PROVE  Elsewhere(h)
  BY <1>2, PurgedEffect DEF Becomes, Elsewhere, EditPcs
<1>3. ASSUME Goes(h, [job[h] EXCEPT !.pc = "sync", !.op = "reboot", !.todo = Sources])
      PROVE  Elsewhere(h)
  BY <1>3, BootSyncEffect DEF Becomes, Elsewhere, EditPcs
<1>4. ASSUME Goes(h, [job[h] EXCEPT !.pc = "live", !.op = IF @ = "boot" THEN "reboot" ELSE @])
      PROVE  Elsewhere(h)
  BY <1>4, LiveEffect DEF Becomes, Elsewhere, EditPcs
<1>5. ASSUME Goes(h, [job[h] EXCEPT !.pc = "pop", !.op = "undo"]), Edit(h)
      PROVE  Elsewhere(h)
  BY <1>5, UndoEffect DEF Becomes, Elsewhere, EditPcs
<1>6. QED
  BY <1>1, <1>2, <1>3, <1>4, <1>5

LEMMA BeginElsewhere ==
  ASSUME Jobs, NEW h \in Handlers, NEW op, NEW s, Begin(h, op, s), op \notin {"catalogs", "done"},
         op \notin EditPcs
  PROVE  Elsewhere(h)
<1>1. Becomes(h, op, op, s, IF op = "sync" THEN Sources ELSE {}, None, TRUE)
  BY BeginEffect
<1>2. QED
  BY <1>1 DEF Becomes, Elsewhere, EditPcs

LEMMA SyncElsewhere ==
  ASSUME Jobs, NEW h \in Handlers, Sync(h)
  PROVE  Elsewhere(h)
<1>1. CASE Begin(h, "sync", None)
  BY <1>1, BeginElsewhere DEF EditPcs
<1>2. CASE SyncRecord(h)
  <2>1. job[h].pc = "sync"
    BY <1>2 DEF SyncRecord, At
  <2>2. QED
    BY <1>2, <2>1, SyncRecordEffect, BecomesElsewhere DEF EditPcs
<1>3. CASE SyncDone(h)
  <2>1. GoesTo(h, "paths") \/ Reloads(h)
    BY <1>3 DEF SyncDone
  <2>2. QED
    BY <2>1, GoesToEffect, ReloadsEffect, BecomesElsewhere DEF EditPcs
<1>4. ASSUME NEW src \in job[h].todo, SyncFetch(h, src)
      PROVE  Elsewhere(h)
  <2>1. job[h].pc = "sync"
    BY <1>4 DEF SyncFetch, At
  <2>2. PICK ok, co : Goes(h, [job[h] EXCEPT !.name = src.name, !.todo = @ \ {src},
                                             !.got = [ok |-> ok, checkout |-> co]])
    BY <1>4 DEF SyncFetch
  <2>3. Becomes(h, job[h].pc, job[h].op, src.name, job[h].todo \ {src},
                [ok |-> ok, checkout |-> co], job[h].calm)
    BY <2>2, FetchEffect
  <2>4. QED
    BY <2>1, <2>3, BecomesElsewhere DEF EditPcs
<1>5. QED
  BY <1>1, <1>2, <1>3, <1>4 DEF Sync

LEMMA ForgetElsewhere ==
  ASSUME Jobs, NEW h \in Handlers, Forget(h)
  PROVE  Elsewhere(h)
<1>1. ASSUME NEW s \in Names, Begin(h, "unsync", s) \/ Begin(h, "delete", s)
      PROVE  Elsewhere(h)
  BY <1>1, BeginElsewhere DEF EditPcs
<1>2. CASE Unlink(h)
  BY <1>2, UnlinkEffect, BecomesElsewhere DEF EditPcs
<1>3. CASE Rmtree(h)
  <2>1. GoesTo(h, "forget") \/ Reloads(h)
    BY <1>3 DEF Rmtree
  <2>2. QED
    BY <2>1, GoesToEffect, ReloadsEffect, BecomesElsewhere DEF EditPcs
<1>4. CASE DeleteRow(h)
  <2>1. Reloads(h)
    BY <1>4 DEF DeleteRow
  <2>2. QED
    BY <2>1, ReloadsEffect, BecomesElsewhere DEF EditPcs
<1>5. QED
  BY <1>1, <1>2, <1>3, <1>4 DEF Forget

LEMMA ReloadElsewhere ==
  ASSUME Jobs, NEW h \in Handlers, Reload(h)
  PROVE  Elsewhere(h)
<1>1. CASE DropAuto(h)
  <2>1. GoesTo(h, "list")
    BY <1>1 DEF DropAuto
  <2>2. QED
    BY <2>1, GoesToEffect, BecomesElsewhere DEF EditPcs
<1>2. CASE ListModules(h)
  BY <1>2, ListModulesEffect, BecomesElsewhere DEF EditPcs
<1>3. CASE Purge(h)
  <2>1. Goes(h, [job[h] EXCEPT !.pc = "paths", !.todo = {}]) \/ Goes(h, Idle)
    BY <1>3 DEF Purge, Fails
  <2>2. QED
    BY <2>1, EffectsElsewhere
<1>4. CASE SetPaths(h)
  BY <1>4, SetPathsEffect DEF Becomes, Elsewhere, EditPcs
<1>5. CASE DiscoverMd(h)
  <2>1. GoesTo(h, "loaded")
    BY <1>5 DEF DiscoverMd
  <2>2. QED
    BY <2>1, GoesToEffect, BecomesElsewhere DEF EditPcs
<1>6. CASE AfterLoad(h)
  <2>1. \/ Goes(h, Idle)
        \/ Goes(h, [job[h] EXCEPT !.pc = "sync", !.op = "reboot", !.todo = Sources])
        \/ Goes(h, [job[h] EXCEPT !.pc = "live", !.op = IF @ = "boot" THEN "reboot" ELSE @])
    BY <1>6 DEF AfterLoad
  <2>2. QED
    BY <2>1, EffectsElsewhere
<1>7. ASSUME NEW i \in Ids, ImportOne(h, i)
      PROVE  Elsewhere(h)
  <2>1. job[h].pc = "import"
    BY <1>7 DEF ImportOne, At
  <2>2. Goes(h, [job[h] EXCEPT !.todo = @ \ {i}]) \/ Goes(h, Idle)
    BY <1>7 DEF ImportOne, Fails
  <2>3. CASE Goes(h, [job[h] EXCEPT !.todo = @ \ {i}])
    BY <2>1, <2>3, ImportEffect DEF Becomes, Elsewhere, EditPcs
  <2>4. QED
    BY <2>2, <2>3, EffectsElsewhere
<1>8. QED
  BY <1>1, <1>2, <1>3, <1>4, <1>5, <1>6, <1>7 DEF Reload

LEMMA EditElsewhere ==
  ASSUME Jobs, NEW h \in Handlers, Edit(h)
  PROVE  Elsewhere(h)
<1>1. ASSUME NEW i \in Ids, MdSave(h, i)
      PROVE  Elsewhere(h)
  BY <1>1, MdSaveEffect DEF Becomes, Elsewhere, EditPcs
<1>2. ASSUME NEW i \in Ids, NEW d \in syspath, AutoSave(h, i, d)
      PROVE  Elsewhere(h)
  <2>1. PICK e : Goes(h, [Idle EXCEPT !.pc = "pop", !.op = "edit", !.name = i, !.calm = TRUE, !.got = e])
    BY <1>2 DEF AutoSave
  <2>2. QED
    BY <2>1, AutoSaveEffect DEF Becomes, Elsewhere, EditPcs
<1>3. CASE Pop(h)
  <2>1. GoesTo(h, "exec")
    BY <1>3 DEF Pop
  <2>2. QED
    BY <2>1, GoesToEffect, BecomesElsewhere DEF EditPcs
<1>4. CASE Exec(h)
  <2>1. GoesTo(h, "edited") \/ GoesTo(h, "rollback")
    BY <1>4 DEF Exec
  <2>2. QED
    BY <2>1, GoesToEffect, BecomesElsewhere DEF EditPcs
<1>5. CASE Rollback(h)
  <2>1. GoesTo(h, "edited") \/ Goes(h, [job[h] EXCEPT !.pc = "pop", !.op = "undo"])
    BY <1>5 DEF Rollback
  <2>2. QED
    <3>1. CASE GoesTo(h, "edited")
      BY <3>1, GoesToEffect, BecomesElsewhere DEF EditPcs
    <3>2. QED
      BY <2>1, <3>1, EffectsElsewhere
<1>6. CASE Edited(h)
  <2>1. Goes(h, Idle)
    BY <1>6 DEF Edited
  <2>2. QED
    BY <2>1, EffectsElsewhere
<1>7. QED
  BY <1>1, <1>2, <1>3, <1>4, <1>5, <1>6 DEF Edit

\* Whatever else happens leaves nobody calm but a server that has just begun to start.
LEMMA WorldCalm ==
  ASSUME Jobs, World
  PROVE  Jobs' /\ \A h \in Handlers : job'[h].calm => job'[h].pc = "paths" /\ job'[h].op = "boot"
<1>1. CASE Disturb
  BY <1>1, DisturbsAll DEF Disturbed
<1>2. ASSUME NEW h \in Handlers, Restart(h)
      PROVE  Jobs' /\ \A g \in Handlers : job'[g].calm => job'[g].pc = "paths" /\ job'[g].op = "boot"
  <2>1. /\ job' = [g \in Handlers |-> job'[g]]
        /\ \A g \in Handlers : job'[g] = IF g = h THEN [Idle EXCEPT !.pc = "paths", !.op = "boot", !.calm = TRUE]
                                         ELSE Idle
    BY <1>2 DEF Restart
  <2>2. PICK r : r = [Idle EXCEPT !.pc = "paths", !.op = "boot", !.calm = TRUE]
    OBVIOUS
  <2>3. r = [pc |-> "paths", op |-> "boot", name |-> None, todo |-> {}, got |-> None, calm |-> TRUE]
    BY <2>2 DEF Idle
  <2>4. IsJob(r) /\ r.pc = "paths" /\ r.op = "boot"
    BY <2>3 DEF IsJob
  <2>5. PICK q : q = Idle
    OBVIOUS
  <2>6. IsJob(q) /\ q.calm = FALSE
    BY <2>5, IdleIsJob
  <2>7. \A g \in Handlers : job'[g] = r \/ job'[g] = q
    BY <2>1, <2>2, <2>5
  <2>8. \A g \in Handlers : IsJob(job'[g])
    BY <2>4, <2>6, <2>7
  <2>9. Jobs'
    BY <2>1, <2>8 DEF Jobs, IsJob
  <2>10. QED
    BY <2>4, <2>6, <2>7, <2>9
<1>3. QED
  BY <1>1, <1>2 DEF World, Work, UpsertSource, EditCatalog, OtherSave

LEMMA SourcesStay ==
  ASSUME UNCHANGED <<row, files, store_tx>>
  PROVE  /\ source_paths' = source_paths
         /\ Live(source_paths)' = Live(source_paths)
         /\ \A f : CatalogIn(source_paths, f)' = CatalogIn(source_paths, f)
<1>1. row' = row /\ origin' = origin /\ clone' = clone /\ store_tx' = store_tx
  BY DEF files
<1>2. QED
  BY <1>1 DEF source_paths, Provided, Dir, VersionIn, Live, CatalogIn

\* What _reload_requirements has done for h when nobody disturbed it.
CatalogsInv ==
  /\ Jobs
  /\ \A h \in Handlers : At(h, "catalogs") /\ job[h].calm =>
       \A f \in Frameworks \ Live(source_paths) : catalog[f] = None
  /\ CatalogsAreLive

LEMMA ElsewhereKeeps ==
  ASSUME CatalogsInv, NEW h \in Handlers, Elsewhere(h)
  PROVE  CatalogsInv'
<1>1. Jobs'
  BY DEF Elsewhere
<1>2. ASSUME NEW g \in Handlers, job'[g].calm
      PROVE  job'[g].pc \notin {"catalogs", "done"}
  <2>1. CASE g = h
    BY <2>1 DEF Elsewhere
  <2>2. CASE g # h
    BY <1>2, <2>2 DEF Elsewhere, Disturbed
  <2>3. QED
    BY <2>1, <2>2
<1>3. QED
  BY <1>1, <1>2 DEF CatalogsInv, CatalogsAreLive, At

LEMMA PurgeCatalogsKeeps ==
  ASSUME CatalogsInv, NEW h \in Handlers, PurgeCatalogs(h)
  PROVE  CatalogsInv'
<1>1. Becomes(h, "catalogs", job[h].op, job[h].name, job[h].todo, job[h].got, job[h].calm)
  BY GoesToEffect DEF PurgeCatalogs, CatalogsInv
<1>2. Jobs' /\ job'[h].pc = "catalogs" /\ \A g \in Handlers : job'[g].calm => g = h
  BY <1>1 DEF Becomes, Disturbed
<1>3. ASSUME NEW f \in Frameworks, f \notin Live(source_paths)'
      PROVE  catalog'[f] = None
  <2> DEFINE dead == {e \in Frameworks : catalog[e] # None} \ Live(source_paths)
  <2>1. /\ catalog' = [e \in Frameworks |-> IF e \in dead THEN None ELSE catalog[e]]
        /\ store_tx' = (store_tx /\ dead = {})
        /\ UNCHANGED <<row, files>>
    BY DEF PurgeCatalogs
  <2>2. CASE store_tx /\ dead # {}
    <3>1. Live(source_paths) = {}
      BY <2>2 DEF source_paths, Live, CatalogIn
    <3>2. QED
      BY <2>1, <3>1
  <2>3. CASE ~(store_tx /\ dead # {})
    <3>1. store_tx' <=> store_tx
      BY <2>1, <2>3
    <3>2. source_paths' = source_paths /\ Live(source_paths)' = Live(source_paths)
      <4>1. row' = row /\ origin' = origin /\ clone' = clone
        BY <2>1 DEF files
      <4>2. QED
        BY <3>1, <4>1 DEF source_paths, Provided, Dir, VersionIn, Live, CatalogIn
    <3>3. QED
      BY <1>3, <2>1, <3>2
  <2>4. QED
    BY <2>2, <2>3
<1>4. QED
  BY <1>2, <1>3 DEF CatalogsInv, CatalogsAreLive, At

LEMMA ImportCatalogsKeeps ==
  ASSUME CatalogsInv, NEW h \in Handlers, ImportCatalogs(h)
  PROVE  CatalogsInv'
<1>1. Becomes(h, "done", job[h].op, job[h].name, job[h].todo, job[h].got, job[h].calm)
  BY GoesToEffect DEF ImportCatalogs, CatalogsInv
<1>2. Jobs' /\ job'[h].pc = "done" /\ job'[h].calm = job[h].calm
      /\ \A g \in Handlers : job'[g].calm => g = h
  BY <1>1 DEF Becomes, Disturbed
<1> DEFINE live == Live(source_paths)
<1>3. PICK new \in [live -> AllVersions] :
        /\ \A f \in live : new[f] \in CatalogIn(source_paths, f)
        /\ catalog' = [f \in Frameworks |-> IF f \in live THEN new[f] ELSE catalog[f]]
  BY DEF ImportCatalogs
<1>4. store_tx' <=> store_tx
  <2>1. store_tx => live = {}
    BY DEF source_paths, Live, CatalogIn
  <2>2. QED
    BY <2>1 DEF ImportCatalogs
<1>5. /\ source_paths' = source_paths
      /\ Live(source_paths)' = live
      /\ \A f : CatalogIn(source_paths, f)' = CatalogIn(source_paths, f)
  <2>1. row' = row /\ origin' = origin /\ clone' = clone
    BY DEF ImportCatalogs, files
  <2>2. QED
    BY <1>4, <2>1 DEF source_paths, Provided, Dir, VersionIn, Live, CatalogIn
<1>6. ASSUME NEW f \in Frameworks, job[h].calm
      PROVE  IF f \in Live(source_paths)' THEN catalog'[f] \in CatalogIn(source_paths, f)'
             ELSE catalog'[f] = None
  <2>1. f \notin live => catalog[f] = None
    BY <1>6 DEF CatalogsInv, ImportCatalogs, At
  <2>2. QED
    BY <1>3, <1>5, <2>1
<1>7. QED
  BY <1>2, <1>6 DEF CatalogsInv, CatalogsAreLive, At

\* Over every step.
LEMMA CatalogsStep ==
  CatalogsInv /\ [Next]_vars => CatalogsInv'
<1> SUFFICES ASSUME CatalogsInv, [Next]_vars
             PROVE  CatalogsInv'
  OBVIOUS
<1>1. Jobs
  BY DEF CatalogsInv
<1>2. ASSUME NEW h \in Handlers, Sync(h) \/ Forget(h) \/ Reload(h) \/ Edit(h)
      PROVE  CatalogsInv'
  BY <1>1, <1>2, SyncElsewhere, ForgetElsewhere, ReloadElsewhere, EditElsewhere, ElsewhereKeeps
<1>3. ASSUME NEW h \in Handlers, Requirements(h)
      PROVE  CatalogsInv'
  <2>1. CASE Reply(h)
    <3>1. Goes(h, Idle)
      BY <2>1 DEF Reply
    <3>2. QED
      BY <1>1, <3>1, EffectsElsewhere, ElsewhereKeeps
  <2>2. QED
    BY <1>3, <2>1, PurgeCatalogsKeeps, ImportCatalogsKeeps DEF Requirements
<1>4. CASE World
  <2>1. Jobs' /\ \A h \in Handlers : job'[h].calm => job'[h].pc = "paths"
    BY <1>1, <1>4, WorldCalm
  <2>2. QED
    BY <2>1 DEF CatalogsInv, CatalogsAreLive, At
<1>5. CASE UNCHANGED vars
  <2>1. UNCHANGED <<row, files, store_tx>> /\ job' = job /\ catalog' = catalog
    BY <1>5 DEF vars
  <2>2. /\ source_paths' = source_paths
        /\ Live(source_paths)' = Live(source_paths)
        /\ \A f : CatalogIn(source_paths, f)' = CatalogIn(source_paths, f)
    BY <2>1, SourcesStay
  <2>3. Jobs'
    BY <2>1 DEF CatalogsInv, Jobs, IsJob
  <2>4. QED
    BY <2>1, <2>2, <2>3 DEF CatalogsInv, CatalogsAreLive, At
<1>6. QED
  BY <1>2, <1>3, <1>4, <1>5 DEF Next

LEMMA JobsInit ==
  Init => Jobs
<1>1. PICK q : q = Idle
  OBVIOUS
<1>2. IsJob(q)
  BY <1>1, IdleIsJob
<1>3. QED
  BY <1>1, <1>2 DEF Init, Jobs

\* The requirement catalogs are those of the live sources when _reload_requirements ends and
\* nobody else did anything meanwhile: what was dead is purged, a commit that clears an open
\* transaction purges everything before it, and the sources it imports from are those it purged by.
THEOREM CatalogsFollowSources == Spec => []CatalogsAreLive
<1>1. Init => CatalogsInv
  <2>1. Init => \A h \in Handlers : job[h].pc = "idle"
    BY DEF Init, Idle
  <2>2. QED
    BY <2>1, JobsInit DEF CatalogsInv, CatalogsAreLive, At
<1>2. CatalogsInv => CatalogsAreLive
  BY DEF CatalogsInv
<1>3. QED
  BY <1>1, <1>2, CatalogsStep, PTL DEF Spec
-----------------------------------------------------------------------------
(* What holds of the jobs, the files and REGISTRY whoever does what *)

Dirs == Names \X {"own", "clone"}

\* An edit of check i in hand.
IsEdit(i, e) ==
  /\ i \in Ids /\ e.dir \in Dirs
  /\ e.old \in AllVersions /\ e.new \in AllVersions
  /\ Automated[e.old] = Automated[e.new] /\ i \in Automated[e.new]

JobOk(pc, op, name, got) ==
  /\ pc \in {"unsync", "delete", "rmtree", "forget"} => op \in {"unsync", "delete"}
  /\ pc = "sync" => op \in {"sync", "reboot"}
  /\ pc \in EditPcs => op \in {"edit", "undo"} /\ IsEdit(name, got)
  /\ op = "boot" => got = None

JobOkAt(h) == JobOk(job[h].pc, job[h].op, job[h].name, job[h].got)

Files ==
  /\ origin \in [Names -> AllVersions \cup {None}]
  /\ clone \in [Names -> AllVersions \cup {None}]
  /\ syspath \subseteq Dirs
  /\ \A d, e \in syspath : d[1] = e[1] => d = e

\* A directory's checks are those of a version of its source.
Belongs ==
  \A s \in Names : \A v \in {origin[s], clone[s]} :
    v # None => \E u \in Versions[s] : Automated[u] = Automated[v]

\* _MD_IDS is the manual tests of REGISTRY.
Registered ==
  /\ REGISTRY = [i \in Ids |-> REGISTRY[i]]
  /\ \A i \in Ids : REGISTRY[i] # None => REGISTRY[i].how \in {"auto", "manual"}
  /\ \A i \in Ids : i \in md_ids <=> REGISTRY[i] # None /\ REGISTRY[i].how = "manual"

Base ==
  /\ Jobs
  /\ \A h \in Handlers : JobOkAt(h)
  /\ Files /\ Belongs /\ Registered

\* What a step of h leaves of the jobs.
OkAfter(h) ==
  /\ Jobs' /\ JobOkAt(h)'
  /\ \A g \in Handlers : g # h => Disturbed(g)

LEMMA JobsOk ==
  ASSUME \A g \in Handlers : JobOkAt(g), NEW h \in Handlers, OkAfter(h)
  PROVE  \A g \in Handlers : JobOkAt(g)'
<1>1. ASSUME NEW g \in Handlers, g # h
      PROVE  JobOkAt(g)'
  BY <1>1 DEF OkAfter, Disturbed, JobOkAt
<1>2. QED
  BY <1>1 DEF OkAfter

LEMMA GoesToOk ==
  ASSUME Jobs, NEW h \in Handlers, NEW pc, GoesTo(h, pc), JobOk(pc, job[h].op, job[h].name, job[h].got)
  PROVE  OkAfter(h)
<1>1. Becomes(h, pc, job[h].op, job[h].name, job[h].todo, job[h].got, job[h].calm)
  BY GoesToEffect
<1>2. QED
  BY <1>1 DEF Becomes, OkAfter, JobOkAt

LEMMA IdleOk ==
  ASSUME Jobs, NEW h \in Handlers, Goes(h, Idle)
  PROVE  OkAfter(h)
<1>1. Becomes(h, "idle", "none", None, {}, None, FALSE)
  BY IdleEffect
<1>2. QED
  BY <1>1 DEF Becomes, OkAfter, JobOkAt, JobOk, EditPcs

LEMMA ReloadsOk ==
  ASSUME Jobs, NEW h \in Handlers, Reloads(h)
  PROVE  OkAfter(h)
<1>1. Becomes(h, "drop", "reload", None, job[h].todo, None, job[h].calm)
  BY ReloadsEffect
<1>2. QED
  BY <1>1 DEF Becomes, OkAfter, JobOkAt, JobOk, EditPcs

LEMMA SyncOk ==
  ASSUME Base, NEW h \in Handlers, Sync(h)
  PROVE  OkAfter(h)
<1>1. Jobs /\ JobOk(job[h].pc, job[h].op, job[h].name, job[h].got)
  BY DEF Base, JobOkAt
<1>2. CASE Begin(h, "sync", None)
  <2>1. Becomes(h, "sync", "sync", None, IF "sync" = "sync" THEN Sources ELSE {}, None, TRUE)
    BY <1>1, <1>2, BeginEffect
  <2>2. QED
    BY <2>1 DEF Becomes, OkAfter, JobOkAt, JobOk, EditPcs
<1>3. CASE SyncRecord(h)
  <2>1. Becomes(h, job[h].pc, job[h].op, None, job[h].todo, None, job[h].calm) /\ job[h].pc = "sync"
    BY <1>1, <1>3, SyncRecordEffect DEF SyncRecord, At
  <2>2. QED
    BY <1>1, <2>1 DEF Becomes, OkAfter, JobOkAt, JobOk, EditPcs
<1>4. CASE SyncDone(h)
  <2>1. /\ job[h].pc = "sync"
        /\ Reloads(h) \/ (GoesTo(h, "paths") /\ job[h].op = "reboot")
    BY <1>4 DEF SyncDone, At
  <2>2. JobOk("paths", job[h].op, job[h].name, job[h].got) \/ Reloads(h)
    BY <1>1, <2>1 DEF JobOk, EditPcs
  <2>3. QED
    BY <1>1, <2>1, <2>2, ReloadsOk, GoesToOk
<1>5. ASSUME NEW src \in job[h].todo, SyncFetch(h, src)
      PROVE  OkAfter(h)
  <2>1. job[h].pc = "sync"
    BY <1>5 DEF SyncFetch, At
  <2>2. PICK ok, co : Goes(h, [job[h] EXCEPT !.name = src.name, !.todo = @ \ {src},
                                             !.got = [ok |-> ok, checkout |-> co]])
    BY <1>5 DEF SyncFetch
  <2>3. Becomes(h, job[h].pc, job[h].op, src.name, job[h].todo \ {src},
                [ok |-> ok, checkout |-> co], job[h].calm)
    BY <1>1, <2>2, FetchEffect
  <2>4. QED
    BY <1>1, <2>1, <2>3 DEF Becomes, OkAfter, JobOkAt, JobOk, EditPcs
<1>6. QED
  BY <1>2, <1>3, <1>4, <1>5 DEF Sync

LEMMA ForgetOk ==
  ASSUME Base, NEW h \in Handlers, Forget(h)
  PROVE  OkAfter(h)
<1>1. Jobs /\ JobOk(job[h].pc, job[h].op, job[h].name, job[h].got)
  BY DEF Base, JobOkAt
<1>2. ASSUME NEW s \in Names, NEW op \in {"unsync", "delete"}, Begin(h, op, s)
      PROVE  OkAfter(h)
  <2>1. Becomes(h, op, op, s, IF op = "sync" THEN Sources ELSE {}, None, TRUE)
    BY <1>1, <1>2, BeginEffect
  <2>2. QED
    BY <1>2, <2>1 DEF Becomes, OkAfter, JobOkAt, JobOk, EditPcs
<1>3. CASE Unlink(h)
  <2>1. /\ Becomes(h, "rmtree", job[h].op, job[h].name, job[h].todo,
                   clear_check_source_sync(job[h].name), job[h].calm)
        /\ job[h].pc \in {"unsync", "delete"}
    BY <1>1, <1>3, UnlinkEffect DEF Unlink, At
  <2>2. QED
    BY <1>1, <2>1 DEF Becomes, OkAfter, JobOkAt, JobOk, EditPcs
<1>4. CASE Rmtree(h)
  <2>1. job[h].pc = "rmtree" /\ (Reloads(h) \/ GoesTo(h, "forget"))
    BY <1>4 DEF Rmtree, At
  <2>2. JobOk("forget", job[h].op, job[h].name, job[h].got)
    BY <1>1, <2>1 DEF JobOk, EditPcs
  <2>3. QED
    BY <1>1, <2>1, <2>2, ReloadsOk, GoesToOk
<1>5. CASE DeleteRow(h)
  BY <1>1, <1>5, ReloadsOk DEF DeleteRow
<1>6. QED
  BY <1>2, <1>3, <1>4, <1>5 DEF Forget

LEMMA ReloadOk ==
  ASSUME Base, NEW h \in Handlers, Reload(h)
  PROVE  OkAfter(h)
<1>1. Jobs /\ JobOk(job[h].pc, job[h].op, job[h].name, job[h].got)
  BY DEF Base, JobOkAt
<1>2. ASSUME NEW pc \in {"list", "purge", "paths", "import", "loaded", "live"}
      PROVE  JobOk(pc, job[h].op, job[h].name, job[h].got)
  BY <1>1, <1>2 DEF JobOk, EditPcs
<1>3. CASE DropAuto(h)
  <2>1. GoesTo(h, "list")
    BY <1>3 DEF DropAuto
  <2>2. QED
    BY <1>1, <1>2, <2>1, GoesToOk
<1>4. CASE ListModules(h)
  <2>1. Becomes(h, "purge", job[h].op, job[h].name, modules, job[h].got, job[h].calm)
    BY <1>1, <1>4, ListModulesEffect
  <2>2. JobOk("purge", job[h].op, job[h].name, job[h].got)
    BY <1>2
  <2>3. QED
    BY <2>1, <2>2 DEF Becomes, OkAfter, JobOkAt
<1>5. CASE Purge(h)
  <2>1. Goes(h, [job[h] EXCEPT !.pc = "paths", !.todo = {}]) \/ Goes(h, Idle)
    BY <1>5 DEF Purge, Fails
  <2>2. CASE Goes(h, [job[h] EXCEPT !.pc = "paths", !.todo = {}])
    <3>1. Becomes(h, "paths", job[h].op, job[h].name, {}, job[h].got, job[h].calm)
      BY <1>1, <2>2, PurgedEffect
    <3>2. JobOk("paths", job[h].op, job[h].name, job[h].got)
      BY <1>2
    <3>3. QED
      BY <3>1, <3>2 DEF Becomes, OkAfter, JobOkAt
  <2>3. QED
    BY <1>1, <2>1, <2>2, IdleOk
<1>6. CASE SetPaths(h)
  <2>1. Becomes(h, "import", job[h].op, job[h].name, {i \in Ids : AutoIn(source_paths, i) # {}},
                job[h].got, job[h].calm)
    BY <1>1, <1>6, SetPathsEffect
  <2>2. JobOk("import", job[h].op, job[h].name, job[h].got)
    BY <1>2
  <2>3. QED
    BY <2>1, <2>2 DEF Becomes, OkAfter, JobOkAt
<1>7. CASE DiscoverMd(h)
  <2>1. GoesTo(h, "loaded")
    BY <1>7 DEF DiscoverMd
  <2>2. QED
    BY <1>1, <1>2, <2>1, GoesToOk
<1>8. CASE AfterLoad(h)
  <2>1. \/ Goes(h, Idle)
        \/ /\ job[h].op = "boot"
           /\ Goes(h, [job[h] EXCEPT !.pc = "sync", !.op = "reboot", !.todo = Sources])
        \/ Goes(h, [job[h] EXCEPT !.pc = "live", !.op = IF @ = "boot" THEN "reboot" ELSE @])
    BY <1>8 DEF AfterLoad
  <2>2. CASE /\ job[h].op = "boot"
             /\ Goes(h, [job[h] EXCEPT !.pc = "sync", !.op = "reboot", !.todo = Sources])
    <3>1. Becomes(h, "sync", "reboot", job[h].name, Sources, job[h].got, job[h].calm)
      BY <1>1, <2>2, BootSyncEffect
    <3>2. QED
      BY <3>1 DEF Becomes, OkAfter, JobOkAt, JobOk, EditPcs
  <2>3. CASE Goes(h, [job[h] EXCEPT !.pc = "live", !.op = IF @ = "boot" THEN "reboot" ELSE @])
    <3>1. Becomes(h, "live", IF job[h].op = "boot" THEN "reboot" ELSE job[h].op, job[h].name,
                  job[h].todo, job[h].got, job[h].calm)
      BY <1>1, <2>3, LiveEffect
    <3>2. QED
      BY <1>1, <3>1 DEF Becomes, OkAfter, JobOkAt, JobOk, EditPcs
  <2>4. QED
    BY <1>1, <2>1, <2>2, <2>3, IdleOk
<1>9. ASSUME NEW i \in Ids, ImportOne(h, i)
      PROVE  OkAfter(h)
  <2>1. job[h].pc = "import"
    BY <1>9 DEF ImportOne, At
  <2>2. Goes(h, [job[h] EXCEPT !.todo = @ \ {i}]) \/ Goes(h, Idle)
    BY <1>9 DEF ImportOne, Fails
  <2>3. CASE Goes(h, [job[h] EXCEPT !.todo = @ \ {i}])
    <3>1. Becomes(h, job[h].pc, job[h].op, job[h].name, job[h].todo \ {i}, job[h].got, job[h].calm)
      BY <1>1, <2>3, ImportEffect
    <3>2. QED
      BY <1>1, <3>1 DEF Becomes, OkAfter, JobOkAt
  <2>4. QED
    BY <1>1, <2>2, <2>3, IdleOk
<1>10. QED
  BY <1>3, <1>4, <1>5, <1>6, <1>7, <1>8, <1>9 DEF Reload

LEMMA EditOk ==
  ASSUME Base, NEW h \in Handlers, Edit(h)
  PROVE  OkAfter(h)
<1>1. Jobs /\ JobOk(job[h].pc, job[h].op, job[h].name, job[h].got)
  BY DEF Base, JobOkAt
<1>2. ASSUME NEW i \in Ids, MdSave(h, i)
      PROVE  OkAfter(h)
  BY <1>1, <1>2, MdSaveEffect DEF Becomes, OkAfter, JobOkAt, JobOk, EditPcs
<1>3. ASSUME NEW i \in Ids, NEW d \in syspath, AutoSave(h, i, d)
      PROVE  OkAfter(h)
  <2>1. d \in Dirs /\ VersionIn(d) # None /\ i \in Automated[VersionIn(d)]
    <3>1. d \in Dirs
      BY DEF Base, Files
    <3>2. VersionIn(d) # None /\ i \in Automated[VersionIn(d)]
      BY <1>3 DEF AutoSave
    <3>3. QED
      BY <3>1, <3>2
  <2>2. VersionIn(d) \in AllVersions
    BY <2>1 DEF VersionIn, Base, Files, Dirs
  <2>3. PICK w \in Edits(i, VersionIn(d)) :
          Goes(h, [Idle EXCEPT !.pc = "pop", !.op = "edit", !.name = i, !.calm = TRUE,
                               !.got = [dir |-> d, old |-> VersionIn(d), new |-> w]])
    BY <1>3 DEF AutoSave
  <2>4. PICK e : e = [dir |-> d, old |-> VersionIn(d), new |-> w]
    OBVIOUS
  <2>5. IsEdit(i, e)
    <3>1. e.dir = d /\ e.old = VersionIn(d) /\ e.new = w
      BY <2>4
    <3>2. w \in AllVersions /\ Automated[w] = Automated[VersionIn(d)]
      BY <2>3 DEF Edits
    <3>3. QED
      BY <2>1, <2>2, <3>1, <3>2 DEF IsEdit
  <2>6. Becomes(h, "pop", "edit", i, {}, e, TRUE)
    BY <1>1, <2>3, <2>4, AutoSaveEffect
  <2>7. QED
    BY <2>5, <2>6 DEF Becomes, OkAfter, JobOkAt, JobOk, EditPcs
<1>4. CASE Pop(h)
  <2>1. job[h].pc = "pop" /\ GoesTo(h, "exec")
    BY <1>4 DEF Pop, At
  <2>2. JobOk("exec", job[h].op, job[h].name, job[h].got)
    BY <1>1, <2>1 DEF JobOk, EditPcs
  <2>3. QED
    BY <1>1, <2>1, <2>2, GoesToOk
<1>5. CASE Exec(h)
  <2>1. job[h].pc = "exec" /\ (GoesTo(h, "edited") \/ GoesTo(h, "rollback"))
    BY <1>5 DEF Exec, At
  <2>2. /\ JobOk("edited", job[h].op, job[h].name, job[h].got)
        /\ JobOk("rollback", job[h].op, job[h].name, job[h].got)
    BY <1>1, <2>1 DEF JobOk, EditPcs
  <2>3. QED
    BY <1>1, <2>1, <2>2, GoesToOk
<1>6. CASE Rollback(h)
  <2>1. job[h].pc = "rollback" /\ (GoesTo(h, "edited") \/ Goes(h, [job[h] EXCEPT !.pc = "pop", !.op = "undo"]))
    BY <1>6 DEF Rollback, At
  <2>2. CASE GoesTo(h, "edited")
    <3>1. JobOk("edited", job[h].op, job[h].name, job[h].got)
      BY <1>1, <2>1 DEF JobOk, EditPcs
    <3>2. QED
      BY <1>1, <2>2, <3>1, GoesToOk
  <2>3. CASE Goes(h, [job[h] EXCEPT !.pc = "pop", !.op = "undo"])
    <3>1. Becomes(h, "pop", "undo", job[h].name, job[h].todo, job[h].got, job[h].calm)
      BY <1>1, <2>3, UndoEffect
    <3>2. QED
      BY <1>1, <2>1, <3>1 DEF Becomes, OkAfter, JobOkAt, JobOk, EditPcs
  <2>4. QED
    BY <2>1, <2>2, <2>3
<1>7. CASE Edited(h)
  BY <1>1, <1>7, IdleOk DEF Edited
<1>8. QED
  BY <1>2, <1>3, <1>4, <1>5, <1>6, <1>7 DEF Edit

LEMMA RequirementsOk ==
  ASSUME Base, NEW h \in Handlers, Requirements(h)
  PROVE  OkAfter(h)
<1>1. Jobs /\ JobOk(job[h].pc, job[h].op, job[h].name, job[h].got)
  BY DEF Base, JobOkAt
<1>2. GoesTo(h, "catalogs") \/ GoesTo(h, "done") \/ Goes(h, Idle)
  BY DEF Requirements, PurgeCatalogs, ImportCatalogs, Reply
<1>3. /\ JobOk("catalogs", job[h].op, job[h].name, job[h].got)
      /\ JobOk("done", job[h].op, job[h].name, job[h].got)
  BY <1>1 DEF JobOk, EditPcs
<1>4. QED
  BY <1>1, <1>2, <1>3, GoesToOk, IdleOk

\* The entries directories give rise to are entries.
LEMMA EntriesAre ==
  ASSUME Files, NEW D \in SUBSET Dirs, NEW i,
         NEW how \in {"auto", "manual"}, NEW has, NEW e \in Entries(how, has, D, i)
  PROVE  e # None /\ e.how = how
<1>1. PICK d \in D : VersionIn(d) # None /\ e = [how |-> how, src |-> d[1], ver |-> VersionIn(d)]
  BY DEF Entries
<1>2. d[1] \in Names /\ VersionIn(d) \in AllVersions
  BY <1>1 DEF Files, Dirs, VersionIn
<1>3. e \in [how : {"auto", "manual"}, src : Names, ver : AllVersions]
  BY <1>1, <1>2
<1>4. QED
  BY <1>1, <1>3, CheckSourcesAssumption

LEMMA SourceDirs ==
  /\ Provided \subseteq Dirs /\ source_paths \subseteq Dirs
  /\ \A d, e \in Provided : d[1] = e[1] => d = e
  /\ \A d, e \in source_paths : d[1] = e[1] => d = e
<1>1. \A d \in Provided : \E s \in Names : d = Dir(s)
  BY DEF Provided
<1>2. \A s \in Names : Dir(s) \in Dirs /\ Dir(s)[1] = s
  BY DEF Dir, Dirs
<1>3. QED
  BY <1>1, <1>2 DEF source_paths

\* REGISTRY with an automated check entered where there was none.
LEMMA EnterAuto ==
  ASSUME Registered, NEW i \in Ids, NEW e, e # None, e.how = "auto",
         REGISTRY[i] = None, REGISTRY' = [REGISTRY EXCEPT ![i] = e], md_ids' = md_ids
  PROVE  Registered'
<1>1. /\ REGISTRY' = [j \in Ids |-> REGISTRY'[j]] /\ REGISTRY'[i] = e
      /\ \A j \in Ids : j # i => REGISTRY'[j] = REGISTRY[j]
  BY DEF Registered
<1>2. QED
  BY <1>1 DEF Registered

LEMMA RegisteredFrame ==
  ASSUME Registered, UNCHANGED <<REGISTRY, md_ids>>
  PROVE  Registered'
BY DEF Registered

\* REGISTRY with automated checks taken out.
LEMMA LeaveAuto ==
  ASSUME Registered, md_ids' = md_ids, REGISTRY' = [j \in Ids |-> REGISTRY'[j]],
         \A j \in Ids : \/ REGISTRY'[j] = REGISTRY[j]
                        \/ REGISTRY'[j] = None /\ REGISTRY[j] # None /\ REGISTRY[j].how = "auto"
  PROVE  Registered'
BY DEF Registered

LEMMA LeftByRegistered ==
  ASSUME Base, NEW i \in Ids, NEW failing \in SUBSET AutoIn(syspath, i), LeftBy(failing, i),
         md_ids' = md_ids
  PROVE  Registered'
<1>1. CASE UNCHANGED REGISTRY
  BY <1>1, RegisteredFrame DEF Base
<1>2. ASSUME REGISTRY[i] = None, NEW e \in failing, REGISTRY' = [REGISTRY EXCEPT ![i] = e]
      PROVE  Registered'
  <2>1. e # None /\ e.how = "auto"
    BY EntriesAre DEF Base, Files, AutoIn
  <2>2. QED
    BY <1>2, <2>1, EnterAuto DEF Base
<1>3. QED
  BY <1>1, <1>2 DEF LeftBy

LEMMA MdRegistered ==
  ASSUME Base, REGISTRY' = Md(source_paths, md_ids),
         md_ids' = {i \in Ids : ManualIn(source_paths, i) # {}}
  PROVE  Registered'
<1>1. \A i \in Ids : REGISTRY'[i] = IF ManualIn(source_paths, i) # {}
                                       THEN CHOOSE e \in ManualIn(source_paths, i) : TRUE
                                     ELSE IF i \in md_ids THEN None ELSE REGISTRY[i]
  BY DEF Md
<1>2. ASSUME NEW i \in Ids, ManualIn(source_paths, i) # {}
      PROVE  i \in md_ids' /\ REGISTRY'[i] # None /\ REGISTRY'[i].how = "manual"
  <2>1. REGISTRY'[i] \in ManualIn(source_paths, i)
    BY <1>1, <1>2
  <2>2. source_paths \in SUBSET Dirs
    BY SourceDirs
  <2>3. REGISTRY'[i] # None /\ REGISTRY'[i].how = "manual"
    BY <2>1, <2>2, EntriesAre DEF Base, ManualIn
  <2>4. QED
    BY <1>2, <2>3
<1>3. ASSUME NEW i \in Ids, ManualIn(source_paths, i) = {}
      PROVE  /\ i \notin md_ids'
             /\ REGISTRY'[i] = None \/ REGISTRY'[i].how = "auto"
             /\ REGISTRY'[i] # None => REGISTRY'[i].how \in {"auto", "manual"}
  BY <1>1, <1>3 DEF Base, Registered
<1>4. REGISTRY' = [i \in Ids |-> REGISTRY'[i]]
  BY DEF Md
<1>5. QED
  BY <1>2, <1>3, <1>4 DEF Registered

\* A check's file written, in a version with the same checks.
LEMMA WriteKeeps ==
  ASSUME Files, Belongs, NEW d \in Dirs, NEW w \in AllVersions, VersionIn(d) # None,
         Automated[w] = Automated[VersionIn(d)], Write(d, w), syspath' = syspath
  PROVE  Files' /\ Belongs' /\ VersionIn(d)' = w
<1>1. PICK s \in Names, where \in {"own", "clone"} : d = <<s, where>>
  BY DEF Dirs
<1>2. d[1] = s /\ d[2] = where
  BY <1>1
<1>3. CASE where = "own"
  <2>1. origin' = [origin EXCEPT ![s] = w] /\ clone' = clone /\ VersionIn(d) = origin[s]
    BY <1>2, <1>3 DEF Write, VersionIn
  <2>2. QED
    BY <1>2, <1>3, <2>1 DEF Files, Belongs, VersionIn
<1>4. CASE where = "clone"
  <2>1. clone' = [clone EXCEPT ![s] = w] /\ origin' = origin /\ VersionIn(d) = clone[s]
    BY <1>2, <1>4 DEF Write, VersionIn
  <2>2. QED
    BY <1>2, <1>4, <2>1 DEF Files, Belongs, VersionIn
<1>5. QED
  BY <1>3, <1>4

LEMMA FilesFrame ==
  ASSUME Files, Belongs, UNCHANGED files, UNCHANGED syspath \/ syspath' = source_paths \/ syspath' = {}
  PROVE  Files' /\ Belongs'
<1>1. origin' = origin /\ clone' = clone
  BY DEF files
<1>2. syspath' \subseteq Dirs /\ \A d, e \in syspath' : d[1] = e[1] => d = e
  BY SourceDirs DEF Files
<1>3. QED
  BY <1>1, <1>2 DEF Files, Belongs

LEMMA SyncBase ==
  ASSUME Base, NEW h \in Handlers, Sync(h)
  PROVE  Base'
<1>1. Jobs' /\ \A g \in Handlers : JobOkAt(g)'
  <2>1. OkAfter(h)
    BY SyncOk
  <2>2. QED
    BY <2>1, JobsOk DEF Base, OkAfter
<1>2. UNCHANGED <<REGISTRY, md_ids, syspath>>
  BY DEF Sync, Begin, SyncRecord, SyncDone, SyncFetch, loaded
<1>3. Files' /\ Belongs'
  <2>1. CASE UNCHANGED files
    BY <1>2, <2>1, FilesFrame DEF Base
  <2>2. ASSUME NEW s, clone' = [clone EXCEPT ![s] = origin[s]], origin' = origin
        PROVE  Files' /\ Belongs'
    <3>1. /\ clone' \in [Names -> AllVersions \cup {None}]
          /\ \A t \in Names : clone'[t] = origin[t] \/ clone'[t] = clone[t]
      BY <2>2 DEF Base, Files
    <3>2. Files'
      BY <1>2, <2>2, <3>1 DEF Base, Files
    <3>3. ASSUME NEW t \in Names, NEW v \in {origin'[t], clone'[t]}
          PROVE  v \in {origin[t], clone[t]}
      BY <2>2, <3>1
    <3>4. Belongs'
      BY <3>3 DEF Base, Belongs
    <3>5. QED
      BY <3>2, <3>4
  <2>3. ASSUME NEW src \in job[h].todo, SyncFetch(h, src)
        PROVE  \/ UNCHANGED files
               \/ clone' = [clone EXCEPT ![src.name] = origin[src.name]] /\ origin' = origin
    BY <2>3 DEF SyncFetch, files
  <2>4. QED
    BY <2>1, <2>2, <2>3 DEF Sync, Begin, SyncRecord, SyncDone
<1>4. QED
  BY <1>1, <1>2, <1>3, RegisteredFrame DEF Base

LEMMA ForgetBase ==
  ASSUME Base, NEW h \in Handlers, Forget(h)
  PROVE  Base'
<1>1. Jobs' /\ \A g \in Handlers : JobOkAt(g)'
  <2>1. OkAfter(h)
    BY ForgetOk
  <2>2. QED
    BY <2>1, JobsOk DEF Base, OkAfter
<1>2. UNCHANGED <<REGISTRY, md_ids, syspath>>
  BY DEF Forget, Begin, Unlink, Rmtree, DeleteRow, loaded
<1>3. Files' /\ Belongs'
  <2>1. CASE UNCHANGED files
    BY <1>2, <2>1, FilesFrame DEF Base
  <2>2. CASE Rmtree(h)
    <3>1. PICK s : s = job[h].name
      OBVIOUS
    <3>2. /\ clone' = [clone EXCEPT ![s] = None] \/ clone' = clone
          /\ origin' = [origin EXCEPT ![s] = None] \/ origin' = origin
      BY <2>2, <3>1 DEF Rmtree
    <3>3. /\ clone' \in [Names -> AllVersions \cup {None}]
          /\ \A t \in Names : clone'[t] = None \/ clone'[t] = clone[t]
      BY <3>2 DEF Base, Files
    <3>4. /\ origin' \in [Names -> AllVersions \cup {None}]
          /\ \A t \in Names : origin'[t] = None \/ origin'[t] = origin[t]
      BY <3>2 DEF Base, Files
    <3>5. Files'
      BY <1>2, <3>3, <3>4 DEF Base, Files
    <3>6. ASSUME NEW t \in Names, NEW v \in {origin'[t], clone'[t]}, v # None
          PROVE  v \in {origin[t], clone[t]}
      BY <3>3, <3>4, <3>6
    <3>7. Belongs'
      BY <3>6 DEF Base, Belongs
    <3>8. QED
      BY <3>5, <3>7
  <2>3. QED
    BY <2>1, <2>2 DEF Forget, Begin, Unlink, DeleteRow
<1>4. QED
  BY <1>1, <1>2, <1>3, RegisteredFrame DEF Base

LEMMA ReloadBase ==
  ASSUME Base, NEW h \in Handlers, Reload(h)
  PROVE  Base'
<1>1. Jobs' /\ \A g \in Handlers : JobOkAt(g)'
  <2>1. OkAfter(h)
    BY ReloadOk
  <2>2. QED
    BY <2>1, JobsOk DEF Base, OkAfter
<1>2. Files' /\ Belongs'
  <2>1. UNCHANGED files /\ (UNCHANGED syspath \/ syspath' = source_paths)
    BY DEF Reload, DropAuto, ListModules, Purge, SetPaths, ImportOne, DiscoverMd, AfterLoad, loaded
  <2>2. QED
    BY <2>1, FilesFrame DEF Base
<1>3. Registered'
  <2>1. CASE UNCHANGED <<REGISTRY, md_ids>>
    BY <2>1, RegisteredFrame DEF Base
  <2>2. CASE DropAuto(h)
    <3>1. md_ids' = md_ids /\ REGISTRY' = [i \in Ids |-> REGISTRY'[i]]
      BY <2>2 DEF DropAuto
    <3>2. \A i \in Ids : REGISTRY'[i] = IF REGISTRY[i] # None /\ REGISTRY[i].how = "auto"
                                          THEN None ELSE REGISTRY[i]
      BY <2>2 DEF DropAuto
    <3>3. QED
      BY <3>1, <3>2, LeaveAuto DEF Base
  <2>3. CASE DiscoverMd(h)
    BY <2>3, MdRegistered DEF DiscoverMd
  <2>4. ASSUME NEW i \in Ids, ImportOne(h, i)
        PROVE  Registered'
    <3> DEFINE loads == {e \in AutoIn(syspath, i) : i \notin Broken[e.ver]}
    <3>1. md_ids' = md_ids
      BY <2>4 DEF ImportOne
    <3>2. CASE UNCHANGED REGISTRY
      BY <3>1, <3>2, RegisteredFrame DEF Base
    <3>3. CASE LeftBy(AutoIn(syspath, i) \ loads, i)
      BY <3>1, <3>3, LeftByRegistered
    <3>4. ASSUME REGISTRY[i] = None, NEW e \in loads, REGISTRY' = [REGISTRY EXCEPT ![i] = e]
          PROVE  Registered'
      <4>1. e # None /\ e.how = "auto"
        BY EntriesAre DEF Base, Files, AutoIn
      <4>2. QED
        BY <3>1, <3>4, <4>1, EnterAuto DEF Base
    <3>5. QED
      BY <2>4, <3>2, <3>3, <3>4 DEF ImportOne
  <2>5. QED
    BY <2>1, <2>2, <2>3, <2>4 DEF Reload, ListModules, Purge, SetPaths, AfterLoad, loaded
<1>4. QED
  BY <1>1, <1>2, <1>3 DEF Base

LEMMA EditBase ==
  ASSUME Base, NEW h \in Handlers, Edit(h)
  PROVE  Base'
<1>1. Jobs' /\ \A g \in Handlers : JobOkAt(g)'
  <2>1. OkAfter(h)
    BY EditOk
  <2>2. QED
    BY <2>1, JobsOk DEF Base, OkAfter
<1>2. Files' /\ Belongs'
  <2>1. UNCHANGED syspath
    BY DEF Edit, MdSave, AutoSave, Pop, Exec, Rollback, Edited, loaded
  <2>2. CASE UNCHANGED files
    BY <2>1, <2>2, FilesFrame DEF Base
  <2>3. ASSUME NEW i \in Ids, NEW d \in syspath, AutoSave(h, i, d)
        PROVE  Files' /\ Belongs'
    <3>1. d \in Dirs
      BY DEF Base, Files
    <3>2. PICK w \in Edits(i, VersionIn(d)) : Write(d, w) /\ VersionIn(d) # None
      BY <2>3 DEF AutoSave
    <3>3. w \in AllVersions /\ Automated[w] = Automated[VersionIn(d)]
      BY <3>2 DEF Edits
    <3>4. QED
      BY <2>1, <3>1, <3>2, <3>3, WriteKeeps DEF Base
  <2>4. CASE Rollback(h)
    <3> DEFINE i == job[h].name
    <3>1. PICK e : e = job[h].got
      OBVIOUS
    <3>2. IsEdit(i, e)
      BY <2>4, <3>1 DEF Base, JobOkAt, JobOk, EditPcs, Rollback, At
    <3>3. CASE VersionIn(e.dir) # None
      <4>1. PICK w : /\ \/ w = e.old /\ VersionIn(e.dir) = e.new
                        \/ w \in Edits(i, VersionIn(e.dir)) \/ w = VersionIn(e.dir)
                     /\ Write(e.dir, w)
        BY <2>4, <3>1, <3>3 DEF Rollback
      <4>2. VersionIn(e.dir) \in AllVersions
        BY <3>2, <3>3 DEF IsEdit, VersionIn, Base, Files, Dirs
      <4>3. w \in AllVersions /\ Automated[w] = Automated[VersionIn(e.dir)]
        BY <3>2, <4>1, <4>2 DEF IsEdit, Edits
      <4>4. QED
        BY <2>1, <3>2, <3>3, <4>1, <4>3, WriteKeeps DEF Base, IsEdit
    <3>4. QED
      BY <2>2, <2>4, <3>1, <3>3 DEF Rollback
  <2>5. QED
    BY <2>2, <2>3, <2>4 DEF Edit, MdSave, Pop, Exec, Edited
<1>3. Registered'
  <2>1. UNCHANGED md_ids
    BY DEF Edit, MdSave, AutoSave, Pop, Exec, Rollback, Edited, loaded
  <2>2. CASE UNCHANGED REGISTRY
    BY <2>1, <2>2, RegisteredFrame DEF Base
  <2>3. CASE Pop(h)
    <3>1. PICK i : i = job[h].name
      OBVIOUS
    <3>2. CASE REGISTRY[i] # None /\ REGISTRY[i].how = "auto" /\ REGISTRY' = [REGISTRY EXCEPT ![i] = None]
      <4>1. REGISTRY' = [j \in Ids |-> REGISTRY'[j]]
        BY <3>2 DEF Base, Registered
      <4>2. \A j \in Ids : REGISTRY'[j] = IF j = i THEN None ELSE REGISTRY[j]
        BY <3>2 DEF Base, Registered
      <4>3. QED
        BY <2>1, <3>2, <4>1, <4>2, LeaveAuto DEF Base
    <3>3. QED
      BY <2>2, <2>3, <3>1, <3>2 DEF Pop
  <2>4. CASE Exec(h)
    <3>1. PICK i : i = job[h].name
      OBVIOUS
    <3>2. i \in Ids
      BY <2>4, <3>1 DEF Base, JobOkAt, JobOk, EditPcs, Exec, At, IsEdit
    <3> DEFINE loads == {e \in AutoIn(syspath, i) : i \notin Broken[e.ver]}
    <3>3. CASE LeftBy(AutoIn(syspath, i) \ loads, i)
      BY <2>1, <3>2, <3>3, LeftByRegistered
    <3>4. ASSUME REGISTRY[i] = None, NEW e \in loads, REGISTRY' = [REGISTRY EXCEPT ![i] = e]
          PROVE  Registered'
      <4>1. e # None /\ e.how = "auto"
        BY EntriesAre DEF Base, Files, AutoIn
      <4>2. QED
        BY <2>1, <3>2, <3>4, <4>1, EnterAuto DEF Base
    <3>5. QED
      BY <2>4, <3>1, <3>3, <3>4 DEF Exec
  <2>5. QED
    BY <2>2, <2>3, <2>4 DEF Edit, MdSave, AutoSave, Rollback, Edited, loaded
<1>4. QED
  BY <1>1, <1>2, <1>3 DEF Base

LEMMA WorldBase ==
  ASSUME Base, World
  PROVE  Base'
<1>1. CASE Disturb /\ UNCHANGED loaded /\ UNCHANGED files
  <2>1. Jobs' /\ \A g \in Handlers : Disturbed(g)
    BY <1>1, DisturbsAll DEF Base
  <2>2. \A g \in Handlers : JobOkAt(g)'
    BY <2>1 DEF Base, JobOkAt, Disturbed
  <2>3. UNCHANGED <<REGISTRY, md_ids, syspath>>
    BY <1>1 DEF loaded
  <2>4. QED
    BY <1>1, <2>1, <2>2, <2>3, FilesFrame, RegisteredFrame DEF Base
<1>2. ASSUME NEW s \in Names, Work(s)
      PROVE  Base'
  <2>1. Jobs' /\ \A g \in Handlers : Disturbed(g)
    BY <1>2, DisturbsAll DEF Base, Work
  <2>2. \A g \in Handlers : JobOkAt(g)'
    BY <2>1 DEF Base, JobOkAt, Disturbed
  <2>3. UNCHANGED <<REGISTRY, md_ids, syspath, clone>>
    BY <1>2 DEF Work, loaded
  <2>4. PICK v \in Versions[s] : origin' = [origin EXCEPT ![s] = v]
    BY <1>2 DEF Work
  <2>5. v \in AllVersions
    BY DEF AllVersions
  <2>6. Files' /\ Belongs'
    BY <2>3, <2>4, <2>5 DEF Base, Files, Belongs
  <2>7. QED
    BY <2>1, <2>2, <2>3, <2>6, RegisteredFrame DEF Base
<1>3. ASSUME NEW h \in Handlers, Restart(h)
      PROVE  Base'
  <2>1. Jobs'
    BY <1>3, WorldCalm DEF World, Base
  <2>2. PICK q : q = Idle
    OBVIOUS
  <2>3. PICK r : r = [Idle EXCEPT !.pc = "paths", !.op = "boot", !.calm = TRUE]
    OBVIOUS
  <2>4. /\ r.pc = "paths" /\ r.op = "boot" /\ r.name = None /\ r.got = None
        /\ q.pc = "idle" /\ q.op = "none" /\ q.name = None /\ q.got = None
    BY <2>2, <2>3 DEF Idle
  <2>5. \A g \in Handlers : job'[g] = r \/ job'[g] = q
    BY <1>3, <2>2, <2>3 DEF Restart
  <2>6. \A g \in Handlers : JobOkAt(g)'
    BY <2>4, <2>5 DEF JobOkAt, JobOk, EditPcs
  <2>7. Files' /\ Belongs'
    BY <1>3, FilesFrame DEF Base, Restart
  <2>8. REGISTRY' = [i \in Ids |-> None] /\ md_ids' = {}
    BY <1>3 DEF Restart
  <2>9. Registered'
    BY <2>8 DEF Registered
  <2>10. QED
    BY <2>1, <2>6, <2>7, <2>9 DEF Base
<1>4. QED
  BY <1>1, <1>2, <1>3 DEF World, UpsertSource, EditCatalog, OtherSave

LEMMA RequirementsBase ==
  ASSUME Base, NEW h \in Handlers, Requirements(h)
  PROVE  Base'
<1>1. Jobs' /\ \A g \in Handlers : JobOkAt(g)'
  <2>1. OkAfter(h)
    BY RequirementsOk
  <2>2. QED
    BY <2>1, JobsOk DEF Base, OkAfter
<1>2. UNCHANGED files /\ UNCHANGED <<REGISTRY, md_ids, syspath>>
  BY DEF Requirements, PurgeCatalogs, ImportCatalogs, Reply, loaded
<1>3. QED
  BY <1>1, <1>2, FilesFrame, RegisteredFrame DEF Base

LEMMA BaseStep ==
  ASSUME Base, [Next]_vars
  PROVE  Base'
<1>1. CASE UNCHANGED vars
  <2>1. UNCHANGED <<files, loaded, job>>
    BY <1>1 DEF vars
  <2>2. UNCHANGED <<REGISTRY, md_ids, syspath>>
    BY <2>1 DEF loaded
  <2>3. Jobs' /\ \A g \in Handlers : JobOkAt(g)'
    BY <2>1 DEF Base, Jobs, IsJob, JobOkAt
  <2>4. QED
    BY <2>1, <2>2, <2>3, FilesFrame, RegisteredFrame DEF Base
<1>2. QED
  BY <1>1, SyncBase, ForgetBase, ReloadBase, RequirementsBase, EditBase, WorldBase DEF Next

LEMMA BaseInit ==
  Init => Base
<1> SUFFICES ASSUME Init
             PROVE  Base
  OBVIOUS
<1>1. Jobs
  BY JobsInit
<1>2. \A h \in Handlers : JobOkAt(h)
  BY DEF Init, Idle, JobOkAt, JobOk, EditPcs
<1>3. Files
  BY DEF Init, Files
<1>4. Belongs
  <2>1. \A s \in Names : clone[s] = None /\ (origin[s] \in Versions[s] \/ origin[s] = None)
    BY DEF Init
  <2>2. QED
    BY <2>1 DEF Belongs
<1>5. Registered
  <2>1. REGISTRY = [i \in Ids |-> None] /\ md_ids = {}
    BY DEF Init
  <2>2. QED
    BY <2>1 DEF Registered
<1>6. QED
  BY <1>1, <1>2, <1>3, <1>4, <1>5 DEF Base

-----------------------------------------------------------------------------
(* A reload and an edit that nobody disturbs *)

Clean == store_tx => Provided = {}

NoAuto == \A i \in Ids : REGISTRY[i] # None => REGISTRY[i].how # "auto"

\* The automated checks of D are being imported, those in T still to come.
Importing(D, T) ==
  /\ syspath = D
  /\ \A i \in Ids :
       /\ i \in T => i \notin modules /\ AutoIn(D, i) # {}
       /\ AutoIn(D, i) # {} => i \in T \/ i \in modules
       /\ i \in modules => REGISTRY[i] \in AutoIn(D, i)
       /\ REGISTRY[i] # None /\ REGISTRY[i].how = "auto" => i \in modules

Reloading(pc, op, todo, got) ==
  /\ pc = "sync" /\ op = "sync" /\ todo = {} /\ got = None => Clean
  /\ pc \in {"rmtree", "forget"} => ~store_tx
  /\ op = "reload" =>
       /\ pc \in {"drop", "list", "purge", "paths", "import"} => Clean
       /\ pc \in {"list", "purge", "paths"} => NoAuto
       /\ pc = "purge" => todo = modules
       /\ pc = "paths" => modules = {}
       /\ pc = "import" => \A D : D = Provided => Importing(D, todo)
       /\ pc = "loaded" => \A D : D = Provided => AsRead(D)

Settled(i, e) ==
  LET there == IF i \in Broken[e.new] THEN e.old ELSE e.new
  IN  VersionIn(e.dir) = there /\ (i \notin Broken[there] => REGISTRY[i] \in AutoIn({e.dir}, i))

Editing(pc, op, i, e) ==
  /\ pc \in EditPcs => e.dir \in syspath
  /\ pc \in {"pop", "rollback"} => REGISTRY[i] = None \/ REGISTRY[i].how = "auto"
  /\ pc = "exec" => REGISTRY[i] = None
  /\ pc \in {"pop", "exec"} /\ op = "edit" => VersionIn(e.dir) = e.new
  /\ pc \in {"pop", "exec"} /\ op = "undo" => VersionIn(e.dir) = e.old /\ i \in Broken[e.new]
  /\ pc = "rollback" => VersionIn(e.dir) = e.new /\ i \in Broken[e.new]
  /\ pc = "edited" => Settled(i, e)

ReloadCalm(h) == job[h].calm => Reloading(job[h].pc, job[h].op, job[h].todo, job[h].got)

EditCalm(h) == job[h].calm => Editing(job[h].pc, job[h].op, job[h].name, job[h].got)

LEMMA ProvidedStays ==
  ASSUME UNCHANGED row, UNCHANGED files
  PROVE  Provided' = Provided
<1>1. row' = row /\ origin' = origin /\ clone' = clone
  BY DEF files
<1>2. QED
  BY <1>1 DEF Provided, Dir, VersionIn

LEMMA EntriesStay ==
  ASSUME UNCHANGED files
  PROVE  /\ \A d : VersionIn(d)' = VersionIn(d)
         /\ \A D, i : AutoIn(D, i)' = AutoIn(D, i) /\ ManualIn(D, i)' = ManualIn(D, i)
<1>1. origin' = origin /\ clone' = clone
  BY DEF files
<1>2. QED
  BY <1>1 DEF AutoIn, ManualIn, Entries, VersionIn

LEMMA NoSources ==
  Sources = {} => Provided = {}
BY DEF Sources, Provided

LEMMA CleanPaths ==
  Clean => source_paths = Provided
BY DEF Clean, source_paths

\* What a step of h leaves of what nobody disturbed.
LEMMA ReloadsCalm ==
  ASSUME NEW h \in Handlers, OkAfter(h), ReloadCalm(h)'
  PROVE  \A g \in Handlers : ReloadCalm(g)'
<1>1. ASSUME NEW g \in Handlers, g # h
      PROVE  ~job'[g].calm
  BY <1>1 DEF OkAfter, Disturbed
<1>2. QED
  BY <1>1 DEF ReloadCalm

\* A handler at none of the points Reloading speaks of.
LEMMA QuietCalm ==
  ASSUME NEW h \in Handlers,
         \/ job'[h].pc \in {"idle", "unsync", "delete", "live", "catalogs", "done"}
         \/ job'[h].op # "reload" /\ job'[h].pc \notin {"sync", "rmtree", "forget"}
  PROVE  ReloadCalm(h)'
BY DEF ReloadCalm, Reloading

LEMMA SyncReloadCalm ==
  ASSUME Base, NEW h \in Handlers, ReloadCalm(h), Sync(h)
  PROVE  ReloadCalm(h)'
<1>1. Jobs /\ JobOk(job[h].pc, job[h].op, job[h].name, job[h].got)
  BY DEF Base, JobOkAt
<1>2. CASE Begin(h, "sync", None)
  <2>1. Becomes(h, "sync", "sync", None, IF "sync" = "sync" THEN Sources ELSE {}, None, TRUE)
    BY <1>1, <1>2, BeginEffect
  <2>2. job'[h].pc = "sync" /\ job'[h].todo = Sources
    BY <2>1 DEF Becomes
  <2>3. Provided' = Provided
    BY <1>2, ProvidedStays DEF Begin
  <2>4. job'[h].todo = {} => Clean'
    BY <2>2, <2>3, NoSources DEF Clean
  <2>5. QED
    BY <2>2, <2>4 DEF ReloadCalm, Reloading
<1>3. CASE SyncRecord(h)
  <2>1. Becomes(h, job[h].pc, job[h].op, None, job[h].todo, None, job[h].calm) /\ job[h].pc = "sync"
    BY <1>1, <1>3, SyncRecordEffect DEF SyncRecord, At
  <2>2. Clean'
    BY <1>3 DEF SyncRecord, Clean
  <2>3. job'[h].pc = "sync"
    BY <2>1 DEF Becomes
  <2>4. QED
    BY <2>2, <2>3 DEF ReloadCalm, Reloading
<1>4. CASE SyncDone(h)
  <2>1. /\ job[h].pc = "sync" /\ job[h].todo = {} /\ job[h].got = None
        /\ \/ Reloads(h) /\ job[h].op # "reboot"
           \/ GoesTo(h, "paths") /\ job[h].op = "reboot"
        /\ store_tx' = store_tx /\ Provided' = Provided
    BY <1>4, ProvidedStays DEF SyncDone, At
  <2>2. CASE Reloads(h) /\ job[h].op # "reboot"
    <3>1. Becomes(h, "drop", "reload", None, job[h].todo, None, job[h].calm)
      BY <1>1, <2>2, ReloadsEffect
    <3>2. job'[h].pc = "drop" /\ job'[h].calm = job[h].calm
      BY <3>1 DEF Becomes
    <3>3. job[h].op = "sync"
      BY <1>1, <2>1, <2>2 DEF JobOk
    <3>4. job[h].calm => Clean
      BY <2>1, <3>3 DEF ReloadCalm, Reloading
    <3>5. job'[h].calm => Clean'
      BY <2>1, <3>2, <3>4 DEF Clean
    <3>6. QED
      BY <3>2, <3>5 DEF ReloadCalm, Reloading
  <2>3. CASE GoesTo(h, "paths") /\ job[h].op = "reboot"
    <3>1. Becomes(h, "paths", job[h].op, job[h].name, job[h].todo, job[h].got, job[h].calm)
      BY <1>1, <2>3, GoesToEffect
    <3>2. job'[h].pc = "paths" /\ job'[h].op = "reboot"
      BY <2>3, <3>1 DEF Becomes
    <3>3. QED
      BY <3>2, QuietCalm
  <2>4. QED
    BY <2>1, <2>2, <2>3
<1>5. ASSUME NEW src \in job[h].todo, SyncFetch(h, src)
      PROVE  ReloadCalm(h)'
  <2>1. job[h].pc = "sync"
    BY <1>5 DEF SyncFetch, At
  <2>2. PICK ok \in BOOLEAN, co \in {"none", "clone", "own"} :
          Goes(h, [job[h] EXCEPT !.name = src.name, !.todo = @ \ {src},
                                 !.got = [ok |-> ok, checkout |-> co]])
    BY <1>5 DEF SyncFetch
  <2>3. PICK got : got = [ok |-> ok, checkout |-> co]
    OBVIOUS
  <2>4. Becomes(h, job[h].pc, job[h].op, src.name, job[h].todo \ {src}, got, job[h].calm)
    BY <1>1, <2>2, <2>3, FetchEffect
  <2>5. got \in [ok : BOOLEAN, checkout : {"none", "clone", "own"}]
    BY <2>3
  <2>6. got # None
    BY <2>5, CheckSourcesAssumption
  <2>7. job'[h].pc = "sync" /\ job'[h].got # None
    BY <2>1, <2>4, <2>6 DEF Becomes
  <2>8. QED
    BY <2>7 DEF ReloadCalm, Reloading
<1>6. QED
  BY <1>2, <1>3, <1>4, <1>5 DEF Sync

LEMMA ForgetReloadCalm ==
  ASSUME Base, NEW h \in Handlers, ReloadCalm(h), Forget(h)
  PROVE  ReloadCalm(h)'
<1>1. Jobs
  BY DEF Base
<1>2. ASSUME NEW s \in Names, NEW op \in {"unsync", "delete"}, Begin(h, op, s)
      PROVE  ReloadCalm(h)'
  <2>1. Becomes(h, op, op, s, IF op = "sync" THEN Sources ELSE {}, None, TRUE)
    BY <1>1, <1>2, BeginEffect
  <2>2. job'[h].pc = op
    BY <2>1 DEF Becomes
  <2>3. QED
    BY <1>2, <2>2, QuietCalm
<1>3. CASE Unlink(h)
  <2>1. Becomes(h, "rmtree", job[h].op, job[h].name, job[h].todo,
                clear_check_source_sync(job[h].name), job[h].calm)
    BY <1>1, <1>3, UnlinkEffect
  <2>2. job'[h].pc = "rmtree" /\ ~store_tx'
    BY <1>3, <2>1 DEF Becomes, Unlink
  <2>3. QED
    BY <2>2 DEF ReloadCalm, Reloading
<1>4. CASE Rmtree(h)
  <2>1. job[h].pc = "rmtree" /\ (Reloads(h) \/ GoesTo(h, "forget")) /\ store_tx' = store_tx
    BY <1>4 DEF Rmtree, At
  <2>2. \/ Becomes(h, "drop", "reload", None, job[h].todo, None, job[h].calm)
        \/ Becomes(h, "forget", job[h].op, job[h].name, job[h].todo, job[h].got, job[h].calm)
    BY <1>1, <2>1, ReloadsEffect, GoesToEffect
  <2>3. job'[h].pc \in {"drop", "forget"} /\ job'[h].calm = job[h].calm
    BY <2>2 DEF Becomes
  <2>4. job'[h].calm => ~store_tx'
    BY <2>1, <2>3 DEF ReloadCalm, Reloading
  <2>5. QED
    BY <2>3, <2>4 DEF ReloadCalm, Reloading, Clean
<1>5. CASE DeleteRow(h)
  <2>1. Becomes(h, "drop", "reload", None, job[h].todo, None, job[h].calm)
    BY <1>1, <1>5, ReloadsEffect DEF DeleteRow
  <2>2. job'[h].pc = "drop" /\ ~store_tx'
    BY <1>5, <2>1 DEF Becomes, DeleteRow
  <2>3. QED
    BY <2>2 DEF ReloadCalm, Reloading, Clean
<1>6. QED
  BY <1>2, <1>3, <1>4, <1>5 DEF Forget

LEMMA IdleQuiet ==
  ASSUME Jobs, NEW h \in Handlers, Goes(h, Idle)
  PROVE  ReloadCalm(h)'
<1>1. Becomes(h, "idle", "none", None, {}, None, FALSE)
  BY IdleEffect
<1>2. job'[h].pc = "idle"
  BY <1>1 DEF Becomes
<1>3. QED
  BY <1>2, QuietCalm

LEMMA DropCalm ==
  ASSUME Base, NEW h \in Handlers, ReloadCalm(h), DropAuto(h)
  PROVE  ReloadCalm(h)'
<1>1. Becomes(h, "list", job[h].op, job[h].name, job[h].todo, job[h].got, job[h].calm)
  BY GoesToEffect DEF Base, DropAuto
<1>2. /\ job'[h].pc = "list" /\ job'[h].op = job[h].op /\ job'[h].calm = job[h].calm
      /\ job[h].pc = "drop" /\ store_tx' = store_tx /\ Provided' = Provided
  BY <1>1, ProvidedStays DEF Becomes, DropAuto, At
<1>3. NoAuto'
  <2>1. \A i \in Ids : REGISTRY'[i] = IF REGISTRY[i] # None /\ REGISTRY[i].how = "auto"
                                        THEN None ELSE REGISTRY[i]
    BY DEF DropAuto
  <2>2. QED
    BY <2>1 DEF NoAuto
<1>4. job'[h].calm /\ job'[h].op = "reload" => Clean'
  BY <1>2 DEF ReloadCalm, Reloading, Clean
<1>5. QED
  BY <1>2, <1>3, <1>4 DEF ReloadCalm, Reloading

LEMMA ListCalm ==
  ASSUME Base, NEW h \in Handlers, ReloadCalm(h), ListModules(h)
  PROVE  ReloadCalm(h)'
<1>1. Becomes(h, "purge", job[h].op, job[h].name, modules, job[h].got, job[h].calm)
  BY ListModulesEffect DEF Base
<1>2. /\ job'[h].pc = "purge" /\ job'[h].op = job[h].op /\ job'[h].calm = job[h].calm
      /\ job'[h].todo = modules
      /\ job[h].pc = "list" /\ store_tx' = store_tx /\ Provided' = Provided
      /\ modules' = modules /\ REGISTRY' = REGISTRY
  BY <1>1, ProvidedStays DEF Becomes, ListModules, At, loaded
<1>3. job'[h].calm /\ job'[h].op = "reload" => Clean' /\ NoAuto'
  BY <1>2 DEF ReloadCalm, Reloading, Clean, NoAuto
<1>4. QED
  BY <1>2, <1>3 DEF ReloadCalm, Reloading

LEMMA PurgeCalm ==
  ASSUME Base, NEW h \in Handlers, ReloadCalm(h), Purge(h)
  PROVE  ReloadCalm(h)'
<1>1. Jobs
  BY DEF Base
<1>2. CASE Goes(h, [job[h] EXCEPT !.pc = "paths", !.todo = {}])
  <2>1. Becomes(h, "paths", job[h].op, job[h].name, {}, job[h].got, job[h].calm)
    BY <1>1, <1>2, PurgedEffect
  <2>2. /\ job'[h].pc = "paths" /\ job'[h].op = job[h].op /\ job'[h].calm = job[h].calm
        /\ job[h].pc = "purge" /\ store_tx' = store_tx /\ Provided' = Provided
        /\ modules' = modules \ job[h].todo /\ REGISTRY' = REGISTRY
    BY <2>1, ProvidedStays DEF Becomes, Purge, At
  <2>3. job'[h].calm /\ job'[h].op = "reload" => Clean' /\ NoAuto' /\ modules' = {}
    BY <2>2 DEF ReloadCalm, Reloading, Clean, NoAuto
  <2>4. QED
    BY <2>2, <2>3 DEF ReloadCalm, Reloading
<1>3. CASE Goes(h, Idle)
  BY <1>1, <1>3, IdleQuiet
<1>4. QED
  BY <1>2, <1>3 DEF Purge, Fails

LEMMA SetPathsCalm ==
  ASSUME Base, NEW h \in Handlers, ReloadCalm(h), SetPaths(h)
  PROVE  ReloadCalm(h)'
<1>0. PICK T : T = {i \in Ids : AutoIn(source_paths, i) # {}}
  OBVIOUS
<1>1. Becomes(h, "import", job[h].op, job[h].name, T, job[h].got, job[h].calm)
  BY <1>0, SetPathsEffect DEF Base
<1>2. /\ job'[h].pc = "import" /\ job'[h].op = job[h].op /\ job'[h].calm = job[h].calm
      /\ job'[h].todo = T
      /\ job[h].pc = "paths" /\ store_tx' = store_tx /\ Provided' = Provided
      /\ modules' = modules /\ REGISTRY' = REGISTRY /\ syspath' = source_paths /\ UNCHANGED files
  BY <1>1, ProvidedStays DEF Becomes, SetPaths, At
<1>3. ASSUME job'[h].calm, job'[h].op = "reload"
      PROVE  Clean' /\ \A D : D = Provided' => Importing(D, T)'
  <2>1. Clean /\ NoAuto /\ modules = {}
    BY <1>2, <1>3 DEF ReloadCalm, Reloading
  <2>2. source_paths = Provided
    BY <2>1, CleanPaths
  <2>3. ASSUME NEW D, D = Provided'
        PROVE  Importing(D, T)'
    <3>1. D = source_paths /\ syspath' = D
      BY <1>2, <2>2, <2>3
    <3>2. \A i \in Ids : AutoIn(D, i)' = AutoIn(D, i)
      BY <1>2, EntriesStay
    <3>3. \A i \in Ids : i \in T <=> AutoIn(D, i) # {}
      BY <1>0, <3>1
    <3>4. QED
      BY <1>2, <2>1, <3>1, <3>2, <3>3 DEF Importing, NoAuto
  <2>4. Clean'
    BY <1>2, <2>1 DEF Clean
  <2>5. QED
    BY <2>3, <2>4
<1>4. QED
  BY <1>2, <1>3 DEF ReloadCalm, Reloading

LEMMA ImportCalm ==
  ASSUME Base, NEW h \in Handlers, ReloadCalm(h), NEW i \in Ids, ImportOne(h, i)
  PROVE  ReloadCalm(h)'
<1>1. Jobs
  BY DEF Base
<1>2. CASE Goes(h, [job[h] EXCEPT !.todo = @ \ {i}])
  <2>1. Becomes(h, job[h].pc, job[h].op, job[h].name, job[h].todo \ {i}, job[h].got, job[h].calm)
    BY <1>1, <1>2, ImportEffect
  <2>2. /\ job'[h].pc = "import" /\ job'[h].op = job[h].op /\ job'[h].calm = job[h].calm
        /\ job'[h].todo = job[h].todo \ {i} /\ i \in job[h].todo
        /\ job[h].pc = "import" /\ store_tx' = store_tx /\ Provided' = Provided
        /\ syspath' = syspath /\ UNCHANGED files
    BY <2>1, ProvidedStays DEF Becomes, ImportOne, At
  <2>3. ASSUME job'[h].calm, job'[h].op = "reload", NEW D, D = Provided'
        PROVE  Importing(D, job[h].todo \ {i})'
    <3>1. Importing(D, job[h].todo)
      BY <2>2, <2>3 DEF ReloadCalm, Reloading
    <3>2. PICK T : T = job[h].todo
      OBVIOUS
    <3>3. i \notin modules /\ AutoIn(D, i) # {} /\ syspath = D
      BY <2>2, <3>1 DEF Importing
    <3>4. PICK e \in AutoIn(D, i) : REGISTRY[i] = None /\ REGISTRY' = [REGISTRY EXCEPT ![i] = e]
                                    /\ modules' = modules \cup {i}
      <4>1. ~Goes(h, Idle)
        <5>1. ASSUME Goes(h, Idle)
              PROVE  FALSE
          <6>1. Becomes(h, "idle", "none", None, {}, None, FALSE)
            BY <1>1, <5>1, IdleEffect
          <6>2. QED
            BY <2>2, <6>1 DEF Becomes
        <5>2. QED
          BY <5>1
      <4>2. QED
        BY <3>3, <4>1 DEF ImportOne, Fails
    <3>5. \A j \in Ids : REGISTRY'[j] = IF j = i THEN e ELSE REGISTRY[j]
      BY <3>4 DEF Base, Registered
    <3>6. \A j \in Ids : AutoIn(D, j)' = AutoIn(D, j)
      BY <2>2, EntriesStay
    <3>7. Importing(D, T)
      BY <3>1, <3>2
    <3>8. PICK U : U = T \ {i}
      OBVIOUS
    <3>9. Importing(D, U)'
      BY <2>2, <3>3, <3>4, <3>5, <3>6, <3>7, <3>8 DEF Importing
    <3>10. U = job[h].todo \ {i} /\ U = (job'[h].todo)
      BY <2>2, <3>2, <3>8
    <3>11. QED
      BY <3>9, <3>10
  <2>4. QED
    BY <2>2, <2>3 DEF ReloadCalm, Reloading, Clean
<1>3. CASE Goes(h, Idle)
  BY <1>1, <1>3, IdleQuiet
<1>4. QED
  BY <1>2, <1>3 DEF ImportOne, Fails

LEMMA DiscoverCalm ==
  ASSUME Base, NEW h \in Handlers, ReloadCalm(h), DiscoverMd(h)
  PROVE  ReloadCalm(h)'
<1>1. Becomes(h, "loaded", job[h].op, job[h].name, job[h].todo, job[h].got, job[h].calm)
  BY GoesToEffect DEF Base, DiscoverMd
<1>2. /\ job'[h].pc = "loaded" /\ job'[h].op = job[h].op /\ job'[h].calm = job[h].calm
      /\ job[h].pc = "import" /\ job[h].todo = {} /\ Provided' = Provided /\ UNCHANGED files
  BY <1>1, ProvidedStays DEF Becomes, DiscoverMd, At
<1>3. ASSUME job'[h].calm, job'[h].op = "reload", NEW D, D = Provided'
      PROVE  AsRead(D)'
  <2>1. Importing(D, {}) /\ Clean
    <3>1. \A E : E = Provided => Importing(E, job[h].todo)
      BY <1>2, <1>3 DEF ReloadCalm, Reloading
    <3>2. Clean
      BY <1>2, <1>3 DEF ReloadCalm, Reloading
    <3>3. QED
      BY <1>2, <1>3, <3>1, <3>2
  <2>2. D = source_paths
    BY <1>2, <1>3, <2>1, CleanPaths
  <2>3. \A i \in Ids : REGISTRY'[i] = IF ManualIn(D, i) # {} THEN CHOOSE e \in ManualIn(D, i) : TRUE
                                      ELSE IF i \in md_ids THEN None ELSE REGISTRY[i]
    BY <2>2 DEF DiscoverMd, Md
  <2>4. \A i \in Ids : AutoIn(D, i)' = AutoIn(D, i) /\ ManualIn(D, i)' = ManualIn(D, i)
    BY <1>2, EntriesStay
  <2>5. ASSUME NEW i \in Ids
        PROVE  IF ManualIn(D, i) # {} THEN REGISTRY'[i] \in ManualIn(D, i)
               ELSE IF AutoIn(D, i) # {} THEN REGISTRY'[i] \in AutoIn(D, i)
               ELSE REGISTRY'[i] = None
    <3>1. CASE ManualIn(D, i) # {}
      BY <2>3, <3>1
    <3>2. CASE ManualIn(D, i) = {} /\ AutoIn(D, i) # {}
      <4>1. REGISTRY[i] \in AutoIn(D, i)
        BY <2>1, <3>2 DEF Importing
      <4>2. D \in SUBSET Dirs
        BY <2>2, SourceDirs
      <4>3. REGISTRY[i] # None /\ REGISTRY[i].how = "auto"
        BY <4>1, <4>2, EntriesAre DEF Base, AutoIn
      <4>4. i \notin md_ids
        BY <4>3 DEF Base, Registered
      <4>5. QED
        BY <2>3, <3>2, <4>1, <4>4
    <3>3. CASE ManualIn(D, i) = {} /\ AutoIn(D, i) = {}
      <4>1. REGISTRY[i] # None => REGISTRY[i].how # "auto"
        BY <2>1, <3>3 DEF Importing
      <4>2. REGISTRY[i] # None => i \in md_ids
        BY <4>1 DEF Base, Registered
      <4>3. QED
        BY <2>3, <3>3, <4>2
    <3>4. QED
      BY <3>1, <3>2, <3>3
  <2>6. QED
    BY <2>4, <2>5 DEF AsRead
<1>4. QED
  BY <1>2, <1>3 DEF ReloadCalm, Reloading

LEMMA ReloadReloadCalm ==
  ASSUME Base, NEW h \in Handlers, ReloadCalm(h), Reload(h)
  PROVE  ReloadCalm(h)'
<1>1. Jobs /\ JobOk(job[h].pc, job[h].op, job[h].name, job[h].got)
  BY DEF Base, JobOkAt
<1>2. CASE AfterLoad(h)
  <2>1. \/ Goes(h, Idle)
        \/ Goes(h, [job[h] EXCEPT !.pc = "sync", !.op = "reboot", !.todo = Sources])
        \/ Goes(h, [job[h] EXCEPT !.pc = "live", !.op = IF @ = "boot" THEN "reboot" ELSE @])
    BY <1>2 DEF AfterLoad
  <2>2. CASE Goes(h, [job[h] EXCEPT !.pc = "sync", !.op = "reboot", !.todo = Sources])
    <3>1. Becomes(h, "sync", "reboot", job[h].name, Sources, job[h].got, job[h].calm)
      BY <1>1, <2>2, BootSyncEffect
    <3>2. QED
      BY <3>1 DEF Becomes, ReloadCalm, Reloading
  <2>3. CASE Goes(h, [job[h] EXCEPT !.pc = "live", !.op = IF @ = "boot" THEN "reboot" ELSE @])
    <3>1. Becomes(h, "live", IF job[h].op = "boot" THEN "reboot" ELSE job[h].op, job[h].name,
                  job[h].todo, job[h].got, job[h].calm)
      BY <1>1, <2>3, LiveEffect
    <3>2. job'[h].pc = "live"
      BY <3>1 DEF Becomes
    <3>3. QED
      BY <3>2, QuietCalm
  <2>4. QED
    BY <1>1, <2>1, <2>2, <2>3, IdleQuiet
<1>3. QED
  BY <1>2, DropCalm, ListCalm, PurgeCalm, SetPathsCalm, ImportCalm, DiscoverCalm DEF Reload

LEMMA EditReloadCalm ==
  ASSUME Base, NEW h \in Handlers, Edit(h)
  PROVE  ReloadCalm(h)'
<1>1. Jobs /\ JobOk(job[h].pc, job[h].op, job[h].name, job[h].got)
  BY DEF Base, JobOkAt
<1>2. ASSUME NEW i \in Ids, MdSave(h, i)
      PROVE  ReloadCalm(h)'
  <2>1. job'[h].pc = "drop" /\ job'[h].op = "save"
    BY <1>1, <1>2, MdSaveEffect DEF Becomes
  <2>2. QED
    BY <2>1, QuietCalm
<1>3. ASSUME NEW i \in Ids, NEW d \in syspath, AutoSave(h, i, d)
      PROVE  ReloadCalm(h)'
  <2>1. PICK e : Goes(h, [Idle EXCEPT !.pc = "pop", !.op = "edit", !.name = i, !.calm = TRUE, !.got = e])
    BY <1>3 DEF AutoSave
  <2>2. job'[h].pc = "pop" /\ job'[h].op = "edit"
    BY <1>1, <2>1, AutoSaveEffect DEF Becomes
  <2>3. QED
    BY <2>2, QuietCalm
<1>4. CASE Edited(h)
  BY <1>1, <1>4, IdleQuiet DEF Edited
<1>5. CASE Pop(h) \/ Exec(h) \/ Rollback(h)
  <2>1. job[h].op \in {"edit", "undo"}
    BY <1>1, <1>5 DEF JobOk, EditPcs, Pop, Exec, Rollback, At
  <2>2. \/ \E pc \in EditPcs : GoesTo(h, pc)
        \/ Goes(h, [job[h] EXCEPT !.pc = "pop", !.op = "undo"])
    BY <1>5 DEF Pop, Exec, Rollback, EditPcs
  <2>3. CASE Goes(h, [job[h] EXCEPT !.pc = "pop", !.op = "undo"])
    <3>1. job'[h].pc = "pop" /\ job'[h].op = "undo"
      BY <1>1, <2>3, UndoEffect DEF Becomes
    <3>2. QED
      BY <3>1, QuietCalm
  <2>4. ASSUME NEW pc \in EditPcs, GoesTo(h, pc)
        PROVE  ReloadCalm(h)'
    <3>1. job'[h].pc = pc /\ job'[h].op = job[h].op
      BY <1>1, <2>4, GoesToEffect DEF Becomes
    <3>2. QED
      BY <2>1, <3>1, QuietCalm DEF EditPcs
  <2>5. QED
    BY <2>2, <2>3, <2>4
<1>6. QED
  BY <1>2, <1>3, <1>4, <1>5 DEF Edit

LEMMA RequirementsReloadCalm ==
  ASSUME Base, NEW h \in Handlers, Requirements(h)
  PROVE  ReloadCalm(h)'
<1>1. Jobs
  BY DEF Base
<1>2. GoesTo(h, "catalogs") \/ GoesTo(h, "done") \/ Goes(h, Idle)
  BY DEF Requirements, PurgeCatalogs, ImportCatalogs, Reply
<1>3. CASE Goes(h, Idle)
  BY <1>1, <1>3, IdleQuiet
<1>4. ASSUME NEW pc \in {"catalogs", "done"}, GoesTo(h, pc)
      PROVE  ReloadCalm(h)'
  <2>1. job'[h].pc = pc
    BY <1>1, <1>4, GoesToEffect DEF Becomes
  <2>2. QED
    BY <1>4, <2>1, QuietCalm
<1>5. QED
  BY <1>2, <1>3, <1>4

ReloadInv == Base /\ \A h \in Handlers : ReloadCalm(h)

LEMMA ReloadStep ==
  ReloadInv /\ [Next]_vars => ReloadInv'
<1> SUFFICES ASSUME ReloadInv, [Next]_vars
             PROVE  ReloadInv'
  OBVIOUS
<1>1. Base /\ Base'
  BY BaseStep DEF ReloadInv
<1>2. ASSUME NEW h \in Handlers, Sync(h) \/ Forget(h) \/ Reload(h) \/ Requirements(h) \/ Edit(h)
      PROVE  \A g \in Handlers : ReloadCalm(g)'
  <2>1. OkAfter(h)
    BY <1>1, <1>2, SyncOk, ForgetOk, ReloadOk, RequirementsOk, EditOk
  <2>2. ReloadCalm(h)'
    BY <1>1, <1>2, SyncReloadCalm, ForgetReloadCalm, ReloadReloadCalm, RequirementsReloadCalm,
       EditReloadCalm DEF ReloadInv
  <2>3. QED
    BY <2>1, <2>2, ReloadsCalm
<1>3. CASE World
  <2>1. \A h \in Handlers : job'[h].calm => job'[h].pc = "paths" /\ job'[h].op = "boot"
    BY <1>1, <1>3, WorldCalm DEF Base
  <2>2. QED
    BY <1>1, <2>1 DEF ReloadInv, ReloadCalm, Reloading
<1>4. CASE UNCHANGED vars
  <2>1. UNCHANGED <<row, files, loaded, store_tx, job>>
    BY <1>4 DEF vars
  <2>2. UNCHANGED <<REGISTRY, modules, syspath>> /\ job' = job /\ store_tx' = store_tx
    BY <2>1 DEF loaded
  <2>3. Provided' = Provided
    BY <2>1, ProvidedStays
  <2>4. \A D, i : AutoIn(D, i)' = AutoIn(D, i) /\ ManualIn(D, i)' = ManualIn(D, i)
    BY <2>1, EntriesStay
  <2>5. /\ Clean' <=> Clean
        /\ NoAuto' <=> NoAuto
        /\ \A D, T : Importing(D, T) => Importing(D, T)'
        /\ \A D : AsRead(D) => AsRead(D)'
    BY <2>2, <2>3, <2>4 DEF Clean, NoAuto, Importing, AsRead
  <2>6. ASSUME NEW h \in Handlers
        PROVE  ReloadCalm(h)'
    <3>1. ReloadCalm(h)
      BY DEF ReloadInv
    <3>2. QED
      BY <2>2, <2>3, <2>5, <3>1 DEF ReloadCalm, Reloading
  <2>7. QED
    BY <1>1, <2>6 DEF ReloadInv
<1>5. QED
  BY <1>1, <1>2, <1>3, <1>4 DEF Next, ReloadInv

-----------------------------------------------------------------------------
(* An edit *)

\* No two sources have an automated check of the same id.
OneProvider ==
  \A s, t \in Names : \A u \in Versions[s], v \in Versions[t] :
    Automated[u] \cap Automated[v] # {} => s = t

LEMMA Sole ==
  ASSUME OneProvider, Base, NEW d \in syspath, NEW i, VersionIn(d) # None, i \in Automated[VersionIn(d)]
  PROVE  AutoIn(syspath, i) = {[how |-> "auto", src |-> d[1], ver |-> VersionIn(d)]}
<1>1. \A c \in syspath : c \in Dirs
  BY DEF Base, Files
<1>2. ASSUME NEW c \in syspath, VersionIn(c) # None
      PROVE  /\ c[1] \in Names
             /\ \E u \in Versions[c[1]] : Automated[u] = Automated[VersionIn(c)]
  <2>1. c[1] \in Names /\ VersionIn(c) \in {origin[c[1]], clone[c[1]]}
    BY <1>1 DEF Dirs, VersionIn
  <2>2. QED
    BY <1>2, <2>1 DEF Base, Belongs
<1>3. ASSUME NEW c \in syspath, VersionIn(c) # None, i \in Automated[VersionIn(c)]
      PROVE  c = d
  <2>1. PICK u \in Versions[c[1]] : Automated[u] = Automated[VersionIn(c)]
    BY <1>2, <1>3
  <2>2. PICK v \in Versions[d[1]] : Automated[v] = Automated[VersionIn(d)]
    BY <1>2
  <2>3. i \in Automated[u] \cap Automated[v]
    BY <1>3, <2>1, <2>2
  <2>4. c[1] = d[1]
    BY <1>2, <1>3, <2>3 DEF OneProvider
  <2>5. QED
    BY <2>4 DEF Base, Files
<1>4. QED
  BY <1>3 DEF AutoIn, Entries

LEMMA OwnEntry ==
  ASSUME NEW d, NEW i, VersionIn(d) # None, i \in Automated[VersionIn(d)]
  PROVE  AutoIn({d}, i) = {[how |-> "auto", src |-> d[1], ver |-> VersionIn(d)]}
BY DEF AutoIn, Entries

LEMMA NotEditing ==
  ASSUME NEW h \in Handlers, job'[h].pc \notin EditPcs
  PROVE  EditCalm(h)'
BY DEF EditCalm, Editing, EditPcs

\* The job of an edit under way, as its fields.
LEMMA EditHeld ==
  ASSUME Base, NEW h \in Handlers, EditCalm(h), job[h].pc \in EditPcs
  PROVE  /\ IsEdit(job[h].name, job[h].got) /\ job[h].op \in {"edit", "undo"}
         /\ job[h].calm => Editing(job[h].pc, job[h].op, job[h].name, job[h].got)
BY DEF Base, JobOkAt, JobOk, EditCalm

LEMMA AutoSaveCalm ==
  ASSUME Base, NEW h \in Handlers, NEW i \in Ids, NEW d \in syspath, AutoSave(h, i, d)
  PROVE  EditCalm(h)'
<1>1. d \in Dirs
  BY DEF Base, Files
<1>2. PICK w \in Edits(i, VersionIn(d)) :
        /\ Write(d, w)
        /\ Goes(h, [Idle EXCEPT !.pc = "pop", !.op = "edit", !.name = i, !.calm = TRUE,
                                !.got = [dir |-> d, old |-> VersionIn(d), new |-> w]])
  BY DEF AutoSave
<1>3. PICK e : e = [dir |-> d, old |-> VersionIn(d), new |-> w]
  OBVIOUS
<1>4. Becomes(h, "pop", "edit", i, {}, e, TRUE)
  BY <1>2, <1>3, AutoSaveEffect DEF Base
<1>5. job'[h].pc = "pop" /\ job'[h].op = "edit" /\ job'[h].name = i /\ job'[h].got = e
  BY <1>4 DEF Becomes
<1>6. VersionIn(d) # None /\ REGISTRY[i].how = "auto" /\ UNCHANGED loaded
  BY DEF AutoSave
<1>7. VersionIn(d)' = w
  <2>1. w \in AllVersions /\ Automated[w] = Automated[VersionIn(d)]
    BY <1>2 DEF Edits
  <2>2. QED
    BY <1>1, <1>2, <1>6, <2>1, WriteKeeps DEF Base, loaded
<1>8. e.dir = d /\ e.new = w /\ syspath' = syspath /\ REGISTRY' = REGISTRY
  BY <1>3, <1>6 DEF loaded
<1>9. VersionIn(e.dir)' = e.new
  BY <1>7, <1>8
<1>10. Editing("pop", "edit", i, e)'
  BY <1>6, <1>8, <1>9 DEF Editing, EditPcs
<1>11. QED
  BY <1>5, <1>10 DEF EditCalm

LEMMA PopCalm ==
  ASSUME Base, NEW h \in Handlers, EditCalm(h), Pop(h)
  PROVE  EditCalm(h)'
<1>1. PICK i, e, op : i = job[h].name /\ e = job[h].got /\ op = job[h].op
  OBVIOUS
<1>2. job[h].pc = "pop" /\ syspath' = syspath /\ UNCHANGED files /\ job[h].pc \in EditPcs
  BY DEF Pop, At, EditPcs
<1>3. Becomes(h, "exec", job[h].op, job[h].name, job[h].todo, job[h].got, job[h].calm)
  BY GoesToEffect DEF Base, Pop
<1>4. /\ job'[h].pc = "exec" /\ job'[h].op = op /\ job'[h].name = i /\ job'[h].got = e
      /\ job'[h].calm = job[h].calm
  BY <1>1, <1>3 DEF Becomes
<1>5. IsEdit(i, e) /\ (job[h].calm => Editing("pop", op, i, e))
  BY <1>1, <1>2, EditHeld
<1>6. VersionIn(e.dir)' = VersionIn(e.dir)
  BY <1>2, EntriesStay
<1>7. ASSUME job[h].calm
      PROVE  Editing("exec", op, i, e)'
  <2>1. Editing("pop", op, i, e)
    BY <1>5, <1>7
  <2>2. REGISTRY'[i] = None
    <3>1. i \in Ids /\ (REGISTRY[i] = None \/ REGISTRY[i].how = "auto")
      BY <1>5, <2>1 DEF Editing, IsEdit
    <3>2. REGISTRY' = IF REGISTRY[i] # None /\ REGISTRY[i].how = "auto"
                        THEN [REGISTRY EXCEPT ![i] = None] ELSE REGISTRY
      BY <1>1 DEF Pop
    <3>3. QED
      BY <3>1, <3>2 DEF Base, Registered
  <2>3. QED
    BY <1>2, <1>6, <2>1, <2>2 DEF Editing, EditPcs
<1>8. QED
  BY <1>4, <1>7 DEF EditCalm

LEMMA ExecCalm ==
  ASSUME OneProvider, Base, NEW h \in Handlers, EditCalm(h), Exec(h)
  PROVE  EditCalm(h)'
<1>1. PICK i, e, op : i = job[h].name /\ e = job[h].got /\ op = job[h].op
  OBVIOUS
<1>2. job[h].pc = "exec" /\ syspath' = syspath /\ UNCHANGED files /\ job[h].pc \in EditPcs
  BY DEF Exec, At, EditPcs
<1>3. IsEdit(i, e) /\ op \in {"edit", "undo"} /\ (job[h].calm => Editing("exec", op, i, e))
  BY <1>1, <1>2, EditHeld
<1>4. ASSUME NEW pc, GoesTo(h, pc)
      PROVE  /\ job'[h].pc = pc /\ job'[h].op = op /\ job'[h].name = i /\ job'[h].got = e
             /\ job'[h].calm = job[h].calm
  <2>1. Becomes(h, pc, job[h].op, job[h].name, job[h].todo, job[h].got, job[h].calm)
    BY <1>4, GoesToEffect DEF Base
  <2>2. QED
    BY <1>1, <2>1 DEF Becomes
<1>5. VersionIn(e.dir)' = VersionIn(e.dir) /\ AutoIn({e.dir}, i)' = AutoIn({e.dir}, i)
  BY <1>2, EntriesStay
<1>6. CASE ~job[h].calm
  <2>1. ~job'[h].calm
    BY <1>4, <1>6 DEF Exec
  <2>2. QED
    BY <2>1 DEF EditCalm
<1>7. CASE job[h].calm
  <2> DEFINE v == VersionIn(e.dir)
             x == [how |-> "auto", src |-> e.dir[1], ver |-> v]
             has == AutoIn(syspath, i)
             loads == {y \in has : i \notin Broken[y.ver]}
  <2>1. /\ Editing("exec", op, i, e) /\ e.dir \in syspath /\ REGISTRY[i] = None
        /\ op = "edit" => v = e.new
        /\ op = "undo" => v = e.old /\ i \in Broken[e.new]
    BY <1>3, <1>7 DEF Editing, EditPcs
  <2>2. v # None /\ i \in Automated[v]
    BY <1>3, <2>1, CheckSourcesAssumption DEF IsEdit
  <2>3. has = {x} /\ AutoIn({e.dir}, i) = {x}
    BY <2>1, <2>2, Sole, OwnEntry
  <2>4. x.ver = v
    OBVIOUS
  <2>5. i \in Ids
    BY <1>3 DEF IsEdit
  <2> HIDE DEF v, x
  <2>6. CASE i \notin Broken[v]
    <3>1. loads = {x}
      BY <2>3, <2>4, <2>6
    <3>2. REGISTRY' = [REGISTRY EXCEPT ![i] = x] /\ GoesTo(h, "edited")
      BY <1>1, <2>1, <2>3, <3>1 DEF Exec
    <3>3. REGISTRY'[i] = x
      BY <2>5, <3>2 DEF Base, Registered
    <3>4. VersionIn(e.dir)' = v /\ REGISTRY'[i] \in AutoIn({e.dir}, i)'
      BY <1>5, <2>3, <3>3 DEF v
    <3>5. v = IF i \in Broken[e.new] THEN e.old ELSE e.new
      BY <1>3, <2>1, <2>6
    <3>6. Settled(i, e)'
      BY <3>4, <3>5 DEF Settled
    <3>7. job'[h].pc = "edited" /\ job'[h].op = op /\ job'[h].name = i /\ job'[h].got = e
      BY <1>4, <3>2
    <3>8. Editing("edited", op, i, e)'
      BY <1>2, <2>1, <3>6 DEF Editing
    <3>9. QED
      BY <3>7, <3>8 DEF EditCalm
  <2>7. CASE i \in Broken[v]
    <3>1. loads = {}
      BY <2>3, <2>4, <2>7
    <3>2. LeftBy(has \ loads, i) /\ GoesTo(h, IF job[h].op = "edit" THEN "rollback" ELSE "edited")
      BY <1>1, <3>1 DEF Exec
    <3>3. REGISTRY'[i] = None \/ REGISTRY'[i].how = "auto"
      <4>1. REGISTRY'[i] = None \/ REGISTRY'[i] \in {x}
        BY <2>1, <2>3, <2>5, <3>1, <3>2 DEF LeftBy, Base, Registered
      <4>2. x.how = "auto"
        BY DEF x
      <4>3. QED
        BY <4>1, <4>2
    <3>4. VersionIn(e.dir)' = v
      BY <1>5 DEF v
    <3>5. CASE op = "edit"
      <4>1. job'[h].pc = "rollback" /\ job'[h].op = op /\ job'[h].name = i /\ job'[h].got = e
        BY <1>1, <1>4, <3>2, <3>5
      <4>2. Editing("rollback", op, i, e)'
        BY <1>2, <2>1, <2>7, <3>3, <3>4, <3>5 DEF Editing
      <4>3. QED
        BY <4>1, <4>2 DEF EditCalm
    <3>6. CASE op = "undo"
      <4>1. job'[h].pc = "edited" /\ job'[h].op = op /\ job'[h].name = i /\ job'[h].got = e
        BY <1>1, <1>4, <3>2, <3>6
      <4>2. Settled(i, e)'
        BY <2>1, <2>7, <3>4, <3>6 DEF Settled
      <4>3. Editing("edited", op, i, e)'
        BY <1>2, <2>1, <4>2 DEF Editing
      <4>4. QED
        BY <4>1, <4>3 DEF EditCalm
    <3>7. QED
      BY <1>3, <3>5, <3>6
  <2>8. QED
    BY <2>6, <2>7
<1>8. QED
  BY <1>6, <1>7

LEMMA RollbackCalm ==
  ASSUME Base, NEW h \in Handlers, EditCalm(h), Rollback(h)
  PROVE  EditCalm(h)'
<1>1. PICK i, e, op : i = job[h].name /\ e = job[h].got /\ op = job[h].op
  OBVIOUS
<1>2. /\ job[h].pc = "rollback" /\ syspath' = syspath /\ REGISTRY' = REGISTRY
      /\ job[h].pc \in EditPcs
  BY DEF Rollback, At, EditPcs, loaded
<1>3. IsEdit(i, e) /\ (job[h].calm => Editing("rollback", op, i, e))
  BY <1>1, <1>2, EditHeld
<1>4. CASE job[h].calm
  <2>1. /\ e.dir \in syspath /\ VersionIn(e.dir) = e.new /\ i \in Broken[e.new]
        /\ REGISTRY[i] = None \/ REGISTRY[i].how = "auto"
    BY <1>3, <1>4 DEF Editing, EditPcs
  <2>2. VersionIn(e.dir) # None
    BY <1>3, <2>1, CheckSourcesAssumption DEF IsEdit
  <2>3. /\ Write(e.dir, e.old)
        /\ Goes(h, [job[h] EXCEPT !.pc = "pop", !.op = "undo"])
    BY <1>1, <2>1, <2>2 DEF Rollback
  <2>4. Becomes(h, "pop", "undo", job[h].name, job[h].todo, job[h].got, job[h].calm)
    BY <2>3, UndoEffect DEF Base
  <2>5. job'[h].pc = "pop" /\ job'[h].op = "undo" /\ job'[h].name = i /\ job'[h].got = e
    BY <1>1, <2>4 DEF Becomes
  <2>6. VersionIn(e.dir)' = e.old
    BY <1>2, <1>3, <2>1, <2>2, <2>3, WriteKeeps DEF Base, IsEdit
  <2>7. Editing("pop", "undo", i, e)'
    BY <1>2, <2>1, <2>6 DEF Editing
  <2>8. QED
    BY <2>5, <2>7 DEF EditCalm
<1>5. CASE ~job[h].calm
  <2>1. GoesTo(h, "edited") \/ Goes(h, [job[h] EXCEPT !.pc = "pop", !.op = "undo"])
    BY DEF Rollback
  <2>2. \/ Becomes(h, "edited", job[h].op, job[h].name, job[h].todo, job[h].got, job[h].calm)
        \/ Becomes(h, "pop", "undo", job[h].name, job[h].todo, job[h].got, job[h].calm)
    BY <2>1, GoesToEffect, UndoEffect DEF Base
  <2>3. QED
    BY <1>5, <2>2 DEF Becomes, EditCalm
<1>6. QED
  BY <1>4, <1>5

LEMMA EditEditCalm ==
  ASSUME OneProvider, Base, NEW h \in Handlers, EditCalm(h), Edit(h)
  PROVE  EditCalm(h)'
<1>1. ASSUME NEW i \in Ids, MdSave(h, i)
      PROVE  EditCalm(h)'
  <2>1. job'[h].pc = "drop"
    BY <1>1, MdSaveEffect DEF Base, Becomes
  <2>2. QED
    BY <2>1, NotEditing DEF EditPcs
<1>2. CASE Edited(h)
  <2>1. Goes(h, Idle)
    BY <1>2 DEF Edited
  <2>2. job'[h].pc = "idle"
    BY <2>1, IdleEffect DEF Base, Becomes
  <2>3. QED
    BY <2>2, NotEditing DEF EditPcs
<1>3. QED
  BY <1>1, <1>2, AutoSaveCalm, PopCalm, ExecCalm, RollbackCalm DEF Edit

EditInv == Base /\ \A h \in Handlers : EditCalm(h)

LEMMA EditStep ==
  OneProvider /\ EditInv /\ [Next]_vars => EditInv'
<1> SUFFICES ASSUME OneProvider, EditInv, [Next]_vars
             PROVE  EditInv'
  OBVIOUS
<1>1. Base /\ Base' /\ Jobs
  BY BaseStep DEF EditInv, Base
<1>2. ASSUME NEW h \in Handlers, Sync(h) \/ Forget(h) \/ Reload(h) \/ Requirements(h) \/ Edit(h)
      PROVE  \A g \in Handlers : EditCalm(g)'
  <2>1. OkAfter(h)
    BY <1>1, <1>2, SyncOk, ForgetOk, ReloadOk, RequirementsOk, EditOk
  <2>2. EditCalm(h)'
    <3>1. CASE Edit(h)
      BY <1>1, <3>1, EditEditCalm DEF EditInv
    <3>2. CASE ~Edit(h) /\ (Sync(h) \/ Forget(h) \/ Reload(h))
      <4>1. Elsewhere(h)
        BY <1>1, <3>2, SyncElsewhere, ForgetElsewhere, ReloadElsewhere
      <4>2. QED
        BY <3>2, <4>1, NotEditing DEF Elsewhere
    <3>3. CASE Requirements(h)
      <4>1. GoesTo(h, "catalogs") \/ GoesTo(h, "done") \/ Goes(h, Idle)
        BY <3>3 DEF Requirements, PurgeCatalogs, ImportCatalogs, Reply
      <4>2. ASSUME NEW pc \in {"catalogs", "done"}, GoesTo(h, pc)
            PROVE  job'[h].pc \notin EditPcs
        <5>1. job'[h].pc = pc
          BY <1>1, <4>2, GoesToEffect DEF Becomes
        <5>2. QED
          BY <4>2, <5>1 DEF EditPcs
      <4>3. ASSUME Goes(h, Idle)
            PROVE  job'[h].pc \notin EditPcs
        <5>1. job'[h].pc = "idle"
          BY <1>1, <4>3, IdleEffect DEF Becomes
        <5>2. QED
          BY <5>1 DEF EditPcs
      <4>4. QED
        BY <4>1, <4>2, <4>3, NotEditing
    <3>4. QED
      BY <1>2, <3>1, <3>2, <3>3
  <2>3. ASSUME NEW g \in Handlers, g # h
        PROVE  EditCalm(g)'
    BY <2>1, <2>3 DEF OkAfter, Disturbed, EditCalm
  <2>4. QED
    BY <2>2, <2>3
<1>3. CASE World
  <2>1. \A h \in Handlers : job'[h].calm => job'[h].pc = "paths" /\ job'[h].op = "boot"
    BY <1>1, <1>3, WorldCalm
  <2>2. \A h \in Handlers : EditCalm(h)'
    BY <2>1, NotEditing DEF EditCalm, EditPcs
  <2>3. QED
    BY <1>1, <2>2 DEF EditInv
<1>4. CASE UNCHANGED vars
  <2>1. UNCHANGED files /\ syspath' = syspath /\ REGISTRY' = REGISTRY /\ job' = job
    BY <1>4 DEF vars, loaded
  <2>2. /\ \A d : VersionIn(d)' = VersionIn(d)
        /\ \A D, i : AutoIn(D, i)' = AutoIn(D, i)
    BY <2>1, EntriesStay
  <2>3. \A i, e : Settled(i, e) => Settled(i, e)'
    BY <2>1, <2>2 DEF Settled
  <2>4. \A pc, op, i, e : Editing(pc, op, i, e) => Editing(pc, op, i, e)'
    BY <2>1, <2>2, <2>3 DEF Editing
  <2>5. \A h \in Handlers : EditCalm(h)'
    BY <2>1, <2>4 DEF EditInv, EditCalm
  <2>6. QED
    BY <1>1, <2>5 DEF EditInv
<1>5. QED
  BY <1>1, <1>2, <1>3, <1>4 DEF Next, EditInv

-----------------------------------------------------------------------------
(* The theorems *)

\* A sync, an unsync or a delete that nobody disturbs leaves in REGISTRY exactly the checks
\* the enabled sources provide, whatever went before it; here two sources may have the same check.
ReloadsAsRead ==
  \A h \in Handlers : job[h].calm /\ At(h, "loaded") /\ job[h].op = "reload" => AsRead(Provided)

LEMMA ReloadedAsRead ==
  ReloadInv => ReloadsAsRead
<1> SUFFICES ASSUME ReloadInv, NEW h \in Handlers, job[h].calm, At(h, "loaded"), job[h].op = "reload"
             PROVE  AsRead(Provided)
  BY DEF ReloadsAsRead
<1>1. \A D : D = Provided => AsRead(D)
  BY DEF ReloadInv, ReloadCalm, Reloading, At
<1>2. PICK D : D = Provided
  OBVIOUS
<1>3. AsRead(D)
  BY <1>1, <1>2
<1>4. QED
  BY <1>2, <1>3

LEMMA EditsSettle ==
  EditInv => \A h \in Handlers : job[h].calm /\ At(h, "edited") => EditSettled(h)
<1> SUFFICES ASSUME EditInv, NEW h \in Handlers, job[h].calm, At(h, "edited")
             PROVE  EditSettled(h)
  OBVIOUS
<1>1. Settled(job[h].name, job[h].got)
  BY DEF EditInv, EditCalm, Editing, At
<1>2. QED
  BY <1>1 DEF Settled, EditSettled

\* What a reload nobody disturbs leaves in REGISTRY, as ReloadsAsRead says.
THEOREM ReloadsLeaveWhatIsRead == Spec => []ReloadsAsRead
<1>1. Init => ReloadInv
  <2>1. Init => \A h \in Handlers : job[h].calm = FALSE
    BY DEF Init, Idle
  <2>2. QED
    BY <2>1, BaseInit DEF ReloadInv, ReloadCalm
<1>2. QED
  BY <1>1, ReloadStep, ReloadedAsRead, PTL DEF Spec

\* REGISTRY is as the files are read after every reload and every edit nobody disturbs, as
\* LoadedAsRead says, when no two sources have an automated check of the same id: an edit loads
\* its module from sys.path, where another source with that check could come before the file.
THEOREM RegistryIsAsRead == ASSUME OneProvider PROVE Spec => []LoadedAsRead
<1>1. Init => ReloadInv /\ EditInv
  <2>1. Init => \A h \in Handlers : job[h].calm = FALSE
    BY DEF Init, Idle
  <2>2. QED
    BY <2>1, BaseInit DEF ReloadInv, ReloadCalm, EditInv, EditCalm
<1>2. EditInv /\ [Next]_vars => EditInv'
  BY EditStep
<1>3. ReloadInv /\ EditInv => LoadedAsRead
  BY ReloadedAsRead, EditsSettle DEF LoadedAsRead, ReloadsAsRead
<1>4. QED
  BY <1>1, <1>2, <1>3, ReloadStep, PTL DEF Spec

-----------------------------------------------------------------------------
(* The rows, and the user's own directories *)

Checkouts == {"none", "clone", "own"}

IsRow(r) ==
  /\ r = [kind |-> r.kind, enabled |-> r.enabled, checkout |-> r.checkout, ok |-> r.ok]
  /\ r.kind \in {"git", "path"} /\ r.enabled \in BOOLEAN /\ r.checkout \in Checkouts /\ r.ok \in BOOLEAN

\* What was synced as the user's directory is one, and a name that was never given another
\* kind has the kind of its url.
RowOk(s, r) ==
  r # None => /\ IsRow(r)
              /\ r.checkout = "own" => UrlKind[s] = "path"
              /\ s \notin rekinded => r.kind = UrlKind[s]

Rows == row = [s \in Names |-> row[s]] /\ \A s \in Names : RowOk(s, row[s])

RemovalPcs == {"sync", "unsync", "delete", "rmtree"}

\* What a sync is about to record, or an unsync or a delete about to remove.
Removes(pc, name, got) ==
  /\ pc = "sync" /\ got # None => /\ got.ok \in BOOLEAN /\ got.checkout \in Checkouts
                                  /\ got.checkout = "own" => UrlKind[name] = "path"
  /\ pc \in {"unsync", "delete"} => name \in Names
  /\ pc = "rmtree" /\ got = "own" => name \in rekinded

RemovesAt(h) == Removes(job[h].pc, job[h].name, job[h].got)

DirInv == Base /\ Rows /\ \A h \in Handlers : RemovesAt(h)

\* Nobody forgets that a name was given another kind.
LEMMA RekindedGrows ==
  ASSUME [Next]_vars
  PROVE  rekinded \subseteq rekinded'
BY DEF Next, World, Work, UpsertSource, EditCatalog, OtherSave, Restart, vars

LEMMA NothingRemoved ==
  ASSUME NEW h \in Handlers, job'[h].pc \notin RemovalPcs
  PROVE  RemovesAt(h)'
BY DEF RemovesAt, Removes, RemovalPcs

LEMMA GoesToPc ==
  ASSUME Jobs, NEW h \in Handlers, NEW pc, GoesTo(h, pc)
  PROVE  job'[h].pc = pc
BY GoesToEffect DEF Becomes

LEMMA ReloadsPc ==
  ASSUME Jobs, NEW h \in Handlers, Reloads(h)
  PROVE  job'[h].pc = "drop"
BY ReloadsEffect DEF Becomes

LEMMA IdlePc ==
  ASSUME Jobs, NEW h \in Handlers, Goes(h, Idle)
  PROVE  job'[h].pc = "idle"
BY IdleEffect DEF Becomes

LEMMA SyncRemoves ==
  ASSUME DirInv, NEW h \in Handlers, Sync(h)
  PROVE  RemovesAt(h)'
<1>1. Jobs /\ RemovesAt(h)
  BY DEF DirInv, Base
<1>2. CASE Begin(h, "sync", None)
  <2>1. Becomes(h, "sync", "sync", None, IF "sync" = "sync" THEN Sources ELSE {}, None, TRUE)
    BY <1>1, <1>2, BeginEffect
  <2>2. job'[h].pc = "sync" /\ job'[h].got = None
    BY <2>1 DEF Becomes
  <2>3. QED
    BY <2>2 DEF RemovesAt, Removes
<1>3. CASE SyncRecord(h)
  <2>1. Becomes(h, job[h].pc, job[h].op, None, job[h].todo, None, job[h].calm) /\ job[h].pc = "sync"
    BY <1>1, <1>3, SyncRecordEffect DEF SyncRecord, At
  <2>2. job'[h].pc = "sync" /\ job'[h].got = None
    BY <2>1 DEF Becomes
  <2>3. QED
    BY <2>2 DEF RemovesAt, Removes
<1>4. CASE SyncDone(h)
  <2>1. GoesTo(h, "paths") \/ Reloads(h)
    BY <1>4 DEF SyncDone
  <2>2. job'[h].pc = "paths" \/ job'[h].pc = "drop"
    BY <1>1, <2>1, GoesToPc, ReloadsPc
  <2>3. QED
    BY <2>2, NothingRemoved DEF RemovalPcs
<1>5. ASSUME NEW src \in job[h].todo, SyncFetch(h, src)
      PROVE  RemovesAt(h)'
  <2>1. job[h].pc = "sync"
    BY <1>5 DEF SyncFetch, At
  <2>2. PICK ok \in BOOLEAN, co \in Checkouts :
          /\ Goes(h, [job[h] EXCEPT !.name = src.name, !.todo = @ \ {src},
                                    !.got = [ok |-> ok, checkout |-> co]])
          /\ co = "own" => UrlKind[src.name] = "path"
    BY <1>5 DEF SyncFetch, Checkouts
  <2>3. PICK got : got = [ok |-> ok, checkout |-> co]
    OBVIOUS
  <2>4. Becomes(h, job[h].pc, job[h].op, src.name, job[h].todo \ {src}, got, job[h].calm)
    BY <1>1, <2>2, <2>3, FetchEffect
  <2>5. /\ job'[h].pc = "sync" /\ job'[h].name = src.name
        /\ job'[h].got.ok = ok /\ job'[h].got.checkout = co
    BY <2>1, <2>3, <2>4 DEF Becomes
  <2>6. QED
    BY <2>2, <2>5 DEF RemovesAt, Removes
<1>6. QED
  BY <1>2, <1>3, <1>4, <1>5 DEF Sync

LEMMA ForgetRemoves ==
  ASSUME DirInv, NEW h \in Handlers, Forget(h), rekinded \subseteq rekinded'
  PROVE  RemovesAt(h)'
<1>1. Jobs /\ RemovesAt(h)
  BY DEF DirInv, Base
<1>2. ASSUME NEW s \in Names, NEW op \in {"unsync", "delete"}, Begin(h, op, s)
      PROVE  RemovesAt(h)'
  <2>1. Becomes(h, op, op, s, IF op = "sync" THEN Sources ELSE {}, None, TRUE)
    BY <1>1, <1>2, BeginEffect
  <2>2. job'[h].pc = op /\ job'[h].name = s
    BY <2>1 DEF Becomes
  <2>3. QED
    BY <1>2, <2>2 DEF RemovesAt, Removes
<1>3. CASE Unlink(h)
  <2>1. PICK s : s = job[h].name
    OBVIOUS
  <2>2. s \in Names
    BY <1>1, <1>3, <2>1 DEF RemovesAt, Removes, Unlink, At
  <2>3. clear_check_source_sync(s) = "own" => s \in rekinded
    <3>1. RowOk(s, row[s])
      BY <2>2 DEF DirInv, Rows
    <3>2. CASE row[s] = None \/ row[s].kind # "git"
      <4>1. clear_check_source_sync(s) = "none"
        BY <3>2 DEF clear_check_source_sync
      <4>2. QED
        BY <4>1
    <3>3. CASE row[s] # None /\ row[s].kind = "git"
      <4>1. clear_check_source_sync(s) = row[s].checkout
        BY <3>3 DEF clear_check_source_sync
      <4>2. row[s].checkout = "own" => s \in rekinded
        BY <3>1, <3>3 DEF RowOk
      <4>3. QED
        BY <4>1, <4>2
    <3>4. QED
      BY <3>2, <3>3
  <2>4. Becomes(h, "rmtree", job[h].op, job[h].name, job[h].todo,
                clear_check_source_sync(job[h].name), job[h].calm)
    BY <1>1, <1>3, UnlinkEffect
  <2>5. /\ job'[h].pc = "rmtree" /\ job'[h].name = s
        /\ job'[h].got = clear_check_source_sync(s)
    BY <2>1, <2>4 DEF Becomes
  <2>6. QED
    BY <2>3, <2>5 DEF RemovesAt, Removes
<1>4. CASE Rmtree(h) \/ DeleteRow(h)
  <2>1. GoesTo(h, "forget") \/ Reloads(h)
    BY <1>4 DEF Rmtree, DeleteRow
  <2>2. job'[h].pc = "forget" \/ job'[h].pc = "drop"
    BY <1>1, <2>1, GoesToPc, ReloadsPc
  <2>3. QED
    BY <2>2, NothingRemoved DEF RemovalPcs
<1>5. QED
  BY <1>2, <1>3, <1>4 DEF Forget

LEMMA ReloadRemoves ==
  ASSUME DirInv, NEW h \in Handlers, Reload(h)
  PROVE  RemovesAt(h)'
<1>1. Jobs /\ JobOk(job[h].pc, job[h].op, job[h].name, job[h].got)
  BY DEF DirInv, Base, JobOkAt
<1>2. CASE DropAuto(h) \/ DiscoverMd(h)
  <2>1. job'[h].pc = "list" \/ job'[h].pc = "loaded"
    BY <1>1, <1>2, GoesToPc DEF DropAuto, DiscoverMd
  <2>2. QED
    BY <2>1, NothingRemoved DEF RemovalPcs
<1>3. CASE Goes(h, Idle)
  <2>1. job'[h].pc = "idle"
    BY <1>1, <1>3, IdlePc
  <2>2. QED
    BY <2>1, NothingRemoved DEF RemovalPcs
<1>4. CASE ListModules(h)
  <2>1. job'[h].pc = "purge"
    BY <1>1, <1>4, ListModulesEffect DEF Becomes
  <2>2. QED
    BY <2>1, NothingRemoved DEF RemovalPcs
<1>5. CASE Goes(h, [job[h] EXCEPT !.pc = "paths", !.todo = {}])
  <2>1. job'[h].pc = "paths"
    BY <1>1, <1>5, PurgedEffect DEF Becomes
  <2>2. QED
    BY <2>1, NothingRemoved DEF RemovalPcs
<1>6. CASE SetPaths(h)
  <2>1. job'[h].pc = "import"
    BY <1>1, <1>6, SetPathsEffect DEF Becomes
  <2>2. QED
    BY <2>1, NothingRemoved DEF RemovalPcs
<1>7. ASSUME NEW i \in Ids, ImportOne(h, i), Goes(h, [job[h] EXCEPT !.todo = @ \ {i}])
      PROVE  RemovesAt(h)'
  <2>1. Becomes(h, job[h].pc, job[h].op, job[h].name, job[h].todo \ {i}, job[h].got, job[h].calm)
    BY <1>1, <1>7, ImportEffect
  <2>2. job'[h].pc = "import"
    BY <1>7, <2>1 DEF Becomes, ImportOne, At
  <2>3. QED
    BY <2>2, NothingRemoved DEF RemovalPcs
<1>8. CASE AfterLoad(h)
  <2>1. \/ Goes(h, Idle)
        \/ /\ job[h].op = "boot"
           /\ Goes(h, [job[h] EXCEPT !.pc = "sync", !.op = "reboot", !.todo = Sources])
        \/ Goes(h, [job[h] EXCEPT !.pc = "live", !.op = IF @ = "boot" THEN "reboot" ELSE @])
    BY <1>8 DEF AfterLoad
  <2>2. CASE /\ job[h].op = "boot"
             /\ Goes(h, [job[h] EXCEPT !.pc = "sync", !.op = "reboot", !.todo = Sources])
    <3>1. Becomes(h, "sync", "reboot", job[h].name, Sources, job[h].got, job[h].calm)
      BY <1>1, <2>2, BootSyncEffect
    <3>2. job'[h].pc = "sync" /\ job'[h].got = None
      BY <1>1, <2>2, <3>1 DEF Becomes, JobOk
    <3>3. QED
      BY <3>2 DEF RemovesAt, Removes
  <2>3. CASE Goes(h, [job[h] EXCEPT !.pc = "live", !.op = IF @ = "boot" THEN "reboot" ELSE @])
    <3>1. Becomes(h, "live", IF job[h].op = "boot" THEN "reboot" ELSE job[h].op, job[h].name,
                  job[h].todo, job[h].got, job[h].calm)
      BY <1>1, <2>3, LiveEffect
    <3>2. job'[h].pc = "live"
      BY <3>1 DEF Becomes
    <3>3. QED
      BY <3>2, NothingRemoved DEF RemovalPcs
  <2>4. QED
    BY <1>3, <2>1, <2>2, <2>3
<1>9. Purge(h) => Goes(h, [job[h] EXCEPT !.pc = "paths", !.todo = {}]) \/ Goes(h, Idle)
  BY DEF Purge, Fails
<1>10. \A i \in Ids : ImportOne(h, i) => Goes(h, [job[h] EXCEPT !.todo = @ \ {i}]) \/ Goes(h, Idle)
  BY DEF ImportOne, Fails
<1>11. QED
  BY <1>2, <1>3, <1>4, <1>5, <1>6, <1>7, <1>8, <1>9, <1>10 DEF Reload

LEMMA EditRemoves ==
  ASSUME DirInv, NEW h \in Handlers, Edit(h) \/ Requirements(h)
  PROVE  RemovesAt(h)'
<1>1. Jobs
  BY DEF DirInv, Base
<1>2. ASSUME NEW i \in Ids, MdSave(h, i)
      PROVE  RemovesAt(h)'
  <2>1. job'[h].pc = "drop"
    BY <1>1, <1>2, MdSaveEffect DEF Becomes
  <2>2. QED
    BY <2>1, NothingRemoved DEF RemovalPcs
<1>3. ASSUME NEW i \in Ids, NEW d \in syspath, AutoSave(h, i, d)
      PROVE  RemovesAt(h)'
  <2>1. PICK e : Goes(h, [Idle EXCEPT !.pc = "pop", !.op = "edit", !.name = i, !.calm = TRUE, !.got = e])
    BY <1>3 DEF AutoSave
  <2>2. job'[h].pc = "pop"
    BY <1>1, <2>1, AutoSaveEffect DEF Becomes
  <2>3. QED
    BY <2>2, NothingRemoved DEF RemovalPcs
<1>4. CASE Goes(h, [job[h] EXCEPT !.pc = "pop", !.op = "undo"])
  <2>1. job'[h].pc = "pop"
    BY <1>1, <1>4, UndoEffect DEF Becomes
  <2>2. QED
    BY <2>1, NothingRemoved DEF RemovalPcs
<1>5. CASE Goes(h, Idle)
  <2>1. job'[h].pc = "idle"
    BY <1>1, <1>5, IdlePc
  <2>2. QED
    BY <2>1, NothingRemoved DEF RemovalPcs
<1>6. ASSUME NEW pc \in {"exec", "edited", "rollback", "catalogs", "done"}, GoesTo(h, pc)
      PROVE  RemovesAt(h)'
  <2>1. job'[h].pc = pc
    BY <1>1, <1>6, GoesToPc
  <2>2. QED
    BY <1>6, <2>1, NothingRemoved DEF RemovalPcs
<1>7. QED
  BY <1>2, <1>3, <1>4, <1>5, <1>6
     DEF Edit, Requirements, Pop, Exec, Rollback, Edited, PurgeCatalogs, ImportCatalogs, Reply

\* A row with some of its fields replaced.
LEMMA RowsKept ==
  ASSUME Rows, rekinded \subseteq rekinded', NEW s \in Names, NEW r,
         row' = [row EXCEPT ![s] = r],
         r # None => /\ IsRow(r) /\ (r.checkout = "own" => UrlKind[s] = "path")
                     /\ s \notin rekinded' => r.kind = UrlKind[s]
  PROVE  Rows'
<1>1. row' = [t \in Names |-> row'[t]] /\ \A t \in Names : row'[t] = IF t = s THEN r ELSE row[t]
  BY DEF Rows
<1>2. QED
  BY <1>1 DEF Rows, RowOk

LEMMA SyncRows ==
  ASSUME DirInv, NEW h \in Handlers, SyncRecord(h), rekinded \subseteq rekinded'
  PROVE  Rows'
<1>1. PICK s, got : s = job[h].name /\ got = job[h].got
  OBVIOUS
<1>2. /\ got # None /\ got.ok \in BOOLEAN /\ got.checkout \in Checkouts
      /\ got.checkout = "own" => UrlKind[s] = "path"
  BY <1>1 DEF DirInv, RemovesAt, Removes, SyncRecord, At
<1>3. CASE row' = row
  BY <1>3 DEF DirInv, Rows, RowOk
<1>4. CASE s \in Names /\ row[s] # None
  <2>1. PICK j : j = row[s]
    OBVIOUS
  <2>2. RowOk(s, j) /\ j # None
    BY <1>4, <2>1 DEF DirInv, Rows
  <2>3. PICK co : co = IF got.checkout = "none" THEN j.checkout ELSE got.checkout
    OBVIOUS
  <2>4. PICK r : r = [j EXCEPT !.ok = got.ok, !.checkout = co]
    OBVIOUS
  <2>5. row' = [row EXCEPT ![s] = [j EXCEPT !.ok = got.ok, !.checkout = co]]
    BY <1>1, <1>4, <2>1, <2>2, <2>3 DEF SyncRecord, set_check_source_status, RowOk, IsRow, DirInv, Rows
  <2>6. r = [kind |-> j.kind, enabled |-> j.enabled, checkout |-> co, ok |-> got.ok]
    BY <2>2, <2>4 DEF RowOk, IsRow
  <2>7. RowOk(s, r)
    BY <1>2, <2>2, <2>3, <2>6 DEF RowOk, IsRow
  <2>8. QED
    BY <1>4, <2>4, <2>5, <2>7, RowsKept DEF DirInv, RowOk
<1>5. CASE s \notin Names /\ row[s] # None
  <2>1. row' = row
    BY <1>1, <1>5 DEF SyncRecord, set_check_source_status, DirInv, Rows
  <2>2. QED
    BY <1>3, <2>1
<1>6. QED
  BY <1>1, <1>3, <1>4, <1>5 DEF SyncRecord, set_check_source_status

LEMMA UnlinkRows ==
  ASSUME DirInv, NEW h \in Handlers, Unlink(h), rekinded \subseteq rekinded'
  PROVE  Rows'
<1>1. PICK s : s = job[h].name
  OBVIOUS
<1>2. s \in Names
  BY <1>1 DEF DirInv, RemovesAt, Removes, Unlink, At
<1>3. CASE row' = row
  BY <1>3 DEF DirInv, Rows, RowOk
<1>4. CASE row[s] # None
  <2>1. PICK j : j = row[s]
    OBVIOUS
  <2>2. RowOk(s, j) /\ j # None
    BY <1>2, <1>4, <2>1 DEF DirInv, Rows
  <2>3. row' = [row EXCEPT ![s] = [j EXCEPT !.ok = FALSE, !.checkout = "none"]]
    BY <1>1, <1>2, <1>4, <2>1 DEF Unlink, DirInv, Rows
  <2>4. PICK no : no = FALSE
    OBVIOUS
  <2>5. PICK r : r = [j EXCEPT !.ok = no, !.checkout = "none"]
    OBVIOUS
  <2>6. r = [kind |-> j.kind, enabled |-> j.enabled, checkout |-> "none", ok |-> no]
    BY <2>2, <2>5 DEF RowOk, IsRow
  <2>7. RowOk(s, r)
    BY <2>2, <2>4, <2>6 DEF RowOk, IsRow, Checkouts
  <2>8. row' = [row EXCEPT ![s] = r]
    BY <2>3, <2>4, <2>5
  <2>9. QED
    BY <1>2, <2>7, <2>8, RowsKept DEF DirInv, RowOk
<1>5. QED
  BY <1>1, <1>3, <1>4 DEF Unlink

LEMMA DeleteRows ==
  ASSUME DirInv, NEW h \in Handlers, DeleteRow(h), rekinded \subseteq rekinded'
  PROVE  Rows'
<1>1. PICK s : s = job[h].name
  OBVIOUS
<1>2. row' = [row EXCEPT ![s] = None]
  BY <1>1 DEF DeleteRow
<1>3. CASE s \in Names
  BY <1>2, <1>3, RowsKept DEF DirInv, RowOk
<1>4. CASE s \notin Names
  <2>1. row' = row
    BY <1>2, <1>4 DEF DirInv, Rows
  <2>2. QED
    BY <2>1 DEF DirInv, Rows, RowOk
<1>5. QED
  BY <1>3, <1>4

\* A source is registered or edited.
LEMMA UpsertRows ==
  ASSUME DirInv, NEW s \in Names, NEW kind \in {"git", "path"}, NEW enabled \in BOOLEAN,
         UpsertSource(s, kind, enabled)
  PROVE  Rows'
<1>1. rekinded \subseteq rekinded' /\ (s \notin rekinded' => kind = UrlKind[s])
  BY DEF UpsertSource
<1>2. CASE row[s] = None
  <2>1. PICK j : j = NewRow(kind)
    OBVIOUS
  <2>2. IsRow(j) /\ j.kind = kind /\ j.checkout = "none"
    BY <2>1 DEF NewRow, IsRow, Checkouts
  <2>3. PICK r : r = [j EXCEPT !.enabled = enabled]
    OBVIOUS
  <2>4. r = [kind |-> j.kind, enabled |-> enabled, checkout |-> j.checkout, ok |-> j.ok]
    BY <2>2, <2>3 DEF IsRow
  <2>5. IsRow(r) /\ r.kind = kind /\ r.checkout = "none"
    BY <2>2, <2>4 DEF IsRow
  <2>6. row' = [row EXCEPT ![s] = r]
    BY <1>2, <2>1, <2>3 DEF UpsertSource
  <2>7. QED
    BY <1>1, <2>5, <2>6, RowsKept DEF DirInv
<1>3. CASE row[s] # None
  <2>1. PICK j : j = row[s]
    OBVIOUS
  <2>2. RowOk(s, j) /\ j # None
    BY <1>3, <2>1 DEF DirInv, Rows
  <2>3. PICK on : on = enabled
    OBVIOUS
  <2>4. PICK r : r = [j EXCEPT !.kind = kind, !.enabled = on]
    OBVIOUS
  <2>5. r = [kind |-> kind, enabled |-> on, checkout |-> j.checkout, ok |-> j.ok]
    BY <2>2, <2>4 DEF RowOk, IsRow
  <2>6. /\ r.kind = kind /\ r.enabled = on /\ r.checkout = j.checkout /\ r.ok = j.ok
        /\ r = [kind |-> r.kind, enabled |-> r.enabled, checkout |-> r.checkout, ok |-> r.ok]
    BY <2>5
  <2>7. IsRow(r) /\ (r.checkout = "own" => UrlKind[s] = "path")
    BY <2>2, <2>3, <2>6 DEF RowOk, IsRow
  <2>8. row' = [row EXCEPT ![s] = [j EXCEPT !.kind = kind, !.enabled = enabled]]
    BY <1>3, <2>1 DEF UpsertSource, DirInv, Rows
  <2>9. row' = [row EXCEPT ![s] = r]
    BY <2>3, <2>4, <2>8
  <2>10. QED
    BY <1>1, <2>6, <2>7, <2>9, RowsKept DEF DirInv
<1>4. QED
  BY <1>2, <1>3

LEMMA DirStep ==
  DirInv /\ [Next]_vars => DirInv'
<1> SUFFICES ASSUME DirInv, [Next]_vars
             PROVE  DirInv'
  OBVIOUS
<1>1. Base /\ Base' /\ Jobs /\ rekinded \subseteq rekinded'
  BY BaseStep, RekindedGrows DEF DirInv, Base
<1>2. ASSUME NEW h \in Handlers, Sync(h) \/ Forget(h) \/ Reload(h) \/ Requirements(h) \/ Edit(h)
      PROVE  \A g \in Handlers : RemovesAt(g)'
  <2>1. OkAfter(h)
    BY <1>1, <1>2, SyncOk, ForgetOk, ReloadOk, RequirementsOk, EditOk
  <2>2. RemovesAt(h)'
    BY <1>1, <1>2, SyncRemoves, ForgetRemoves, ReloadRemoves, EditRemoves
  <2>3. ASSUME NEW g \in Handlers, g # h
        PROVE  RemovesAt(g)'
    BY <1>1, <2>1, <2>3 DEF OkAfter, Disturbed, RemovesAt, Removes, DirInv
  <2>4. QED
    BY <2>2, <2>3
<1>3. ASSUME World
      PROVE  \A g \in Handlers : RemovesAt(g)'
  <2>1. CASE Disturb
    <3>1. \A g \in Handlers : Disturbed(g)
      BY <1>1, <2>1, DisturbsAll
    <3>2. QED
      BY <1>1, <3>1 DEF Disturbed, RemovesAt, Removes, DirInv
  <2>2. ASSUME NEW h \in Handlers, Restart(h)
        PROVE  \A g \in Handlers : RemovesAt(g)'
    <3>1. PICK q : q = Idle
      OBVIOUS
    <3>2. PICK r : r = [Idle EXCEPT !.pc = "paths", !.op = "boot", !.calm = TRUE]
      OBVIOUS
    <3>3. r.pc = "paths" /\ q.pc = "idle"
      BY <3>1, <3>2 DEF Idle
    <3>4. \A g \in Handlers : job'[g] = r \/ job'[g] = q
      BY <2>2, <3>1, <3>2 DEF Restart
    <3>5. QED
      BY <3>3, <3>4 DEF RemovesAt, Removes
  <2>3. QED
    BY <1>3, <2>1, <2>2 DEF World, Work, UpsertSource, EditCatalog, OtherSave
<1>4. CASE Next /\ row' = row
  BY <1>1, <1>2, <1>3, <1>4 DEF Next, DirInv, Rows, RowOk
<1>5. CASE Next /\ row' # row
  <2>1. \/ \E h \in Handlers : SyncRecord(h) \/ Unlink(h) \/ DeleteRow(h)
        \/ \E s \in Names, kind \in {"git", "path"}, enabled \in BOOLEAN : UpsertSource(s, kind, enabled)
    <3>1. ASSUME NEW h \in Handlers, Sync(h), ~SyncRecord(h)
          PROVE  row' = row
      BY <3>1 DEF Sync, Begin, SyncDone, SyncFetch
    <3>2. ASSUME NEW h \in Handlers, Forget(h), ~Unlink(h), ~DeleteRow(h)
          PROVE  row' = row
      BY <3>2 DEF Forget, Begin, Rmtree
    <3>3. ASSUME NEW h \in Handlers, Reload(h)
          PROVE  row' = row
      BY <3>3 DEF Reload, DropAuto, ListModules, Purge, SetPaths, ImportOne, DiscoverMd, AfterLoad
    <3>4. ASSUME NEW h \in Handlers, Requirements(h) \/ Edit(h)
          PROVE  row' = row
      BY <3>4 DEF Requirements, PurgeCatalogs, ImportCatalogs, Reply, Edit, MdSave, AutoSave, Pop, Exec,
                  Rollback, Edited
    <3>5. World /\ row' # row =>
            \E s \in Names, kind \in {"git", "path"}, enabled \in BOOLEAN : UpsertSource(s, kind, enabled)
      BY DEF World, Work, EditCatalog, OtherSave, Restart
    <3>6. QED
      BY <1>5, <3>1, <3>2, <3>3, <3>4, <3>5 DEF Next
  <2>2. Rows'
    BY <1>1, <2>1, SyncRows, UnlinkRows, DeleteRows, UpsertRows
  <2>3. QED
    BY <1>1, <1>2, <1>3, <1>5, <2>2 DEF Next, DirInv
<1>6. CASE UNCHANGED vars
  <2>1. row' = row /\ job' = job /\ rekinded' = rekinded
    BY <1>6 DEF vars
  <2>2. QED
    BY <1>1, <2>1 DEF DirInv, Rows, RowOk, RemovesAt, Removes
<1>7. QED
  BY <1>4, <1>5, <1>6

LEMMA DirInit ==
  Init => DirInv
<1>1. Init => Rows /\ \A h \in Handlers : RemovesAt(h)
  BY DEF Init, Idle, Rows, RowOk, RemovesAt, Removes
<1>2. QED
  BY <1>1, BaseInit DEF DirInv

\* A file written is one of a version.
LEMMA WritesVersion ==
  ASSUME NEW d, NEW w, w # None, Write(d, w), Files, NEW s \in Names, origin[s] # None
  PROVE  origin'[s] # None
BY DEF Write, Files

LEMMA DirsStay ==
  ASSUME DirInv, [Next]_vars, NEW s \in Names \ rekinded, origin[s] # None
  PROVE  origin'[s] # None
<1>1. Files
  BY DEF DirInv, Base
<1>2. CASE origin' = origin
  BY <1>2
<1>3. ASSUME NEW h \in Handlers, Rmtree(h)
      PROVE  origin'[s] # None
  BY <1>1, <1>3 DEF DirInv, RemovesAt, Removes, Rmtree, At, Files
<1>4. ASSUME NEW h \in Handlers, NEW i \in Ids, NEW d \in syspath, AutoSave(h, i, d)
      PROVE  origin'[s] # None
  <2>1. PICK w \in Edits(i, VersionIn(d)) : Write(d, w)
    BY <1>4 DEF AutoSave
  <2>2. w # None
    BY CheckSourcesAssumption DEF Edits
  <2>3. QED
    BY <1>1, <2>1, <2>2, WritesVersion
<1>5. ASSUME NEW h \in Handlers, Rollback(h)
      PROVE  origin'[s] # None
  <2> DEFINE i == job[h].name
  <2>1. PICK e : e = job[h].got
    OBVIOUS
  <2>2. IsEdit(i, e)
    BY <1>5, <2>1 DEF DirInv, Base, JobOkAt, JobOk, EditPcs, Rollback, At
  <2>3. CASE VersionIn(e.dir) # None
    <3>1. PICK w : /\ w = e.old \/ w \in Edits(i, VersionIn(e.dir)) \/ w = VersionIn(e.dir)
                   /\ Write(e.dir, w)
      BY <1>5, <2>1, <2>3 DEF Rollback
    <3>2. w # None
      BY <2>2, <2>3, <3>1, CheckSourcesAssumption DEF IsEdit, Edits
    <3>3. QED
      BY <1>1, <3>1, <3>2, WritesVersion
  <2>4. CASE VersionIn(e.dir) = None
    BY <1>5, <2>1, <2>4 DEF Rollback, files
  <2>5. QED
    BY <2>3, <2>4
<1>6. ASSUME NEW t \in Names, Work(t)
      PROVE  origin'[s] # None
  <2>1. PICK v \in Versions[t] : origin' = [origin EXCEPT ![t] = v]
    BY <1>6 DEF Work
  <2>2. v # None
    BY CheckSourcesAssumption DEF AllVersions
  <2>3. QED
    BY <1>1, <2>1, <2>2 DEF Files
<1>7. ASSUME NEW h \in Handlers, Sync(h) \/ Reload(h) \/ Requirements(h)
      PROVE  origin' = origin
  BY <1>7 DEF Sync, Begin, SyncRecord, SyncDone, SyncFetch, Reload, DropAuto, ListModules, Purge, SetPaths,
              ImportOne, DiscoverMd, AfterLoad, Requirements, PurgeCatalogs, ImportCatalogs, Reply, files
<1>8. ASSUME NEW h \in Handlers, Forget(h), ~Rmtree(h)
      PROVE  origin' = origin
  BY <1>8 DEF Forget, Begin, Unlink, DeleteRow, files
<1>9. ASSUME NEW h \in Handlers, Edit(h), ~Rollback(h), \A i \in Ids, d \in syspath : ~AutoSave(h, i, d)
      PROVE  origin' = origin
  BY <1>9 DEF Edit, MdSave, Pop, Exec, Edited, files
<1>10. ASSUME World, \A t \in Names : ~Work(t)
       PROVE  origin' = origin
  BY <1>10 DEF World, UpsertSource, EditCatalog, OtherSave, Restart, files
<1>11. CASE UNCHANGED vars
  BY <1>2, <1>11 DEF vars, files
<1>12. QED
  BY <1>2, <1>3, <1>4, <1>5, <1>6, <1>7, <1>8, <1>9, <1>10, <1>11 DEF Next

\* A name whose kind has always been that of its url keeps the user's directory: only what
\* was synced as one is removed as one, and only when the row says git by then.
THEOREM OwnDirsAreKept == Spec => OwnDirKept
<1>1. Init => DirInv
  BY DirInit
<1>2. DirInv /\ [Next]_vars => DirInv'
  BY DirStep
<1>3. DirInv /\ [Next]_vars =>
        [\A s \in Names \ rekinded : origin[s] # None => origin'[s] # None]_vars
  BY DirsStay
<1>4. QED
  BY <1>1, <1>2, <1>3, PTL DEF Spec, OwnDirKept

-----------------------------------------------------------------------------
(* Types *)

Sets == modules \subseteq Ids /\ md_ids \subseteq Ids
Flags == store_tx \in BOOLEAN /\ up \in BOOLEAN

LEMMA FlagsStep ==
  ASSUME Flags, [Next]_vars
  PROVE  Flags'
<1>1. ASSUME NEW h \in Handlers, Sync(h) \/ Forget(h)
      PROVE  Flags'
  BY <1>1 DEF Flags, Sync, Begin, SyncRecord, SyncDone, SyncFetch, Forget, Unlink, Rmtree, DeleteRow
<1>2. ASSUME NEW h \in Handlers, Reload(h)
      PROVE  Flags'
  BY <1>2 DEF Flags, Reload, DropAuto, ListModules, Purge, SetPaths, ImportOne, DiscoverMd, AfterLoad, Fails
<1>3. ASSUME NEW h \in Handlers, Requirements(h) \/ Edit(h)
      PROVE  Flags'
  BY <1>3 DEF Flags, Requirements, PurgeCatalogs, ImportCatalogs, Reply, Edit, MdSave, AutoSave, Pop, Exec,
              Rollback, Edited
<1>4. CASE World
  BY <1>4 DEF Flags, World, Work, UpsertSource, EditCatalog, OtherSave, Restart
<1>5. CASE UNCHANGED vars
  BY <1>5 DEF Flags, vars
<1>6. QED
  BY <1>1, <1>2, <1>3, <1>4, <1>5 DEF Next

\* What is in sys.modules and in _MD_IDS are checks: an edit in hand is of one.
LEMMA SetsStep ==
  ASSUME Base, Sets, [Next]_vars
  PROVE  Sets'
<1>1. ASSUME NEW h \in Handlers, Sync(h) \/ Forget(h) \/ Requirements(h)
      PROVE  Sets'
  BY <1>1 DEF Sets, Sync, Begin, SyncRecord, SyncDone, SyncFetch, Forget, Unlink, Rmtree, DeleteRow, loaded,
              Requirements, PurgeCatalogs, ImportCatalogs, Reply
<1>2. ASSUME NEW h \in Handlers, Reload(h)
      PROVE  Sets'
  BY <1>2 DEF Sets, Reload, DropAuto, ListModules, Purge, SetPaths, ImportOne, DiscoverMd, AfterLoad, loaded
<1>3. ASSUME NEW h \in Handlers, Exec(h)
      PROVE  Sets'
  <2>1. job[h].name \in Ids
    BY <1>3 DEF Base, JobOkAt, JobOk, EditPcs, IsEdit, Exec, At
  <2>2. QED
    BY <1>3, <2>1 DEF Sets, Exec
<1>4. ASSUME NEW h \in Handlers, Edit(h), ~Exec(h)
      PROVE  Sets'
  BY <1>4 DEF Sets, Edit, MdSave, AutoSave, Pop, Rollback, Edited, loaded
<1>5. CASE World
  BY <1>5 DEF Sets, World, Work, UpsertSource, EditCatalog, OtherSave, Restart, loaded
<1>6. CASE UNCHANGED vars
  BY <1>6 DEF Sets, vars, loaded
<1>7. QED
  BY <1>1, <1>2, <1>3, <1>4, <1>5, <1>6 DEF Next

LEMMA DirTypes ==
  ASSUME DirInv, Sets, Flags
  PROVE  TypeOK
<1>1. ASSUME NEW s \in Names, row[s] # None
      PROVE  row[s] \in Row
  <2>1. PICK r : r = row[s]
    OBVIOUS
  <2>2. IsRow(r)
    BY <1>1, <2>1 DEF DirInv, Rows, RowOk
  <2>3. QED
    BY <2>1, <2>2 DEF IsRow, Row, Checkouts
<1>2. row \in [Names -> Row \cup {None}]
  BY <1>1 DEF DirInv, Rows
<1>3. \A i \in Ids : REGISTRY[i] = None \/ REGISTRY[i].how \in {"auto", "manual"}
  BY DEF DirInv, Base, Registered
<1>4. QED
  BY <1>2, <1>3 DEF TypeOK, Sets, Flags

\* Rows, loaded modules, manual ids and registered checks keep their types, whatever
\* requests, edits and restarts do (TypeOK).
THEOREM SourcesAreTyped == Spec => []TypeOK
<1>1. Init => DirInv /\ Sets /\ Flags
  <2>1. Init => Sets /\ Flags
    BY DEF Init, Sets, Flags
  <2>2. QED
    BY <2>1, DirInit
<1>2. DirInv /\ Sets /\ Flags /\ [Next]_vars => (DirInv /\ Sets /\ Flags)'
  BY DirStep, SetsStep, FlagsStep DEF DirInv
<1>3. DirInv /\ Sets /\ Flags => TypeOK
  BY DirTypes
<1>4. QED
  BY <1>1, <1>2, <1>3, PTL DEF Spec

=============================================================================
