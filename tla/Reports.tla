------------------------------- MODULE Reports -------------------------------
(***************************************************************************)
(* Reports (core/report.py, the report endpoints of web/server.py, the     *)
(* report table of store/repo.py): how a finished pilot run becomes lines  *)
(* of the history runs.jsonl, files in runs/<id> and a row of the table,   *)
(* who may see and change the row, and what a report shows.                *)
(*                                                                         *)
(* The lines are buffered: a crash can leave any prefix of them, and half  *)
(* a line.  The file is a sequence of pieces, each a whole line or the     *)
(* head of one, without a newline.                                         *)
(***************************************************************************)
EXTENDS Accounts, Sequences, SequencesExt

CONSTANTS
  Outcomes, \* what runs come to: the checks there are records of, and the tests of each
            \* requirement, by the map of the suite or else by what the tests declare
  Ids,      \* run ids: the clock in milliseconds, which can be set back
  Uploads,  \* stores of other servers that an admin may restore: their users and reports
  MaxRuns   \* bound: pilot runs in a behaviour

VARIABLES
  run,       \* the run that is being written up, or None; todo are its lines still to go
  ran,       \* every run so far: its id, who started it and what it came to
  file,      \* runs.jsonl
  artifact,  \* id -> the run whose report.md and results.json are in runs/<id>, or None
  row,       \* the report table: id -> None or its row, of the run it is about (0: a run
             \* of another server); the map in it is the run's
  snap,      \* the last backup of the store, or None
  published  \* history: the ids of reports that someone who may has made public since they
             \* were entered, or that came so from another server

Row == [owner : Users, visibility : {"private", "public"}, run : 0 .. MaxRuns]
Foreign == {r \in Row : r.run = 0}

ASSUME ReportsAssumption ==
  /\ MaxRuns \in Nat
  /\ \A outcome \in Outcomes : IsFiniteSet(outcome.checks)
  /\ Uploads \subseteq [role : [Users -> {"none", "user", "admin"}],
                        row : [Ids -> Foreign \cup {None}]]

vars == <<accounts, run, ran, file, artifact, row, snap, published>>

Runs == 1 .. Len(ran)

Past == [id : Ids, owner : Users, checks : {outcome.checks : outcome \in Outcomes},
         tests : {outcome.tests : outcome \in Outcomes}]

TypeOK ==
  /\ AccountsTypeOK
  /\ ran \in Seq(Past) /\ Len(ran) <= MaxRuns
  /\ row \in [Ids -> Row \cup {None}]
  /\ artifact \in [Ids -> Runs \cup {None}]
  /\ published \subseteq Ids

Init ==
  /\ AccountsInit
  /\ run = None /\ ran = <<>> /\ file = <<>> /\ snap = None /\ published = {}
  /\ artifact = [i \in Ids |-> None] /\ row = [i \in Ids |-> None]

-----------------------------------------------------------------------------
(* The end of a run *)

Piece(check, part) == [run |-> Len(ran), check |-> check, part |-> part]

\* A run that was started with token t has come to its end with records of some checks: its
\* report is attributed to the user of t.
EndRun(t, i, outcome) ==
  /\ run = None /\ Len(ran) < MaxRuns /\ t \in Logins
  /\ ran' = Append(ran, [id |-> i, owner |-> tokens[t].username,
                         checks |-> outcome.checks, tests |-> outcome.tests])
  /\ run' = [todo |-> SetToSeq(outcome.checks), pc |-> "append"]
  /\ UNCHANGED <<accounts, file, artifact, row, snap, published>>

\* report.write appends a line to the history ...
AppendLine ==
  /\ run # None /\ run.pc = "append" /\ run.todo # <<>>
  /\ file' = Append(file, Piece(Head(run.todo), "whole"))
  /\ run' = [run EXCEPT !.todo = Tail(@)]
  /\ UNCHANGED <<accounts, ran, artifact, row, snap, published>>

\* ... or the buffer was full in the middle of one.
AppendHead ==
  /\ run # None /\ run.pc = "append" /\ run.todo # <<>>
  /\ file' = Append(file, Piece(Head(run.todo), "head"))
  /\ run' = [run EXCEPT !.pc = "half"]
  /\ UNCHANGED <<accounts, ran, artifact, row, snap, published>>

AppendTail ==
  /\ run # None /\ run.pc = "half"
  /\ file' = [file EXCEPT ![Len(file)] = Piece(Head(run.todo), "whole")]
  /\ run' = [todo |-> Tail(run.todo), pc |-> "append"]
  /\ UNCHANGED <<accounts, ran, artifact, row, snap, published>>

\* The matrix, the findings and the report are rendered into runs/<id>, from the records of
\* the run that are at hand and not from the history.
Render ==
  /\ run # None /\ run.pc = "append" /\ run.todo = <<>>
  /\ artifact' = [artifact EXCEPT ![ran[Len(ran)].id] = Len(ran)]
  /\ run' = [run EXCEPT !.pc = "row"]
  /\ UNCHANGED <<accounts, ran, file, row, snap, published>>

\* Rendering raises: the run ends with an error event and no row.
RenderFails ==
  /\ run # None /\ run.pc = "append" /\ run.todo = <<>>
  /\ run' = None
  /\ UNCHANGED <<accounts, ran, file, artifact, row, snap, published>>

\* Mutant: the row is entered before the records are written.
add_reportEarly ==
  /\ run # None /\ row[ran[Len(ran)].id] = None
  /\ row' = [row EXCEPT ![ran[Len(ran)].id] =
               [owner |-> ran[Len(ran)].owner, run |-> Len(ran), visibility |-> "private"]]
  /\ UNCHANGED <<accounts, run, ran, file, artifact, snap, published>>

\* A row with the run's id is taken over, its visibility kept.
add_report ==
  /\ run # None /\ run.pc = "row"
  /\ LET i == ran[Len(ran)].id IN
     row' = [row EXCEPT ![i] =
       [owner |-> ran[Len(ran)].owner, run |-> Len(ran),
        visibility |-> IF row[i] = None THEN "private" ELSE row[i].visibility]]
  /\ run' = None
  /\ UNCHANGED <<accounts, ran, file, artifact, snap, published>>

\* add_report raises (another connection holds the database): nobody is told.
add_report_fails ==
  /\ run # None /\ run.pc = "row"
  /\ run' = None
  /\ UNCHANGED <<accounts, ran, file, artifact, row, snap, published>>

-----------------------------------------------------------------------------
(* Reading *)

\* json.loads is called on every line: one that does not parse fails the whole reading, and
\* what follows the head of a line is on the same line.
Readable == \A k \in 1 .. Len(file) : file[k].part = "whole"

\* The lines with the id, as positions in the file.
_records_of(i) ==
  {k \in 1 .. Len(file) : file[k].part = "whole" /\ ran[file[k].run].id = i}

\* list_reports, get_report: to its owner and to admins, and to everyone when public.
get_report(i, t) ==
  /\ row[i] # None /\ t \in Logins
  /\ row[i].owner = tokens[t].username \/ tokens[t].is_admin \/ row[i].visibility = "public"

RecordsOf(n) == {[run |-> n, check |-> c] : c \in ran[n].checks}

\* _requirement_blocks: what the renderers show, under each requirement the records of its
\* tests.  The record of a test of no requirement is nowhere, of two is in both.
_requirement_blocks(records, tests) ==
  [r \in DOMAIN tests |-> {x \in records : x.check \in tests[r]}]

\* The report page reads the records out of the history, and so does an export as JSON ...
report_get(i) == {[run |-> file[k].run, check |-> file[k].check] : k \in _records_of(i)}

\* ... while one as md or html is the file of the run, or is rendered again.
report_export(i) ==
  IF artifact[i] # None
    THEN _requirement_blocks(RecordsOf(artifact[i]), ran[artifact[i]].tests)
    ELSE _requirement_blocks(report_get(i), ran[row[i].run].tests)

-----------------------------------------------------------------------------
(* Requests *)

MayChange(i, t) ==
  /\ row[i] # None /\ t \in Logins
  /\ row[i].owner = tokens[t].username \/ tokens[t].is_admin

\* Who started the run that a row is about.
Starter(r) == IF r.run = 0 THEN r.owner ELSE ran[r.run].owner

Publishes(i, t, v) ==
  IF v = "public" /\ (Starter(row[i]) = tokens[t].username \/ tokens[t].is_admin)
    THEN published \cup {i} ELSE published

\* Mutant: whoever sees a report may publish or hide it.
set_report_visibilityAnyone(i, t, v) ==
  /\ row[i] # None /\ t \in Logins
  /\ row' = [row EXCEPT ![i].visibility = v]
  /\ published' = Publishes(i, t, v)
  /\ UNCHANGED <<accounts, run, ran, file, artifact, snap>>

set_report_visibility(i, t, v) ==
  /\ MayChange(i, t)
  /\ row' = [row EXCEPT ![i].visibility = v]
  /\ published' = Publishes(i, t, v)
  /\ UNCHANGED <<accounts, run, ran, file, artifact, snap>>

\* The records and the files of the run stay.
delete_report(i, t) ==
  /\ MayChange(i, t)
  /\ row' = [row EXCEPT ![i] = None]
  /\ published' = published \ {i}
  /\ UNCHANGED <<accounts, run, ran, file, artifact, snap>>

backup(t) ==
  /\ IsAdmin(t)
  /\ snap' = [role |-> role, row |-> row, published |-> published]
  /\ UNCHANGED <<accounts, run, ran, file, artifact, row, published>>

\* Users and reports are those of the store; logins, the history and the files are not in it.
Restored(store) ==
  /\ RestoreUsers(store.role)
  /\ row' = store.row
  /\ UNCHANGED <<run, ran, file, artifact, snap>>

restore(t) ==
  /\ IsAdmin(t) /\ snap # None
  /\ Restored(snap) /\ published' = snap.published

\* Any upload with the tables of a store will do: "moving a server".
restore_upload(t, store) ==
  /\ IsAdmin(t)
  /\ Restored(store)
  /\ published' = {i \in Ids : store.row[i] # None /\ store.row[i].visibility = "public"}

\* The server stops anywhere, and starts again.
Restart ==
  /\ RestartAccounts
  /\ run' = None
  /\ UNCHANGED <<ran, file, artifact, row, snap, published>>

Next ==
  \/ AccountStep /\ UNCHANGED <<run, ran, file, artifact, row, snap, published>>
  \/ \E t \in Tokens, i \in Ids, outcome \in Outcomes : EndRun(t, i, outcome)
  \/ AppendLine \/ AppendHead \/ AppendTail \/ Render \/ RenderFails
  \/ add_report \/ add_report_fails
  \/ \E i \in Ids, t \in Tokens :
       \/ \E v \in {"private", "public"} : set_report_visibility(i, t, v)
       \/ delete_report(i, t)
  \/ \E t \in Tokens : backup(t) \/ restore(t) \/ \E store \in Uploads : restore_upload(t, store)
  \/ Restart

Spec == Init /\ [][Next]_vars

-----------------------------------------------------------------------------
(* Properties *)

\* The clock gave the id to one run only.
Once(i) == \A m, n \in Runs : ran[m].id = i /\ ran[n].id = i => m = n

\* A report of this server that is listed is complete whenever the history can be read at
\* all: its page and its export as JSON show each record of its run once and no other's, and
\* md and html under each requirement the records of its tests; for good, through failures,
\* crashes, deletions and restores (server.py:299-313).
ReportIsComplete ==
  \A i \in Ids : row[i] # None /\ row[i].run # 0 /\ Once(i) /\ Readable =>
    LET n == row[i].run IN
    /\ report_get(i) = RecordsOf(n) /\ Cardinality(_records_of(i)) = Cardinality(ran[n].checks)
    /\ report_export(i) = _requirement_blocks(RecordsOf(n), ran[n].tests)

\* A login that was not an admin's sees the report of another's run only when the login of
\* its owner or of an admin has made its id public since it was entered, or it came so from
\* another server; a later run with its id takes that over (server.py:934 "owned +
\* private/public", repo.py:433-444).
OthersSeeThePublished ==
  \A i \in Ids, t \in Logins :
    get_report(i, t) /\ ~tokens[t].is_admin /\ Starter(row[i]) # tokens[t].username
      => i \in published

=============================================================================
