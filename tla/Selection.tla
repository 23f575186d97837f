------------------------------ MODULE Selection ------------------------------
(***************************************************************************)
(* Which checks a suite selects, in which order, and how the records of a  *)
(* run are rolled up per requirement (core/registry.py, core/report.py).   *)
(*                                                                         *)
(* A suite of kind "map" is a sequence of requirements, each with the      *)
(* sequence of its tests and a fallback for a requirement without any; one *)
(* of kind "ids" includes and excludes checks.  Filters by requirement are *)
(* left out: no check registers requirements of its own.                   *)
(***************************************************************************)
EXTENDS Naturals, Sequences, SequencesExt

CONSTANTS
  CheckModel,   \* id -> the model a check is for, AnyModel for a common one
  AnyModel

\* What of a sequence is in a set, in order.
Only(seq, T) ==
  LET kept[n \in 0..Len(seq)] ==
        IF n = 0 THEN <<>>
        ELSE IF seq[n] \in T THEN Append(kept[n - 1], seq[n]) ELSE kept[n - 1]
  IN  kept[Len(seq)]

InSome(reqs) == FlattenSeq([i \in DOMAIN reqs |-> reqs[i].tests])

\* The ids of a map: requirements from the top, their tests in order, the
\* first occurrence of each.
OrderedIds(reqs) ==
  LET all == InSome(reqs)
      first == {i \in DOMAIN all : \A j \in 1..(i - 1) : all[j] # all[i]}
      places == Only([i \in DOMAIN all |-> i], first)
  IN  [k \in DOMAIN places |-> all[places[k]]]

\* A check for one model never runs for another.
ModelFits(id, model) == model = AnyModel \/ CheckModel[id] \in {AnyModel, model}

\* select(ids, model), in the order of the registry.  A named check may be
\* disruptive.
select(registry, ids, model) ==
  Only(registry, {id \in ids : id \in ToSet(registry) /\ ModelFits(id, model)})

resolve_selection(registry, suite) ==
  IF suite.kind = "map"
    THEN LET ids == OrderedIds(suite.reqs)
             found == ToSet(select(registry, ToSet(ids), suite.model))
         IN  Only(ids, found)
    ELSE Only(select(registry, ToSet(suite.include), suite.model), ToSet(registry) \ suite.exclude)

VerdictsOf(records, id, board) ==
  {records[i].verdict : i \in {k \in DOMAIN records : records[k].check = id /\ records[k].board = board}}

\* Mutant: a test that did not run does not count.
cellLenient(req, board, records) ==
  IF req.tests = <<>> THEN req.fallback
  ELSE IF \A id \in ToSet(req.tests) : VerdictsOf(records, id, board) \subseteq {"pass"}
         THEN "pass" ELSE "gap"

\* requirement_verdicts, for one requirement and board.
cell(req, board, records) ==
  IF req.tests = <<>> THEN req.fallback
  ELSE IF \A id \in ToSet(req.tests) : VerdictsOf(records, id, board) = {"pass"}
         THEN "pass" ELSE "gap"

\* The boards a roll-up speaks of are those with records.
requirement_verdicts(reqs, records) ==
  LET boards == {records[i].board : i \in DOMAIN records}
  IN  [c \in (DOMAIN reqs) \X boards |-> cell(reqs[c[1]], c[2], records)]

Severity == <<"gap", "error", "manual">>

\* _cell: several states shown as one.
_cell(verdicts) ==
  LET worst == Only(Severity, verdicts)
  IN  CASE verdicts = {} -> "notrun"
        [] worst # <<>> -> Head(worst)
        [] verdicts \in {{"pass"}, {"na"}} -> CHOOSE v \in verdicts : TRUE
        [] OTHER -> "partial"

\* _requirement_blocks for a map: what the report says of each requirement overall.  (The
\* blocks of a suite without a map come from requirements no check registers.)
_requirement_blocks(reqs, records) ==
  LET cells == requirement_verdicts(reqs, records)
  IN  [r \in DOMAIN reqs |-> _cell({cells[c] : c \in {d \in DOMAIN cells : d[1] = r}})]

=============================================================================
