---------------------------- MODULE ResourceLocks ----------------------------
(***************************************************************************)
(* The lock table of web/locks.py (class ResourceLocks).  A resource is    *)
(* `board:<name>` or `agent:<name>`; the table maps it to the id of the    *)
(* run that holds it.  Each method body runs under one threading.Lock, so  *)
(* each is one step.  The holder's label and the time of the grant are     *)
(* display data and are left out.                                          *)
(***************************************************************************)

CONSTANTS Resources,   \* every resource name a bench can give rise to
          RunIds,      \* the ids runs lock under
          NoRun        \* "not in the table"

VARIABLE held          \* ResourceLocks._held

LocksTypeOK == held \in [Resources -> RunIds \cup {NoRun}]

LocksInit == held = [r \in Resources |-> NoRun]

\* Mutant: "any held" read as "all held".
ConflictIfAllHeld(res, id) ==
  IF \A r \in res : held[r] \notin {NoRun, id} THEN res ELSE {}

\* What stops run `id` from taking `res`.  A resource the same id already
\* holds is not a conflict.
Conflict(res, id) == {r \in res : held[r] \notin {NoRun, id}}

HeldBy(id) == {r \in Resources : held[r] = id}

\* Mutant: the conflicts are computed and ignored.
AcquireUnchecked(res, id) ==
  held' = [r \in Resources |-> IF r \in res THEN id ELSE held[r]]

\* acquire: all of res or nothing.
Acquire(res, id) ==
  /\ Conflict(res, id) = {}
  /\ held' = [r \in Resources |-> IF r \in res THEN id ELSE held[r]]

Reject(res, id) ==
  /\ Conflict(res, id) # {}
  /\ UNCHANGED held

\* Mutant: one resource is released, not every one the run holds.
ReleaseOne(id) ==
  held' = IF HeldBy(id) = {} THEN held
                             ELSE [held EXCEPT ![CHOOSE r \in HeldBy(id) : TRUE] = NoRun]

\* release: only what the id still holds.
Release(id) ==
  held' = [r \in Resources |-> IF held[r] = id THEN NoRun ELSE held[r]]

\* Mutant: the forced unlock clears the whole table.
ForceReleaseAll(res) == held' = [r \in Resources |-> NoRun]

\* force_release: whoever holds it.
ForceRelease(res) == held' = [held EXCEPT ![res] = NoRun]

=============================================================================
