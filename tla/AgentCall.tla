------------------------------- MODULE AgentCall -------------------------------
(***************************************************************************)
(* What a caller of a developer's agent is promised: the agent executes a  *)
(* command at most once and only after it was asked for, and an answer is  *)
(* the answer to an execution, unless the request is one that the server   *)
(* may answer from what it has.  A caller may give up before, while or     *)
(* after the agent executes.                                               *)
(***************************************************************************)
EXTENDS Naturals

CONSTANTS Requests,
          Cached     \* those that need not be answered by the agent

VARIABLES phase,   \* request -> where its caller is
          runs     \* request -> how often an agent executed it

Init ==
  /\ phase = [r \in Requests |-> "open"]
  /\ runs = [r \in Requests |-> 0]

Ask(r) ==
  /\ phase[r] = "open"
  /\ phase' = [phase EXCEPT ![r] = "waiting"]
  /\ UNCHANGED runs

Execute(r) ==
  /\ phase[r] # "open" /\ phase[r] # "answered" /\ runs[r] = 0
  /\ runs' = [runs EXCEPT ![r] = 1]
  /\ UNCHANGED phase

Answer(r) ==
  /\ phase[r] = "waiting" /\ runs[r] = 1
  /\ phase' = [phase EXCEPT ![r] = "answered"]
  /\ UNCHANGED runs

\* The answer did not come in time, and the server has one of its own.
FallBack(r) ==
  /\ r \in Cached /\ phase[r] = "waiting"
  /\ phase' = [phase EXCEPT ![r] = "late"]
  /\ UNCHANGED runs

\* Several callers may be cut off at once.
GiveUp(R) ==
  /\ \A r \in R : phase[r] = "waiting"
  /\ phase' = [r \in Requests |-> IF r \in R THEN "failed" ELSE phase[r]]
  /\ UNCHANGED runs

Next ==
  \/ \E r \in Requests : Ask(r) \/ Execute(r) \/ Answer(r) \/ FallBack(r)
  \/ \E R \in SUBSET Requests : GiveUp(R)

Spec == Init /\ [][Next]_<<phase, runs>>

=============================================================================
