----------------------------- MODULE RunLifecycle -----------------------------
(***************************************************************************)
(* What a client of POST /api/run is promised: one run at a time; a        *)
(* request is refused only while another run has the slot; an accepted run *)
(* settles its fate exactly once and only then vacates the slot.           *)
(***************************************************************************)

CONSTANTS Reqs, NoReq

VARIABLES slot, fate

Init == slot = NoReq /\ fate = [q \in Reqs |-> "open"]

Accept(q) ==
  /\ slot = NoReq /\ fate[q] = "open"
  /\ slot' = q
  /\ UNCHANGED fate

Refuse(q) ==
  /\ slot \notin {NoReq, q} /\ fate[q] = "open"
  /\ fate' = [fate EXCEPT ![q] = "refused"]
  /\ UNCHANGED slot

\* "silent": the run is over and nothing was said about it.
Settle(q) ==
  /\ slot = q /\ fate[q] = "open"
  /\ \E f \in {"done", "error", "silent"} : fate' = [fate EXCEPT ![q] = f]
  /\ UNCHANGED slot

Vacate(q) ==
  /\ slot = q /\ fate[q] # "open"
  /\ slot' = NoReq
  /\ UNCHANGED fate

Next == \E q \in Reqs : Accept(q) \/ Refuse(q) \/ Settle(q) \/ Vacate(q)

Spec == Init /\ [][Next]_<<slot, fate>>

=============================================================================
