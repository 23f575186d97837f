------------------------------- MODULE RunStream -------------------------------
(***************************************************************************)
(* The readers of GET /api/run/stream beside a PilotRun.  A reader is a    *)
(* coroutine that polls RunState.events from its own cursor and stops at   *)
(* the first terminal event.  It never notices that a new run has replaced *)
(* the list: the cursor then points into another run's events.             *)
(***************************************************************************)
EXTENDS PilotRun, Integers

CONSTANT Streams

VARIABLES
  list,      \* history: the run whose start created the present list
  reader     \* reader -> state, cursor, and history: events sent, lists polled

streamVars == <<list, reader>>

StreamTypeOK ==
  /\ list \in Reqs \cup {NoReq}
  /\ reader \in [Streams -> [at : {"closed", "open", "ended", "expired"}, cursor : Nat,
                             sent : Seq(Events), from : SUBSET (Reqs \cup {NoReq})]]

StreamInit ==
  /\ Init
  /\ list = NoReq
  /\ reader = [s \in Streams |-> [at |-> "closed", cursor |-> 0, sent |-> <<>>, from |-> {}]]

RunStep ==
  /\ Next
  /\ list' = IF \E q \in Reqs : pc[q] = "claimed" /\ pc'[q] = "reset" THEN runLock ELSE list
  /\ UNCHANGED reader

Open(s) ==
  /\ reader[s].at = "closed"
  /\ reader' = [reader EXCEPT ![s].at = "open"]
  /\ UNCHANGED <<vars, list>>

\* Mutant: the last event sent is sent again.
events_sinceOverlaps(n) == SubSeq(events, IF n = 0 THEN 1 ELSE n, Len(events))

\* events_since(cursor): what the list holds beyond the cursor, now.
events_since(n) == SubSeq(events, n + 1, Len(events))

TerminalsIn(seq) == {i \in DOMAIN seq : seq[i].type \in Terminal}

\* Mutant: the turn sends all that is new before it looks for the end.
PollPastTheEnd(s) ==
  LET new == events_since(reader[s].cursor)
  IN  /\ reader[s].at = "open"
      /\ new # <<>>
      /\ reader' = [reader EXCEPT ![s] =
           [at |-> IF TerminalsIn(new) = {} THEN "open" ELSE "ended",
            cursor |-> @.cursor + Len(new),
            sent |-> @.sent \o new,
            from |-> @.from \cup {list}]]
      /\ UNCHANGED <<vars, list>>

\* Mutant: a run that ends in an error does not end its readers.
PollForDone(s) ==
  LET new == events_since(reader[s].cursor)
  IN  /\ reader[s].at = "open"
      /\ new # <<>>
      /\ reader' = [reader EXCEPT ![s] =
           [at |-> IF \E i \in DOMAIN new : new[i].type = "done" THEN "ended" ELSE "open",
            cursor |-> @.cursor + Len(new),
            sent |-> @.sent \o new,
            from |-> @.from \cup {list}]]
      /\ UNCHANGED <<vars, list>>

\* One turn of the loop: everything new is sent, up to a terminal event.
Poll(s) ==
  LET new  == events_since(reader[s].cursor)
      ends == TerminalsIn(new)
      last == IF ends = {} THEN Len(new) ELSE CHOOSE i \in ends : \A j \in ends : i <= j
  IN  /\ reader[s].at = "open"
      /\ new # <<>>
      /\ reader' = [reader EXCEPT ![s] =
           [at |-> IF ends = {} THEN "open" ELSE "ended",
            cursor |-> @.cursor + last,
            sent |-> @.sent \o SubSeq(new, 1, last),
            from |-> @.from \cup {list}]]
      /\ UNCHANGED <<vars, list>>

\* The cap of 6000 turns.
Expire(s) ==
  /\ reader[s].at = "open"
  /\ reader' = [reader EXCEPT ![s].at = "expired"]
  /\ UNCHANGED <<vars, list>>

StreamNext == RunStep \/ \E s \in Streams : Open(s) \/ Poll(s) \/ Expire(s)

allVars == <<vars, streamVars>>

StreamSpec == StreamInit /\ [][StreamNext]_allVars

StreamFairSpec ==
  /\ StreamSpec
  /\ \A s \in Streams : WF_allVars(Poll(s))
  /\ \A q \in Reqs : WF_allVars(RunStep /\ (Worker(q) \/ StartReset(q) \/ StartArm(q)))

-----------------------------------------------------------------------------
\* A reader that polled one list only has been sent exactly its beginning, in
\* order: no event twice, none skipped, whatever was emitted between polls.
SentIsPrefix ==
  \A s \in Streams : reader[s].from = {list} =>
    /\ reader[s].cursor <= Len(events)
    /\ reader[s].sent = SubSeq(events, 1, reader[s].cursor)

\* A reader ends at a terminal event and never passes one.
EndsAtTerminal ==
  \A s \in Streams : LET sent == reader[s].sent IN
    TerminalsIn(sent) = IF reader[s].at = "ended" THEN {Len(sent)} ELSE {}

\* A reader that has followed one run only, and whose run's end was told, ends
\* too unless a new run replaces the list first.
ReadersEnd ==
  \A s \in Streams, q \in Reqs :
    (/\ reader[s].at = "open" /\ reader[s].from \subseteq {q}
     /\ list = q /\ outcome[q] \in Terminal)
      ~> (reader[s].at # "open" \/ list # q)

=============================================================================
