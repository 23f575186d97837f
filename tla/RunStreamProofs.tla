---------------------------- MODULE RunStreamProofs ----------------------------
(***************************************************************************)
(* Proofs about RunStream, for any requests, plans and readers.  They rest *)
(* on PilotRunProofs for the run beside the readers: while no start resets *)
(* the list of events, it only grows.                                      *)
(***************************************************************************)
EXTENDS RunStream, PilotRunProofs, SequenceTheorems, WellFoundedInduction

-----------------------------------------------------------------------------
(* The invariant *)

Started(q) == pc[q] \notin {"idle", "claimed"}

\* A list that a reader has polled, and the present one, is that of a run that has begun; a
\* reader that has polled none stands at the beginning.
Begun ==
  /\ list # NoReq => Started(list)
  /\ \A s \in Streams :
       /\ \A q \in reader[s].from : q # NoReq => Started(q)
       /\ reader[s].from = {} => reader[s].cursor = 0 /\ reader[s].sent = <<>>

StreamTyped == Typed /\ StreamTypeOK

StreamInv == StreamTyped /\ Begun /\ SentIsPrefix /\ EndsAtTerminal

-----------------------------------------------------------------------------
(* Lists and what is sent of them *)

\* A set of numbers that is not empty has a least one.
LEMMA LeastNumber ==
  ASSUME NEW S \in SUBSET Nat, S # {}
  PROVE  \E n \in S : \A m \in S : n <= m
<1>1. IsWellFoundedOn(OpToRel(<, Nat), Nat)
  BY NatLessThanWellFounded
<1>2. PICK n \in S : \A m \in S : ~(<<m, n>> \in OpToRel(<, Nat))
  BY <1>1, WFMin
<1>3. \A m \in S : m \in Nat /\ n \in Nat /\ ~(m < n)
  BY <1>2 DEF OpToRel
<1>4. QED
  BY <1>3

\* Where a turn stops: at the first terminal event among the new ones, or else at the last one.
Stop(new) ==
  LET ends == TerminalsIn(new)
  IN  IF ends = {} THEN Len(new) ELSE CHOOSE i \in ends : \A j \in ends : i <= j

LEMMA StopIsFirst ==
  ASSUME NEW new \in Seq(Events), new # <<>>
  PROVE  /\ Stop(new) \in 1 .. Len(new)
         /\ TerminalsIn(new) # {} => /\ Stop(new) \in TerminalsIn(new)
                                     /\ \A j \in TerminalsIn(new) : Stop(new) <= j
<1>1. TerminalsIn(new) \in SUBSET Nat /\ TerminalsIn(new) \subseteq 1 .. Len(new)
  BY DEF TerminalsIn
<1>2. CASE TerminalsIn(new) = {}
  BY <1>2 DEF Stop
<1>3. CASE TerminalsIn(new) # {}
  <2>1. \E i \in TerminalsIn(new) : \A j \in TerminalsIn(new) : i <= j
    BY <1>1, <1>3, LeastNumber
  <2>2. /\ Stop(new) \in TerminalsIn(new)
        /\ \A j \in TerminalsIn(new) : Stop(new) <= j
    BY <1>3, <2>1 DEF Stop
  <2>3. QED
    BY <1>1, <2>2
<1>4. QED
  BY <1>2, <1>3

\* What is beyond the cursor, and the part of it that a turn sends.
LEMMA Turn ==
  ASSUME NEW seq \in Seq(Events), NEW n \in Nat, SubSeq(seq, n + 1, Len(seq)) # <<>>,
         NEW k \in 1 .. Len(SubSeq(seq, n + 1, Len(seq)))
  PROVE  LET new == SubSeq(seq, n + 1, Len(seq)) IN
         /\ new \in Seq(Events) /\ n < Len(seq) /\ Len(new) = Len(seq) - n
         /\ SubSeq(new, 1, k) \in Seq(Events) /\ Len(SubSeq(new, 1, k)) = k
         /\ \A i \in 1 .. k : SubSeq(new, 1, k)[i] = new[i]
         /\ SubSeq(seq, 1, n) \o SubSeq(new, 1, k) = SubSeq(seq, 1, n + k)
<1> DEFINE new == SubSeq(seq, n + 1, Len(seq))
<1>1. n < Len(seq)
  BY SubSeqEmpty
<1>2. new \in Seq(Events) /\ Len(new) = Len(seq) - n
  BY <1>1, SubSeqProperties
<1>3. k \in 1 .. Len(seq) - n
  BY <1>2
<1>4. SubSeq(new, 1, k) = SubSeq(seq, n + 1, n + k)
  BY <1>1, <1>2, <1>3, SubSeqOfSubSeq
<1>5. /\ SubSeq(new, 1, k) \in Seq(Events) /\ Len(SubSeq(new, 1, k)) = k
      /\ \A i \in 1 .. k : SubSeq(new, 1, k)[i] = new[i]
  <2> HIDE DEF new
  <2>1. \A i \in 1 .. k : new[i] \in Events
    BY <1>2, <1>3
  <2>2. QED
    BY <1>2, <1>3, <2>1, SubSeqProperties
<1>6. SubSeq(seq, 1, n) \o SubSeq(seq, n + 1, n + k) = SubSeq(seq, 1, n + k)
  BY <1>1, <1>3, ConcatAdjacentSubSeq
<1>7. QED
  BY <1>1, <1>2, <1>4, <1>5, <1>6

\* A list that has grown begins as it did.
LEMMA BeginningStays ==
  ASSUME NEW seq \in Seq(Events), NEW e \in Events, NEW n \in Nat, n <= Len(seq)
  PROVE  /\ n <= Len(Append(seq, e))
         /\ SubSeq(Append(seq, e), 1, n) = SubSeq(seq, 1, n)
<1>1. /\ Append(seq, e) \in Seq(Events) /\ Len(Append(seq, e)) = Len(seq) + 1
      /\ \A i \in 1 .. n : Append(seq, e)[i] = seq[i] /\ seq[i] \in Events
  BY AppendProperties
<1>2. /\ SubSeq(seq, 1, n) \in Seq(Events) /\ Len(SubSeq(seq, 1, n)) = n
      /\ \A i \in 1 .. n : SubSeq(seq, 1, n)[i] = seq[i]
  BY <1>1, SubSeqProperties
<1>3. /\ SubSeq(Append(seq, e), 1, n) \in Seq(Events) /\ Len(SubSeq(Append(seq, e), 1, n)) = n
      /\ \A i \in 1 .. n : SubSeq(Append(seq, e), 1, n)[i] = seq[i]
  BY <1>1, SubSeqProperties
<1>4. QED
  BY <1>1, <1>2, <1>3, SeqEqual

-----------------------------------------------------------------------------
(* The run's steps *)

\* But for a start that resets the list, a step leaves it alone or appends one event.
LEMMA EventsGrow ==
  ASSUME Typed, Next
  PROVE  \/ UNCHANGED events
         \/ \E e \in Events : events' = Append(events, e)
         \/ \E q \in Reqs : StartReset(q)
<1> DEFINE Goal == \/ UNCHANGED events
                   \/ \E e \in Events : events' = Append(events, e)
                   \/ \E q \in Reqs : StartReset(q)
<1>1. ASSUME NEW q \in Reqs, NEW type \in {"start", "plan", "record", "cancelling"} \cup Terminal,
             Emit(Event(type, q))
      PROVE  Goal
  BY <1>1, EventIsTyped DEF Emit
<1>2. ASSUME NEW q \in Reqs, RaisePrompt(q)
      PROVE  Goal
  <2>1. [Event("manual", q) EXCEPT !.prompt = PromptOf(q)] \in Events
    BY EventIsTyped, PromptOfIsPrompt DEF Typed
  <2>2. QED
    BY <1>2, <2>1 DEF RaisePrompt, Emit
<1>3. ASSUME NEW q \in Reqs, TakeAnswer(q)
      PROVE  Goal
  <2> DEFINE by == IF pending = NoPrompt THEN NoCaller ELSE prompt[pending].by
  <2>1. pending \in Prompts \cup {NoPrompt} /\ by \in Callers \cup {NoCaller}
    BY DEF Typed, TypeOK
  <2>2. [Event("manual-done", q) EXCEPT !.prompt = pending, !.by = by] \in Events
    BY <2>1, EventIsTyped
  <2>3. QED
    BY <1>3, <2>2 DEF TakeAnswer, Emit
<1> HIDE DEF Goal
<1>4. Goal
  BY <1>1, <1>2, <1>3, EventChanges DEF Settle, Goal
<1>5. QED
  BY <1>4 DEF Goal

\* No run begins twice.
LEMMA StartedStays ==
  ASSUME Typed, [Next]_vars, NEW q \in Reqs, Started(q)
  PROVE  Started(q)'
<1>1. pc \in [Reqs -> Inside \cup {"idle", "refused", "ended"}]
  BY DEF Typed, TypeOK
<1>2. CASE UNCHANGED pc
  BY <1>2 DEF Started
<1>3. ASSUME NEW r \in Reqs, Start(r)
      PROVE  Started(q)'
  BY <1>1, <1>3 DEF Start, StartRefused, StartClaim, StartReset, StartArm, Move, Started
<1>4. ASSUME NEW r \in Reqs, Worker(r)
      PROVE  Started(q)'
  <2>1. CASE Cleanup(r) \/ Unlock(r)
    BY <1>1, <2>1 DEF Cleanup, Unlock, Move, Started
  <2>2. CASE ~Cleanup(r) /\ ~Unlock(r)
    <3>1. pc'[r] \in Working /\ pc' = [pc EXCEPT ![r] = pc'[r]]
      BY <1>4, <2>2, WorkerMoves DEF Typed
    <3>2. QED
      BY <1>1, <3>1 DEF Started, Working, OnBench, Checking
  <2>3. QED
    BY <2>1, <2>2
<1>5. QED
  BY <1>2, <1>3, <1>4, OnlyRunsMove

\* A step of the run, as the readers see it.
LEMMA RunStepSeen ==
  ASSUME StreamTyped, RunStep
  PROVE  \/ /\ UNCHANGED list
            /\ UNCHANGED events \/ \E e \in Events : events' = Append(events, e)
         \/ \E q \in Reqs : /\ ~Started(q) /\ Started(q)'
                            /\ list' = q /\ events' = <<>>
<1>1. Typed /\ Next /\ pc \in [Reqs -> Inside \cup {"idle", "refused", "ended"}]
  BY DEF RunStep, StreamTyped, Typed, TypeOK
<1>2. ASSUME NEW q \in Reqs, pc[q] = "claimed", pc'[q] = "reset"
      PROVE  list' = q /\ events' = <<>>
  <2>1. runLock = q
    BY <1>1, <1>2 DEF Typed, Control, OneRunAtATime, Inside
  <2>2. list' = runLock
    BY <1>2 DEF RunStep
  <2>3. ASSUME NEW r \in Reqs, Start(r)
        PROVE  events' = <<>>
    BY <1>1, <1>2, <2>3 DEF Start, StartRefused, StartClaim, StartReset, StartArm, Move
  <2>4. ASSUME NEW r \in Reqs, Worker(r)
        PROVE  FALSE
    <3>1. CASE Cleanup(r) \/ Unlock(r)
      BY <1>1, <1>2, <3>1 DEF Cleanup, Unlock, Move
    <3>2. CASE ~Cleanup(r) /\ ~Unlock(r)
      <4>1. pc'[r] \in Working /\ pc' = [pc EXCEPT ![r] = pc'[r]]
        BY <1>1, <2>4, <3>2, WorkerMoves DEF Typed
      <4>2. QED
        BY <1>1, <1>2, <4>1 DEF Working, OnBench, Checking
    <3>3. QED
      BY <3>1, <3>2
  <2>5. QED
    BY <1>1, <1>2, <2>1, <2>2, <2>3, <2>4, OnlyRunsMove
<1>3. CASE \E q \in Reqs : pc[q] = "claimed" /\ pc'[q] = "reset"
  BY <1>2, <1>3 DEF Started
<1>4. CASE ~\E q \in Reqs : pc[q] = "claimed" /\ pc'[q] = "reset"
  <2>1. UNCHANGED list
    BY <1>4 DEF RunStep
  <2>2. \A q \in Reqs : ~StartReset(q)
    BY <1>1, <1>4 DEF StartReset, Move
  <2>3. QED
    BY <1>1, <2>1, <2>2, EventsGrow
<1>5. QED
  BY <1>3, <1>4

-----------------------------------------------------------------------------
(* The readers' steps *)

\* What a turn does, whether or not it meets the end.
LEMMA PollEffects ==
  ASSUME StreamTyped, NEW s \in Streams, Poll(s)
  PROVE  LET r == reader[s]  new == SubSeq(events, r.cursor + 1, Len(events))  k == Stop(new) IN
         /\ r.at = "open" /\ new # <<>> /\ new \in Seq(Events) /\ k \in 1 .. Len(new)
         /\ r.cursor < Len(events) /\ Len(new) = Len(events) - r.cursor
         /\ reader'[s].at = IF TerminalsIn(new) = {} THEN "open" ELSE "ended"
         /\ reader'[s].cursor = r.cursor + k
         /\ reader'[s].sent = r.sent \o SubSeq(new, 1, k)
         /\ reader'[s].from = r.from \cup {list}
         /\ \A t \in Streams \ {s} : reader'[t] = reader[t]
         /\ UNCHANGED <<vars, list>>
<1> DEFINE r == reader[s]
           new == SubSeq(events, r.cursor + 1, Len(events))
           k == Stop(new)
<1>1. events \in Seq(Events) /\ r.cursor \in Nat /\ reader = [t \in Streams |-> reader[t]]
  BY DEF StreamTyped, Typed, TypeOK, StreamTypeOK
<1>2. r.at = "open" /\ new # <<>> /\ UNCHANGED <<vars, list>>
  BY DEF Poll, events_since
<1>3. reader' = [reader EXCEPT ![s] =
           [at |-> IF TerminalsIn(new) = {} THEN "open" ELSE "ended",
            cursor |-> @.cursor + k,
            sent |-> @.sent \o SubSeq(new, 1, k),
            from |-> @.from \cup {list}]]
  BY DEF Poll, events_since, Stop
<1>4. r.cursor < Len(events)
  BY <1>1, <1>2, SubSeqEmpty
<1>5. new \in Seq(Events) /\ Len(new) = Len(events) - r.cursor
  BY <1>1, <1>4, SubSeqProperties
<1>6. k \in 1 .. Len(new)
  BY <1>2, <1>5, StopIsFirst
<1>7. QED
  BY <1>1, <1>2, <1>3, <1>4, <1>5, <1>6

\* Opening and giving up change nothing but where the reader is.
LEMMA OnlyMoves ==
  ASSUME StreamTyped, NEW s \in Streams, Open(s) \/ Expire(s)
  PROVE  /\ UNCHANGED <<vars, list>>
         /\ \A t \in Streams :
              /\ reader'[t].cursor = reader[t].cursor /\ reader'[t].sent = reader[t].sent
              /\ reader'[t].from = reader[t].from
              /\ reader'[t].at = "ended" <=> reader[t].at = "ended"
<1>1. reader \in [Streams -> [at : {"closed", "open", "ended", "expired"}, cursor : Nat,
                             sent : Seq(Events), from : SUBSET (Reqs \cup {NoReq})]]
  BY DEF StreamTyped, StreamTypeOK
<1>2. PICK to \in {"open", "expired"} : reader' = [reader EXCEPT ![s].at = to]
  BY DEF Open, Expire
<1>3. reader[s].at \in {"closed", "open"} /\ UNCHANGED <<vars, list>>
  BY DEF Open, Expire
<1> DEFINE r == [reader[s] EXCEPT !.at = to]
<1>4. /\ r.at = to /\ r.cursor = reader[s].cursor /\ r.sent = reader[s].sent
      /\ r.from = reader[s].from
  BY <1>1
<1>5. reader' = [reader EXCEPT ![s] = r]
  BY <1>2
<1> HIDE DEF r
<1>6. reader'[s] = r /\ \A t \in Streams \ {s} : reader'[t] = reader[t]
  BY <1>1, <1>5
<1>7. QED
  BY <1>3, <1>4, <1>6

LEMMA StreamTypes ==
  ASSUME StreamTyped, Typed', [StreamNext]_allVars
  PROVE  StreamTyped'
<1>1. reader \in [Streams -> [at : {"closed", "open", "ended", "expired"}, cursor : Nat,
                             sent : Seq(Events), from : SUBSET (Reqs \cup {NoReq})]]
  BY DEF StreamTyped, StreamTypeOK
<1>2. CASE RunStep
  <2>1. list' \in Reqs \cup {NoReq}
    BY <1>2 DEF RunStep, StreamTyped, Typed, TypeOK, StreamTypeOK
  <2>2. QED
    BY <1>2, <2>1 DEF RunStep, StreamTyped, StreamTypeOK
<1>3. ASSUME NEW s \in Streams, Open(s) \/ Expire(s)
      PROVE  StreamTyped'
  BY <1>1, <1>3 DEF Open, Expire, StreamTyped, StreamTypeOK
<1>4. ASSUME NEW s \in Streams, Poll(s)
      PROVE  StreamTyped'
  <2> DEFINE new == SubSeq(events, reader[s].cursor + 1, Len(events))
             k == Stop(new)
  <2>1. /\ new # <<>> /\ new \in Seq(Events) /\ k \in 1 .. Len(new)
        /\ UNCHANGED <<vars, list>>
    BY <1>4, PollEffects
  <2>2. events \in Seq(Events) /\ reader[s].cursor \in Nat /\ reader[s].sent \in Seq(Events)
        /\ reader[s].from \subseteq Reqs \cup {NoReq} /\ list \in Reqs \cup {NoReq}
    BY <1>1 DEF StreamTyped, Typed, TypeOK, StreamTypeOK
  <2>3. SubSeq(new, 1, k) \in Seq(Events)
    BY <2>1, <2>2, Turn
  <2>4. reader[s].sent \o SubSeq(new, 1, k) \in Seq(Events)
    BY <2>2, <2>3, ConcatProperties
  <2>5. reader[s].cursor + k \in Nat
    BY <2>1, <2>2
  <2>6. reader' = [reader EXCEPT ![s] =
           [at |-> IF TerminalsIn(new) = {} THEN "open" ELSE "ended",
            cursor |-> @.cursor + k,
            sent |-> @.sent \o SubSeq(new, 1, k),
            from |-> @.from \cup {list}]]
    BY <1>4 DEF Poll, events_since, Stop
  <2> DEFINE to == [at |-> IF TerminalsIn(new) = {} THEN "open" ELSE "ended",
                    cursor |-> reader[s].cursor + k,
                    sent |-> reader[s].sent \o SubSeq(new, 1, k),
                    from |-> reader[s].from \cup {list}]
  <2>7. to \in [at : {"closed", "open", "ended", "expired"}, cursor : Nat,
                sent : Seq(Events), from : SUBSET (Reqs \cup {NoReq})]
    BY <2>2, <2>4, <2>5
  <2>8. reader' = [reader EXCEPT ![s] = to]
    BY <2>6
  <2> HIDE DEF to, new, k
  <2>9. QED
    BY <1>1, <2>1, <2>7, <2>8 DEF StreamTyped, StreamTypeOK
<1>5. CASE UNCHANGED allVars
  BY <1>5 DEF allVars, streamVars, StreamTyped, StreamTypeOK
<1>6. QED
  BY <1>2, <1>3, <1>4, <1>5 DEF StreamNext

-----------------------------------------------------------------------------
(* Begun, SentIsPrefix and EndsAtTerminal *)

LEMMA BegunStep ==
  ASSUME StreamTyped, Begun, [StreamNext]_allVars
  PROVE  Begun'
<1>1. /\ list \in Reqs \cup {NoReq}
      /\ \A s \in Streams : reader[s].from \subseteq Reqs \cup {NoReq}
  BY DEF StreamTyped, StreamTypeOK
<1>2. CASE RunStep
  <2>1. UNCHANGED reader /\ [Next]_vars /\ Typed
    BY <1>2 DEF RunStep, StreamTyped
  <2>2. \A q \in Reqs : Started(q) => Started(q)'
    BY <2>1, StartedStays
  <2>3. list' # NoReq => Started(list)'
    BY <1>1, <1>2, <2>2, RunStepSeen DEF Begun, Started
  <2>4. QED
    BY <1>1, <2>1, <2>2, <2>3 DEF Begun
<1>3. ASSUME NEW s \in Streams, Poll(s)
      PROVE  Begun'
  <2>1. /\ UNCHANGED <<vars, list>> /\ \A t \in Streams \ {s} : reader'[t] = reader[t]
        /\ reader'[s].from = reader[s].from \cup {list}
    BY <1>3, PollEffects
  <2>2. UNCHANGED pc
    BY <2>1 DEF vars, workVars
  <2>3. \A t \in Streams : \A q \in reader'[t].from : q # NoReq => Started(q)
    BY <2>1 DEF Begun
  <2>4. QED
    BY <2>1, <2>2, <2>3 DEF Begun, Started
<1>4. ASSUME NEW s \in Streams, Open(s) \/ Expire(s)
      PROVE  Begun'
  BY <1>4, OnlyMoves DEF Begun, Started, vars, workVars
<1>5. CASE UNCHANGED allVars
  BY <1>5 DEF allVars, streamVars, vars, workVars, Begun, Started
<1>6. QED
  BY <1>2, <1>3, <1>4, <1>5 DEF StreamNext

LEMMA PrefixStep ==
  ASSUME StreamTyped, Begun, SentIsPrefix, [StreamNext]_allVars
  PROVE  SentIsPrefix'
<1>1. /\ events \in Seq(Events)
      /\ \A s \in Streams : reader[s].cursor \in Nat /\ reader[s].sent \in Seq(Events)
  BY DEF StreamTyped, Typed, TypeOK, StreamTypeOK
<1>2. CASE RunStep
  <2>1. UNCHANGED reader
    BY <1>2 DEF RunStep
  <2>2. ASSUME UNCHANGED list, UNCHANGED events \/ \E e \in Events : events' = Append(events, e)
        PROVE  SentIsPrefix'
    <3>1. CASE UNCHANGED events
      BY <2>1, <2>2, <3>1 DEF SentIsPrefix
    <3>2. ASSUME NEW e \in Events, events' = Append(events, e)
          PROVE  SentIsPrefix'
      BY <1>1, <2>1, <2>2, <3>2, BeginningStays DEF SentIsPrefix
    <3>3. QED
      BY <2>2, <3>1, <3>2
  <2>3. ASSUME NEW q \in Reqs, ~Started(q), list' = q
        PROVE  SentIsPrefix'
    <3>1. \A s \in Streams : q \notin reader[s].from
      BY <2>3, PilotAssumption DEF Begun
    <3>2. QED
      BY <2>1, <2>3, <3>1 DEF SentIsPrefix
  <2>4. QED
    BY <1>2, <2>2, <2>3, RunStepSeen
<1>3. ASSUME NEW s \in Streams, Poll(s)
      PROVE  SentIsPrefix'
  <2> DEFINE n == reader[s].cursor
             new == SubSeq(events, n + 1, Len(events))
             k == Stop(new)
  <2>1. /\ new # <<>> /\ k \in 1 .. Len(new) /\ n < Len(events) /\ Len(new) = Len(events) - n
        /\ reader'[s].cursor = n + k
        /\ reader'[s].sent = reader[s].sent \o SubSeq(new, 1, k)
        /\ reader'[s].from = reader[s].from \cup {list}
        /\ \A t \in Streams \ {s} : reader'[t] = reader[t]
        /\ UNCHANGED <<events, list>>
    BY <1>3, PollEffects DEF vars
  <2>2. SubSeq(events, 1, n) \o SubSeq(new, 1, k) = SubSeq(events, 1, n + k)
    BY <1>1, <2>1, Turn
  <2>3. ASSUME reader'[s].from = {list}
        PROVE  reader[s].sent = SubSeq(events, 1, n)
    <3>1. CASE reader[s].from = {}
      <4>1. n = 0 /\ reader[s].sent = <<>>
        BY <3>1 DEF Begun
      <4>2. SubSeq(events, 1, 0) = <<>>
        BY SubSeqEmpty
      <4>3. QED
        BY <4>1, <4>2
    <3>2. CASE reader[s].from # {}
      <4>1. reader[s].from = {list}
        BY <2>1, <2>3, <3>2
      <4>2. QED
        BY <4>1 DEF SentIsPrefix
    <3>3. QED
      BY <3>1, <3>2
  <2>4. n + k <= Len(events)
    BY <1>1, <2>1
  <2> HIDE DEF new, k
  <2>5. reader'[s].from = {list} =>
          reader'[s].cursor <= Len(events) /\ reader'[s].sent = SubSeq(events, 1, reader'[s].cursor)
    BY <2>1, <2>2, <2>3, <2>4
  <2>6. QED
    BY <2>1, <2>5 DEF SentIsPrefix
<1>4. ASSUME NEW s \in Streams, Open(s) \/ Expire(s)
      PROVE  SentIsPrefix'
  BY <1>4, OnlyMoves DEF SentIsPrefix, vars
<1>5. CASE UNCHANGED allVars
  BY <1>5 DEF allVars, streamVars, vars, SentIsPrefix
<1>6. QED
  BY <1>2, <1>3, <1>4, <1>5 DEF StreamNext

LEMMA TerminalStep ==
  ASSUME StreamTyped, EndsAtTerminal, [StreamNext]_allVars
  PROVE  EndsAtTerminal'
<1>1. /\ events \in Seq(Events)
      /\ \A s \in Streams : reader[s].cursor \in Nat /\ reader[s].sent \in Seq(Events)
  BY DEF StreamTyped, Typed, TypeOK, StreamTypeOK
<1>2. CASE UNCHANGED reader
  BY <1>2 DEF EndsAtTerminal, TerminalsIn
<1>3. ASSUME NEW s \in Streams, Poll(s)
      PROVE  EndsAtTerminal'
  <2> DEFINE n == reader[s].cursor
             new == SubSeq(events, n + 1, Len(events))
             k == Stop(new)
             old == reader[s].sent
             part == SubSeq(new, 1, k)
             sent == old \o part
             ends == TerminalsIn(new)
  <2>1. /\ new # <<>> /\ new \in Seq(Events) /\ k \in 1 .. Len(new)
        /\ reader[s].at = "open" /\ reader'[s].at = IF ends = {} THEN "open" ELSE "ended"
        /\ reader'[s].sent = sent
        /\ \A t \in Streams \ {s} : reader'[t] = reader[t]
    BY <1>3, PollEffects
  <2>2. old \in Seq(Events) /\ TerminalsIn(old) = {}
    BY <1>1, <2>1 DEF EndsAtTerminal
  <2>3. part \in Seq(Events) /\ Len(part) = k /\ \A i \in 1 .. k : part[i] = new[i]
    BY <1>1, <2>1, Turn
  <2>4. ends # {} => k \in ends /\ \A j \in ends : k <= j
    BY <2>1, StopIsFirst
  <2>5. ends = {} => k = Len(new)
    BY DEF Stop
  <2> HIDE DEF new, k, part, old, ends
  <2>6. /\ sent \in Seq(Events) /\ Len(sent) = Len(old) + k
        /\ \A i \in 1 .. Len(old) + k : sent[i] = IF i <= Len(old) THEN old[i] ELSE new[i - Len(old)]
    <3>1. /\ sent \in Seq(Events) /\ Len(sent) = Len(old) + k
          /\ \A i \in 1 .. Len(old) + k : sent[i] = IF i <= Len(old) THEN old[i] ELSE part[i - Len(old)]
      BY <2>2, <2>3, ConcatProperties
    <3>2. ASSUME NEW i \in 1 .. Len(old) + k, ~(i <= Len(old))
          PROVE  part[i - Len(old)] = new[i - Len(old)]
      <4>1. i - Len(old) \in 1 .. k
        BY <2>1, <2>2, <3>2
      <4>2. QED
        BY <2>3, <4>1
    <3>3. QED
      BY <3>1, <3>2
  <2>7. \A i \in DOMAIN old : old[i].type \notin Terminal
    BY <2>2 DEF TerminalsIn
  <2>8. \A j \in 1 .. k : new[j].type \in Terminal <=> j \in ends
    BY <2>1 DEF ends, TerminalsIn
  <2>9. ASSUME NEW i \in 1 .. Len(old) + k
        PROVE  sent[i].type \in Terminal <=> i > Len(old) /\ i - Len(old) \in ends
    <3> HIDE DEF sent
    <3>1. CASE i <= Len(old)
      <4>1. i \in DOMAIN old /\ sent[i] = old[i]
        BY <2>2, <2>6, <3>1
      <4>2. QED
        BY <2>2, <2>7, <3>1, <4>1
    <3>2. CASE i > Len(old)
      <4>1. i - Len(old) \in 1 .. k /\ sent[i] = new[i - Len(old)]
        BY <2>1, <2>2, <2>6, <3>2
      <4>2. QED
        BY <2>8, <3>2, <4>1
    <3>3. QED
      BY <2>2, <3>1, <3>2
  <2> HIDE DEF sent
  <2>10. DOMAIN sent = 1 .. Len(old) + k /\ Len(old) \in Nat /\ k \in Nat
    BY <2>1, <2>2, <2>6
  <2>11. TerminalsIn(sent) = IF ends = {} THEN {} ELSE {Len(sent)}
    <3>1. CASE ends = {}
      BY <2>9, <2>10, <3>1 DEF TerminalsIn
    <3>2. CASE ends # {}
      <4>1. ends \subseteq Nat
        BY <2>1 DEF ends, TerminalsIn
      <4>2. ASSUME NEW i \in 1 .. Len(old) + k, i > Len(old), i - Len(old) \in ends
            PROVE  i = Len(old) + k
        BY <2>4, <2>10, <3>2, <4>1, <4>2
      <4>3. Len(old) + k \in DOMAIN sent /\ sent[Len(old) + k].type \in Terminal
        BY <2>1, <2>4, <2>9, <2>10, <3>2
      <4>4. QED
        BY <2>6, <2>9, <2>10, <3>2, <4>2, <4>3 DEF TerminalsIn
    <3>3. QED
      BY <3>1, <3>2
  <2>12. QED
    BY <2>1, <2>11 DEF EndsAtTerminal
<1>4. ASSUME NEW s \in Streams, Open(s) \/ Expire(s)
      PROVE  EndsAtTerminal'
  BY <1>4, OnlyMoves DEF EndsAtTerminal
<1>5. QED
  BY <1>2, <1>3, <1>4 DEF StreamNext, RunStep, allVars, streamVars

LEMMA StreamInvariant == StreamSpec => []StreamInv
<1>1. StreamInit => StreamInv
  <2> SUFFICES ASSUME StreamInit PROVE StreamInv
    OBVIOUS
  <2>1. Typed
    BY TypedInit DEF StreamInit
  <2>2. \A s \in Streams : reader[s] = [at |-> "closed", cursor |-> 0, sent |-> <<>>, from |-> {}]
    BY DEF StreamInit
  <2>3. <<>> \in Seq(Events) /\ 0 \in Nat
    OBVIOUS
  <2>4. StreamTypeOK
    BY <2>3 DEF StreamInit, StreamTypeOK
  <2>5. Begun /\ SentIsPrefix /\ EndsAtTerminal
    BY <2>2 DEF StreamInit, Begun, SentIsPrefix, EndsAtTerminal, TerminalsIn
  <2>6. QED
    BY <2>1, <2>4, <2>5 DEF StreamInv, StreamTyped
<1>2. ASSUME StreamInv, [StreamNext]_allVars
      PROVE  StreamInv'
  <2>1. [Next]_vars
    BY <1>2 DEF StreamNext, RunStep, Open, Poll, Expire, allVars
  <2>2. Typed'
    BY <1>2, <2>1, TypedInductive DEF StreamInv, StreamTyped
  <2>3. QED
    BY <1>2, <2>2, StreamTypes, BegunStep, PrefixStep, TerminalStep DEF StreamInv
<1>3. QED
  BY <1>1, <1>2, PTL DEF StreamSpec

\* A reader that has polled one run's list only was sent its beginning, whatever was appended
\* between its turns: nothing twice, nothing left out.
THEOREM NothingIsSkipped == StreamSpec => []SentIsPrefix
<1>1. StreamInv => SentIsPrefix
  BY DEF StreamInv
<1>2. QED
  BY <1>1, StreamInvariant, PTL

\* A reader stops at the first terminal event it meets, also when more came in the same turn.
THEOREM ReadersStopAtTheEnd == StreamSpec => []EndsAtTerminal
<1>1. StreamInv => EndsAtTerminal
  BY DEF StreamInv
<1>2. QED
  BY <1>1, StreamInvariant, PTL

=============================================================================
