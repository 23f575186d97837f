---------------------------- MODULE AgentHubProofs ----------------------------
(***************************************************************************)
(* Proofs about AgentHub, for any processes, requests and bounds.  The     *)
(* inductive invariant has five parts, each proved with those before it:   *)
(* types and owners, whose a session is, where a command is, and which     *)
(* version of the files is where.                                          *)
(***************************************************************************)
EXTENDS AgentHub, TLAPS

-----------------------------------------------------------------------------
(* The inductive invariant *)

Attached == {"ready", "polling", "busy", "posting"}
Working(p) == agent[p].at \in {"busy", "posting"}

Typed == TypeOK /\ \A p \in Procs : agent[p].at \in Attached => agent[p].sid \in Sids

Owned == \A s \in sessions : sess[s].proc \in Procs

\* The id an agent has in its loop is nobody else's, and as long as the server
\* knows the session it is the agent's; a registration will retire what its process has left.
Identity ==
  /\ \A p, q \in Procs : agent[p].sid = agent[q].sid /\ agent[p].sid # NoSid => p = q
  /\ \A p \in Procs : agent[p].sid \in sessions \/ agent[p].at = "polling"
                        => sess[agent[p].sid].proc = p
  /\ \A p \in Procs : agent[p].at = "retiring" =>
       \A s \in sessions : sess[s].proc = p => s \in agent[p].olds
  /\ OneSessionPerProcess

\* A request in a queue was made on that session and is there once, not executed yet.
Queued(s) ==
  \A i \in DOMAIN sess[s].queue : LET r == sess[s].queue[i] IN r # Stop =>
    /\ req[r].sid = s /\ req[r].at # "open" /\ runs[r] = 0
    /\ s \in sessions => slot[r] = "pending"
    /\ \A j \in DOMAIN sess[s].queue : sess[s].queue[j] = r => j = i

\* The command an agent works on was made on its session and is in no queue.
InHand(p) ==
  LET r == agent[p].cmd  s == agent[p].sid IN
  Working(p) =>
    /\ r \in Requests /\ req[r].sid = s /\ req[r].at # "open"
    /\ s \in sessions => slot[r] = "pending"
    /\ IF agent[p].at = "busy"
         THEN runs[r] = 0 /\ \A i \in DOMAIN sess[s].queue : sess[s].queue[i] # r
         ELSE runs[r] = 1 /\ r \notin Jobs

Commanded ==
  /\ \A s \in Sids : Queued(s)
  /\ \A p \in Procs : InHand(p)
  /\ \A r \in Jobs : background[r] # NoSid => runs[r] = 1
  /\ \A r \in Requests :
       /\ runs[r] \in {0, 1}
       /\ req[r].at = "open" => runs[r] = 0 /\ slot[r] = "none" /\ req[r].sid = NoSid
       /\ slot[r] = "set" \/ req[r].at = "answered" => runs[r] = 1
       /\ req[r].at = "answered" /\ r \notin Jobs => slot[r] = "set"

\* What an agent has read of its files for a registration or a result is at least what they
\* were when it showed them last, and when the command was asked for.
Reads(p) ==
  /\ shown[p] <= tree[p]
  /\ agent[p].at \in {"scanned", "retiring", "posting"}
       => shown[p] <= agent[p].scan /\ agent[p].scan <= tree[p]
  /\ agent[p].at = "busy" => asked[agent[p].cmd].tree <= tree[p]
  /\ agent[p].at = "posting" => asked[agent[p].cmd].tree <= agent[p].scan

\* What waits in a queue was asked for when the files were as they are now, or before.
Behind(s) ==
  \A i \in DOMAIN sess[s].queue : sess[s].queue[i] # Stop =>
    sess[s].proc \in Procs /\ asked[sess[s].queue[i]].tree <= tree[sess[s].proc]

\* A result is not older than its request; nor is, once the result of a sync has come, the
\* catalog of its session.
Received ==
  /\ \A r \in Requests \ Jobs : slot[r] = "set" => asked[r].tree <= result[r]
  /\ \A r \in Syncs : slot[r] = "set" /\ req[r].sid \in sessions
                        => asked[r].tree <= sess[req[r].sid].catalog

\* The catalog read before a request, and its session's from then on, are not older than what
\* had been shown when it was asked.
Remembered ==
  /\ \A r \in Requests : asked[r].shown <= asked[r].cached
  /\ \A r \in Syncs : req[r].sid \in sessions => asked[r].shown <= sess[req[r].sid].catalog

\* What a session shows is the newest version its process has shown.
Versioned ==
  /\ \A s \in sessions : sess[s].catalog = shown[sess[s].proc]
  /\ \A p \in Procs : Reads(p)
  /\ \A s \in Sids : Behind(s)
  /\ Received /\ Remembered /\ SyncLoads

IInv == Typed /\ Owned /\ Identity /\ Commanded /\ Versioned

-----------------------------------------------------------------------------
(* Types *)

\* A session object that a step keeps is as the step made it; the others are forgotten.
LEMMA KeptObjects ==
  ASSUME NEW objects, sess' = Kept(objects)
  PROVE  /\ sess' = [s \in Sids |-> sess'[s]]
         /\ \A s \in Sids : sess'[s] = objects[s] \/ sess'[s] = NoSession
         /\ \A s \in Sids : s \in sessions' \/ Polled(s)' => sess'[s] = objects[s]
BY DEF Kept

LEMMA SessionsTyped == ASSUME Typed PROVE \A s \in Sids : sess[s] \in Session
BY DEF Typed, TypeOK

LEMMA NoSessionTyped == NoSession \in Session
BY HubAssumption DEF NoSession, Session, Versions

LEMMA LoopTyped == \A at \in AgentAt, sid \in Sids \cup {NoSid} : Loop(at, sid) \in Client
BY HubAssumption DEF Loop, Client, Versions

LEMMA KeptTyped ==
  ASSUME NEW objects \in [Sids -> Session], sess' = Kept(objects)
  PROVE  sess' \in [Sids -> Session]
BY KeptObjects, NoSessionTyped

LEMMA PutTyped ==
  ASSUME TypeOK, NEW s \in Sids, NEW c \in Commands
  PROVE  Put(s, c) \in [Sids -> Session]
<1>1. sess \in [Sids -> Session]
  BY DEF TypeOK
<1> DEFINE q == Append(sess[s].queue, c)
<1>a. sess[s] \in Session
  BY <1>1
<1>b. sess[s].queue \in Seq(Commands)
  BY <1>a DEF Session
<1>2. q \in Seq(Commands)
  BY <1>b
<1> HIDE DEF q
<1>3. [sess[s] EXCEPT !.queue = q] \in Session
  BY <1>a, <1>2 DEF Session
<1>4. [sess EXCEPT ![s].queue = q] \in [Sids -> Session]
  BY <1>1, <1>3
<1>5. QED
  BY <1>4 DEF Put, q

LEMMA TailTyped ==
  ASSUME TypeOK, NEW s \in Sids, sess[s].queue # <<>>
  PROVE  [sess EXCEPT ![s].queue = Tail(@)] \in [Sids -> Session]
<1>1. sess \in [Sids -> Session]
  BY DEF TypeOK
<1> DEFINE q == Tail(sess[s].queue)
<1>a. sess[s] \in Session
  BY <1>1
<1>b. sess[s].queue \in Seq(Commands)
  BY <1>a DEF Session
<1>2. q \in Seq(Commands)
  BY <1>b
<1> HIDE DEF q
<1>3. [sess[s] EXCEPT !.queue = q] \in Session
  BY <1>a, <1>2 DEF Session
<1>4. [sess EXCEPT ![s].queue = q] \in [Sids -> Session]
  BY <1>1, <1>3
<1>5. QED
  BY <1>4 DEF q

\* An agent that has gone back to its loop, or left it.
LEMMA ClientMoves ==
  ASSUME Typed, NEW p \in Procs, NEW a \in Client, a.at \in Attached => a.sid \in Sids,
         agent' = [agent EXCEPT ![p] = a]
  PROVE  agent' \in [Procs -> Client] /\ \A q \in Procs : agent'[q].at \in Attached => agent'[q].sid \in Sids
BY DEF Typed, TypeOK

\* The server's own steps.
LEMMA TypedServer ==
  ASSUME Typed, Reap \/ Restart \/ \E s \in Sids : Disconnect(s) \/ Age(s) \/ OrphanEnds(s)
  PROVE  Typed'
<1> USE DEF hubVars, agentVars, reqVars
<1>1. CASE Reap
  BY <1>1, KeptTyped DEF Reap, alive, Typed, TypeOK
<1>2. CASE Restart
  <2>1. ASSUME NEW p \in Procs
        PROVE  agent'[p] \in Client /\ (agent'[p].at \in Attached => agent'[p].sid \in Sids)
    <3>1. agent[p] \in Client /\ (agent[p].at \in Attached => agent[p].sid \in Sids)
      BY DEF Typed, TypeOK
    <3>2. CASE agent[p].at = "polling"
      <4>1. agent'[p] = [agent[p] EXCEPT !.at = "ready"]
        BY <1>2, <3>2 DEF Restart
      <4>2. QED
        BY <3>1, <3>2, <4>1 DEF Client, AgentAt, Attached
    <3>3. CASE agent[p].at \in {"scanned", "retiring"}
      <4>1. agent'[p] = Loop("out", NoSid)
        BY <1>2, <3>3 DEF Restart
      <4>2. QED
        BY <4>1, LoopTyped DEF Loop, Attached, AgentAt
    <3>4. CASE agent[p].at \notin {"polling", "scanned", "retiring"}
      BY <1>2, <3>1, <3>4 DEF Restart
    <3>5. QED
      BY <3>2, <3>3, <3>4
  <2>2. agent' \in [Procs -> Client]
    BY <1>2, <2>1 DEF Restart
  <2>3. /\ req' \in [Requests -> [at : {"open", "waiting", "answered", "late", "failed"},
                                  sid : Sids \cup {NoSid}]]
        /\ slot' \in [Requests -> {"none", "pending", "set", "freed"}]
    BY <1>2 DEF Restart, Typed, TypeOK
  <2>4. QED
    BY <1>2, <2>1, <2>2, <2>3, NoSessionTyped DEF Restart, Typed, TypeOK
<1>3. ASSUME NEW s \in Sids, Disconnect(s)
      PROVE  Typed'
  <2>1. sess' \in [Sids -> Session]
    BY <1>3, PutTyped, KeptTyped DEF Disconnect, Commands, Typed
  <2>2. QED
    BY <1>3, <2>1 DEF Disconnect, Typed, TypeOK
<1>4. ASSUME NEW s \in Sids, Age(s)
      PROVE  Typed'
  <2>1. [sess[s] EXCEPT !.age = IF @ = "fresh" THEN "idle" ELSE "stale"] \in Session
    BY SessionsTyped DEF Session
  <2>2. sess' \in [Sids -> Session]
    BY <1>4, <2>1 DEF Age, Typed, TypeOK
  <2>3. QED
    BY <1>4, <2>2 DEF Age, Typed, TypeOK
<1>5. ASSUME NEW s \in Sids, OrphanEnds(s)
      PROVE  Typed'
  <2>1. sess' \in [Sids -> Session]
    BY <1>5, TailTyped, KeptTyped DEF OrphanEnds, Dequeue, Typed, TypeOK
  <2>2. QED
    BY <1>5, <2>1 DEF OrphanEnds, Typed, TypeOK
<1>6. QED
  BY <1>1, <1>2, <1>3, <1>4, <1>5

\* The steps of an agent.
LEMMA TypedRegister ==
  ASSUME Typed, NEW p \in Procs, Register(p)
  PROVE  Typed'
<1> USE DEF hubVars, agentVars, reqVars
<1>1. agent[p] \in Client /\ (agent[p].at \in Attached => agent[p].sid \in Sids)
  BY DEF Typed, TypeOK
<1>2. Loop("out", NoSid) \in Client /\ Loop("out", NoSid).at \notin Attached
  BY LoopTyped DEF Loop, Attached, AgentAt
<1>3. CASE Scan(p)
  <2>1. [agent[p] EXCEPT !.at = "scanned", !.scan = tree[p]] \in Client
    BY <1>1 DEF Typed, TypeOK, Client, AgentAt
  <2>2. QED
    BY <1>1, <1>3, <2>1, ClientMoves DEF Scan, Typed, TypeOK, Attached
<1>4. CASE RegisterLook(p)
  <2>1. [agent[p] EXCEPT !.at = "retiring", !.olds = alive] \in Client
    BY <1>1 DEF Typed, TypeOK, Client, AgentAt, alive
  <2>2. sess' \in [Sids -> Session] /\ sessions' \subseteq Sids
    BY <1>4, KeptTyped DEF RegisterLook, Typed, TypeOK, alive
  <2>3. QED
    BY <1>1, <1>4, <2>1, <2>2, ClientMoves DEF RegisterLook, Typed, TypeOK, Attached
<1>5. CASE RegisterRetire(p)
  <2>1. PICK s \in agent[p].olds :
          /\ sessions' = sessions \ {s}
          /\ agent' = [agent EXCEPT ![p].olds = @ \ {s}]
          /\ UNCHANGED orphan
          /\ sess' = Kept(Put(s, Stop))
    BY <1>5 DEF RegisterRetire
  <2>2. [agent[p] EXCEPT !.olds = @ \ {s}] \in Client
    BY <1>1 DEF Client
  <2>3. s \in Sids
    BY <1>1 DEF Client
  <2>4. sess' \in [Sids -> Session]
    BY <2>1, <2>3, PutTyped, KeptTyped DEF Commands, Typed
  <2>5. [agent[p] EXCEPT !.olds = @ \ {s}].at \notin Attached
    BY <1>1, <1>5 DEF RegisterRetire, Client, Attached
  <2>6. QED
    BY <1>5, <2>1, <2>2, <2>4, <2>5, ClientMoves DEF RegisterRetire, Typed, TypeOK
<1>6. ASSUME NEW delivered \in BOOLEAN, RegisterInsert(p, delivered)
      PROVE  Typed'
  <2>1. PICK s \in Sids :
          /\ sessions' = sessions \cup {s}
          /\ sess' = [sess EXCEPT ![s] = [proc |-> p, age |-> "fresh", queue |-> <<>>,
                                          catalog |-> agent[p].scan, loaded |-> agent[p].scan]]
          /\ agent' = [agent EXCEPT ![p] = IF delivered THEN Loop("ready", s)
                                                        ELSE Loop("out", NoSid)]
    BY <1>6 DEF RegisterInsert, FreshSids
  <2>2. Loop("ready", s) \in Client /\ Loop("ready", s).sid = s
    BY LoopTyped DEF Loop, AgentAt
  <2>3. agent[p].scan \in Versions
    BY <1>1 DEF Client
  <2>4. sess' \in [Sids -> Session]
    BY <2>1, <2>3 DEF Typed, TypeOK, Session
  <2>5. shown' \in [Procs -> Versions]
    BY <1>6, <2>3 DEF RegisterInsert, Typed, TypeOK
  <2>6. \E a \in Client : /\ agent' = [agent EXCEPT ![p] = a]
                          /\ a.at \in Attached => a.sid \in Sids
    <3>1. CASE delivered
      <4>1. agent' = [agent EXCEPT ![p] = Loop("ready", s)]
        BY <2>1, <3>1
      <4>2. QED
        BY <2>2, <4>1
    <3>2. CASE ~delivered
      <4>1. agent' = [agent EXCEPT ![p] = Loop("out", NoSid)]
        BY <2>1, <3>2
      <4>2. QED
        BY <1>2, <4>1
    <3>3. QED
      BY <3>1, <3>2
  <2>7. QED
    BY <1>6, <2>1, <2>4, <2>5, <2>6, ClientMoves DEF RegisterInsert, Typed, TypeOK
<1>7. CASE RegisterLost(p)
  BY <1>2, <1>7, ClientMoves DEF RegisterLost, Typed, TypeOK
<1>8. QED
  BY <1>3, <1>4, <1>5, <1>6, <1>7 DEF Register

LEMMA TypedServe ==
  ASSUME Typed, NEW p \in Procs, Serve(p)
  PROVE  Typed'
<1> USE DEF hubVars, agentVars, reqVars
<1>1. agent[p] \in Client /\ (agent[p].at \in Attached => agent[p].sid \in Sids)
  BY DEF Typed, TypeOK
<1>2. /\ Loop("out", NoSid) \in Client /\ Loop("out", NoSid).at \notin Attached
      /\ Loop("exited", NoSid) \in Client /\ Loop("exited", NoSid).at \notin Attached
      /\ \A s \in Sids : Loop("ready", s) \in Client /\ Loop("ready", s).sid = s
  BY LoopTyped DEF Loop, Attached, AgentAt
<1>3. CASE PollBegin(p)
  <2>1. CASE Forgotten(p) /\ UNCHANGED sess
    BY <1>2, <1>3, <2>1, ClientMoves DEF PollBegin, Forgotten, Typed, TypeOK
  <2>2. CASE /\ agent[p].sid \in sessions
             /\ Go(p, "ready", "polling")
             /\ sess' = [sess EXCEPT ![agent[p].sid].age = "fresh"]
    <3>1. [agent[p] EXCEPT !.at = "polling"] \in Client
      BY <1>1 DEF Client, AgentAt
    <3>2. agent[p].sid \in Sids
      BY <2>2 DEF Typed, TypeOK
    <3>3. [sess[agent[p].sid] EXCEPT !.age = "fresh"] \in Session
      BY <3>2, SessionsTyped DEF Session
    <3>4. sess' \in [Sids -> Session]
      BY <2>2, <3>3 DEF Typed, TypeOK
    <3>5. QED
      BY <1>1, <1>3, <2>2, <3>1, <3>2, <3>4, ClientMoves DEF PollBegin, Go, Typed, TypeOK
  <2>3. QED
    BY <1>3, <2>1, <2>2 DEF PollBegin
<1>4. ASSUME NEW delivered \in BOOLEAN, PollReturn(p, delivered)
      PROVE  Typed'
  <2>1. agent[p].sid \in Sids /\ sess[agent[p].sid].queue # <<>>
    BY <1>1, <1>4 DEF PollReturn, Attached
  <2>2. sess' \in [Sids -> Session]
    BY <1>4, <2>1, TailTyped, KeptTyped DEF PollReturn, Dequeue, Typed
  <2>3. Head(sess[agent[p].sid].queue) \in Commands
    <3>1. sess[agent[p].sid] \in Session
      BY <2>1 DEF Typed, TypeOK
    <3>2. sess[agent[p].sid].queue \in Seq(Commands)
      BY <3>1 DEF Session
    <3>3. QED
      BY <2>1, <3>2
  <2>4. [agent[p] EXCEPT !.at = "busy", !.cmd = Head(sess[agent[p].sid].queue)] \in Client
    BY <1>1, <2>3 DEF Client, AgentAt
  <2>5. \E a \in Client : /\ agent' = [agent EXCEPT ![p] = a]
                          /\ a.at \in Attached => a.sid \in Sids
    <3>1. CASE ~delivered
      <4>1. agent' = [agent EXCEPT ![p] = Loop("ready", agent[p].sid)]
        BY <1>4, <3>1 DEF PollReturn
      <4>2. QED
        BY <1>2, <2>1, <4>1
    <3>2. CASE delivered /\ Head(sess[agent[p].sid].queue) = Stop
      <4>1. agent' = [agent EXCEPT ![p] = Loop("exited", NoSid)]
        BY <1>4, <3>2 DEF PollReturn
      <4>2. QED
        BY <1>2, <4>1
    <3>3. CASE delivered /\ Head(sess[agent[p].sid].queue) # Stop
      <4>1. agent' = [agent EXCEPT ![p] = [@ EXCEPT !.at = "busy",
                                                    !.cmd = Head(sess[agent[p].sid].queue)]]
        BY <1>4, <3>3 DEF PollReturn
      <4>2. [agent[p] EXCEPT !.at = "busy", !.cmd = Head(sess[agent[p].sid].queue)].sid
              = agent[p].sid
        BY <1>1 DEF Client
      <4>3. QED
        BY <2>1, <2>4, <4>1, <4>2
    <3>4. QED
      BY <3>1, <3>2, <3>3
  <2>6. QED
    BY <1>4, <2>2, <2>5, ClientMoves DEF PollReturn, Typed, TypeOK
<1>5. CASE PollEmpty(p)
  <2>1. [agent[p] EXCEPT !.at = "ready"] \in Client
    BY <1>1 DEF Client, AgentAt
  <2>2. agent[p].sid \in Sids
    BY <1>1, <1>5 DEF PollEmpty, Go, Attached
  <2>3. sess' \in [Sids -> Session]
    BY <1>5, KeptTyped DEF PollEmpty, Typed, TypeOK
  <2>4. orphan' \subseteq Sids
    BY <1>5, <2>2 DEF PollEmpty, Typed, TypeOK
  <2>5. QED
    BY <1>1, <1>5, <2>1, <2>2, <2>3, <2>4, ClientMoves DEF PollEmpty, Go, Typed, TypeOK
<1>6. CASE Execute(p)
  <2>1. agent[p].sid \in Sids
    BY <1>1, <1>6 DEF Execute, Attached
  <2>2. [agent[p] EXCEPT !.at = "posting", !.scan = tree[p]] \in Client
    BY <1>1 DEF Client, AgentAt, Typed, TypeOK
  <2>3. runs' \in [Requests -> Nat]
    <3>1. runs' = [runs EXCEPT ![agent[p].cmd] = @ + 1]
      BY <1>6 DEF Execute
    <3>2. runs \in [Requests -> Nat]
      BY DEF Typed, TypeOK
    <3>3. \A r \in Requests : runs[r] \in Nat /\ runs[r] + 1 \in Nat
      BY <3>2
    <3>4. \A r \in Requests : runs'[r] = IF r = agent[p].cmd THEN runs[r] + 1 ELSE runs[r]
      BY <3>1, <3>2
    <3>5. QED
      BY <3>1, <3>2, <3>3, <3>4
  <2>4. background' \in [Jobs -> Procs \cup {NoSid}]
    BY <1>6 DEF Execute, Typed, TypeOK
  <2>5. \E a \in Client : agent' = [agent EXCEPT ![p] = a] /\ a.sid \in Sids
    <3>1. CASE agent[p].cmd \in Jobs
      <4>1. agent' = [agent EXCEPT ![p] = Loop("ready", agent[p].sid)]
        BY <1>6, <3>1 DEF Execute
      <4>2. QED
        BY <1>2, <2>1, <4>1
    <3>2. CASE agent[p].cmd \notin Jobs
      <4>1. agent' = [agent EXCEPT ![p].at = "posting", ![p].scan = tree[p]]
        BY <1>6, <3>2 DEF Execute
      <4>2. [agent[p] EXCEPT !.at = "posting", !.scan = tree[p]].sid = agent[p].sid
        BY <1>1 DEF Client
      <4>3. QED
        BY <2>1, <2>2, <4>1, <4>2 DEF Typed, TypeOK
    <3>3. QED
      BY <3>1, <3>2
  <2>6. QED
    BY <1>6, <2>3, <2>4, <2>5, ClientMoves DEF Execute, Typed, TypeOK
<1>7. CASE Post(p)
  <2>1. agent[p].sid \in Sids /\ agent[p].scan \in Versions
    BY <1>1, <1>7 DEF Post, Attached, Client
  <2>2. /\ slot' \in [Requests -> {"none", "pending", "set", "freed"}]
        /\ result' \in [Requests -> Versions] /\ shown' \in [Procs -> Versions]
    BY <1>7, <2>1 DEF Post, Receive, Typed, TypeOK
  <2>3. [sess[agent[p].sid] EXCEPT !.catalog = agent[p].scan] \in Session
    BY <2>1, SessionsTyped DEF Session
  <2>4. sess' \in [Sids -> Session]
    BY <1>7, <2>3 DEF Post, Receive, Typed, TypeOK
  <2>5. \E a \in Client : /\ agent' = [agent EXCEPT ![p] = a]
                          /\ a.at \in Attached => a.sid \in Sids
    BY <1>2, <1>7, <2>1 DEF Post, Forgotten
  <2>6. QED
    BY <1>7, <2>2, <2>4, <2>5, ClientMoves DEF Post, Typed, TypeOK
<1>8. QED
  BY <1>3, <1>4, <1>5, <1>6, <1>7 DEF Serve

LEMMA TypedProcess ==
  ASSUME Typed, NEW p \in Procs, Edit(p) \/ Quit(p)
  PROVE  Typed'
<1> USE DEF hubVars, agentVars, reqVars
<1>1. CASE Edit(p)
  <2>1. tree[p] + 1 \in Versions
    BY <1>1, HubAssumption DEF Edit, Typed, TypeOK, Versions
  <2>2. tree' \in [Procs -> Versions]
    BY <1>1, <2>1 DEF Edit, Typed, TypeOK
  <2>3. QED
    BY <1>1, <2>2 DEF Edit, Typed, TypeOK
<1>2. CASE Quit(p)
  <2>1. Loop("exited", NoSid) \in Client /\ Loop("exited", NoSid).at \notin Attached
    BY LoopTyped DEF Loop, Attached, AgentAt
  <2>2. sess' \in [Sids -> Session]
    BY <1>2, KeptTyped DEF Quit, Typed, TypeOK
  <2>3. background' \in [Jobs -> Procs \cup {NoSid}]
    BY <1>2 DEF Quit, Typed, TypeOK
  <2>4. QED
    BY <1>2, <2>1, <2>2, <2>3, ClientMoves DEF Quit, Typed, TypeOK
<1>3. QED
  BY <1>1, <1>2

Inserts == \E p \in Procs, delivered \in BOOLEAN : RegisterInsert(p, delivered)

\* No step but a registration enters a session, and none gives one away.
LEMMA OwnersStay ==
  ASSUME Typed, Next, ~Inserts
  PROVE  /\ sessions' \subseteq sessions
         /\ \A s \in Sids : s \in sessions' \/ Polled(s)' => sess'[s].proc = sess[s].proc
<1> DEFINE Goal == /\ sessions' \subseteq sessions
                   /\ \A s \in Sids : s \in sessions' \/ Polled(s)' => sess'[s].proc = sess[s].proc
<1> USE DEF hubVars
<1>1. sess \in [Sids -> Session] /\ sessions \subseteq Sids
  BY DEF Typed, TypeOK
<1>2. ASSUME NEW s \in Sids, NEW c, sess' = Kept(Put(s, c))
      PROVE  \A t \in Sids : t \in sessions' \/ Polled(t)' => sess'[t].proc = sess[t].proc
  <2>1. \A t \in Sids : Put(s, c)[t].proc = sess[t].proc
    BY <1>1 DEF Put, Session
  <2>2. QED
    BY <1>2, <2>1, KeptObjects
<1>3. ASSUME NEW s \in Sids, Dequeue(s)
      PROVE  \A t \in Sids : t \in sessions' \/ Polled(t)' => sess'[t].proc = sess[t].proc
  <2>1. \A t \in Sids : [sess EXCEPT ![s].queue = Tail(@)][t].proc = sess[t].proc
    BY <1>1 DEF Session
  <2>2. QED
    BY <1>3, <2>1, KeptObjects DEF Dequeue
<1>4. CASE Reap
  BY <1>4, KeptObjects DEF Reap, alive
<1>5. CASE Restart
  <2>1. \A p \in Procs : agent'[p].at # "polling"
    <3> SUFFICES ASSUME NEW p \in Procs PROVE agent'[p].at # "polling"
      OBVIOUS
    <3>1. agent[p] \in Client
      BY DEF Typed, TypeOK
    <3>2. CASE agent[p].at = "polling"
      BY <1>5, <3>1, <3>2 DEF Restart, Client
    <3>3. CASE agent[p].at \in {"scanned", "retiring"}
      BY <1>5, <3>3 DEF Restart, Loop
    <3>4. CASE agent[p].at \notin {"polling", "scanned", "retiring"}
      BY <1>5, <3>4 DEF Restart
    <3>5. QED
      BY <3>2, <3>3, <3>4
  <2>2. QED
    BY <1>5, <2>1 DEF Restart, Polled
<1>6. ASSUME NEW s \in Sids, Disconnect(s) \/ Age(s) \/ OrphanEnds(s)
      PROVE  Goal
  <2>1. CASE Disconnect(s)
    BY <1>2, <2>1 DEF Disconnect
  <2>2. CASE Age(s)
    BY <1>1, <2>2 DEF Age, Session
  <2>3. CASE OrphanEnds(s)
    BY <1>3, <2>3, KeptObjects DEF OrphanEnds
  <2>4. QED
    BY <1>6, <2>1, <2>2, <2>3
<1>7. ASSUME NEW p \in Procs, Register(p)
      PROVE  Goal
  <2>1. CASE RegisterRetire(p)
    <3>1. PICK s \in agent[p].olds : sessions' = sessions \ {s} /\ sess' = Kept(Put(s, Stop))
      BY <2>1 DEF RegisterRetire
    <3>2. s \in Sids
      BY DEF Typed, TypeOK, Client
    <3>3. QED
      BY <1>2, <3>1, <3>2
  <2>2. CASE RegisterLook(p)
    BY <2>2, KeptObjects DEF RegisterLook, alive
  <2>3. CASE Scan(p) \/ RegisterLost(p)
    BY <2>3 DEF Scan, RegisterLost
  <2>4. QED
    BY <1>7, <2>1, <2>2, <2>3 DEF Register, Inserts
<1>8. ASSUME NEW p \in Procs, Serve(p)
      PROVE  Goal
  <2>1. CASE PollBegin(p)
    BY <1>1, <2>1 DEF PollBegin, Session
  <2>2. ASSUME NEW delivered \in BOOLEAN, PollReturn(p, delivered)
        PROVE  Goal
    BY <1>3, <2>2 DEF PollReturn, Typed, Attached
  <2>3. CASE PollEmpty(p)
    BY <2>3, KeptObjects DEF PollEmpty
  <2>4. CASE Execute(p)
    BY <2>4 DEF Execute
  <2>5. CASE Post(p)
    BY <1>1, <2>5 DEF Post, Receive, Session
  <2>6. QED
    BY <1>8, <2>1, <2>2, <2>3, <2>4, <2>5 DEF Serve
<1>9. ASSUME NEW p \in Procs, Edit(p) \/ Quit(p)
      PROVE  Goal
  BY <1>9, KeptObjects DEF Edit, Quit
<1>10. ASSUME NEW r \in Jobs, JobPost(r) \/ JobPoll(r)
       PROVE  Goal
  <2>1. r \notin CatalogRequests
    BY HubAssumption
  <2>2. UNCHANGED sess
    BY <1>10, <2>1 DEF JobPost, JobPoll, Receive
  <2>3. QED
    BY <1>10, <2>2 DEF JobPost, JobPoll
<1>11. ASSUME NEW r \in Requests, Ask(r)
       PROVE  Goal
  BY <1>1, <1>11 DEF Ask, Put, Session
<1>12. ASSUME NEW r \in Requests, Answered(r) \/ TimedOut(r)
       PROVE  Goal
  <2>1. Snapshot(r) /\ UNCHANGED sessions
    BY <1>12 DEF Answered, TimedOut
  <2>2. \A s \in Sids : sess'[s].proc = sess[s].proc
    BY <1>1, <2>1 DEF Snapshot, Session
  <2>3. QED
    BY <2>1, <2>2
<1>13. QED
  BY <1>4, <1>5, <1>6, <1>7, <1>8, <1>9, <1>10, <1>11, <1>12 DEF Next

LEMMA OwnedStep ==
  ASSUME Typed, Owned, [Next]_vars
  PROVE  Owned'
<1>1. CASE UNCHANGED vars
  BY <1>1 DEF vars, hubVars, Owned
<1>2. CASE Next /\ ~Inserts
  BY <1>2, OwnersStay DEF Owned, Typed, TypeOK
<1>3. CASE Inserts
  <2>1. PICK p \in Procs, s \in FreshSids :
          /\ sessions' = sessions \cup {s}
          /\ sess' = [sess EXCEPT ![s] = [proc |-> p, age |-> "fresh", queue |-> <<>>,
                                          catalog |-> agent[p].scan, loaded |-> agent[p].scan]]
    BY <1>3 DEF Inserts, RegisterInsert
  <2>2. s \in Sids
    BY DEF FreshSids
  <2>3. QED
    BY <2>1, <2>2 DEF Owned, Typed, TypeOK
<1>4. QED
  BY <1>1, <1>2, <1>3

\* The steps of the callers and of a job's thread.
LEMMA TypedRequests ==
  ASSUME Typed, Owned,
         \/ \E r \in Jobs : JobPost(r) \/ JobPoll(r)
         \/ \E r \in Requests : Ask(r) \/ Answered(r) \/ TimedOut(r)
  PROVE  Typed'
<1> USE DEF hubVars, agentVars, reqVars
<1>1. ASSUME NEW r \in Jobs, JobPost(r)
      PROVE  Typed'
  <2>1. r \notin CatalogRequests /\ 0 \in Versions
    BY HubAssumption DEF Versions
  <2>2. UNCHANGED sess
    BY <1>1, <2>1 DEF JobPost, Receive
  <2>3. /\ background' \in [Jobs -> Procs \cup {NoSid}]
        /\ slot' \in [Requests -> {"none", "pending", "set", "freed"}]
        /\ result' \in [Requests -> Versions]
    BY <1>1, <2>1 DEF JobPost, Receive, Typed, TypeOK
  <2>4. QED
    BY <1>1, <2>2, <2>3 DEF JobPost, Typed, TypeOK
<1>2. ASSUME NEW r \in Jobs, JobPoll(r)
      PROVE  Typed'
  <2>1. slot' \in [Requests -> {"none", "pending", "set", "freed"}]
    BY <1>2 DEF JobPoll, Typed, TypeOK
  <2>2. PICK at \in {"answered", "failed"} : req' = [req EXCEPT ![r].at = at]
    BY <1>2 DEF JobPoll
  <2>3. req' \in [Requests -> [at : {"open", "waiting", "answered", "late", "failed"},
                              sid : Sids \cup {NoSid}]]
    BY <2>2 DEF Typed, TypeOK
  <2>4. QED
    BY <1>2, <2>1, <2>3 DEF JobPoll, Typed, TypeOK
<1>3. ASSUME NEW r \in Requests, Ask(r)
      PROVE  Typed'
  <2>1. PICK s \in Sids : /\ s \in sessions
                          /\ req' = [req EXCEPT ![r] = [at |-> "waiting", sid |-> s]]
                          /\ sess' = Put(s, r)
                          /\ asked' = [asked EXCEPT ![r] = [tree |-> tree[sess[s].proc],
                                                            shown |-> shown[sess[s].proc],
                                                            cached |-> sess[s].catalog]]
    BY <1>3 DEF Ask, Typed, TypeOK
  <2>2. sess' \in [Sids -> Session]
    BY <2>1, PutTyped DEF Commands, Typed
  <2>3. /\ tree[sess[s].proc] \in Versions /\ shown[sess[s].proc] \in Versions
        /\ sess[s].catalog \in Versions
    BY <2>1 DEF Owned, Typed, TypeOK, Session
  <2>4. asked' \in [Requests -> [tree : Versions, shown : Versions, cached : Versions]]
    BY <2>1, <2>3 DEF Typed, TypeOK
  <2>5. req' \in [Requests -> [at : {"open", "waiting", "answered", "late", "failed"},
                              sid : Sids \cup {NoSid}]]
    BY <2>1 DEF Typed, TypeOK
  <2>6. QED
    BY <1>3, <2>2, <2>4, <2>5 DEF Ask, Typed, TypeOK
<1>4. ASSUME NEW r \in Requests, Snapshot(r)
      PROVE  sess' \in [Sids -> Session]
  <2>1. CASE r \in Syncs /\ req[r].sid \in sessions
    <3>1. req[r].sid \in Sids
      BY <2>1 DEF Typed, TypeOK
    <3>2. [sess[req[r].sid] EXCEPT !.loaded = sess[req[r].sid].catalog] \in Session
      BY <3>1, SessionsTyped DEF Session
    <3>3. QED
      BY <1>4, <2>1, <3>2 DEF Snapshot, Typed, TypeOK
  <2>2. CASE ~(r \in Syncs /\ req[r].sid \in sessions)
    BY <1>4, <2>2 DEF Snapshot, Typed, TypeOK
  <2>3. QED
    BY <2>1, <2>2
<1>5. ASSUME NEW r \in Requests, Answered(r) \/ TimedOut(r)
      PROVE  Typed'
  <2>1. sess' \in [Sids -> Session]
    BY <1>4, <1>5 DEF Answered, TimedOut
  <2>2. req' \in [Requests -> [at : {"open", "waiting", "answered", "late", "failed"},
                              sid : Sids \cup {NoSid}]]
    BY <1>5 DEF Answered, TimedOut, Typed, TypeOK
  <2>3. QED
    BY <1>5, <2>1, <2>2 DEF Answered, TimedOut, Typed, TypeOK
<1>6. QED
  BY <1>1, <1>2, <1>3, <1>5

LEMMA TypedInvariant == Spec => [](Typed /\ Owned)
<1>1. Init => Typed /\ Owned
  <2> SUFFICES ASSUME Init PROVE Typed /\ Owned
    OBVIOUS
  <2>1. 0 \in Versions
    BY HubAssumption DEF Versions
  <2>2. Loop("out", NoSid) \in Client /\ Loop("out", NoSid).at \notin Attached
    BY LoopTyped DEF Loop, Attached, AgentAt
  <2>3. QED
    BY <2>1, <2>2, NoSessionTyped DEF Init, Typed, TypeOK, Owned
<1>2. Typed /\ Owned /\ [Next]_vars => (Typed /\ Owned)'
  <2> SUFFICES ASSUME Typed, Owned, [Next]_vars PROVE Typed' /\ Owned'
    OBVIOUS
  <2>1. UNCHANGED vars => Typed'
    BY DEF vars, hubVars, agentVars, reqVars, Typed, TypeOK
  <2>2. Next => Typed'
    BY TypedServer, TypedRegister, TypedServe, TypedProcess, TypedRequests DEF Next
  <2>3. QED
    BY <2>1, <2>2, OwnedStep
<1>3. QED
  BY <1>1, <1>2, PTL DEF Spec

-----------------------------------------------------------------------------
(* Whose a session is *)

\* But for a registration, an agent keeps its id or forgets it, begins to poll only a session
\* in the table, and has all that it will retire in view.
LEMMA ClientsStay ==
  ASSUME Typed, Next, ~Inserts, NEW p \in Procs
  PROVE  /\ agent'[p].sid \in {agent[p].sid, NoSid}
         /\ agent'[p].at = "polling" => agent[p].at = "polling" \/ agent[p].sid \in sessions
         /\ agent'[p].at = "retiring" =>
              \/ sessions' \subseteq agent'[p].olds
              \/ agent[p].at = "retiring" /\ agent[p].olds \cap sessions' \subseteq agent'[p].olds
<1> DEFINE Goal(q) ==
      /\ agent'[q].sid \in {agent[q].sid, NoSid}
      /\ agent'[q].at = "polling" => agent[q].at = "polling" \/ agent[q].sid \in sessions
      /\ agent'[q].at = "retiring" =>
           \/ sessions' \subseteq agent'[q].olds
           \/ agent[q].at = "retiring" /\ agent[q].olds \cap sessions' \subseteq agent'[q].olds
<1> USE DEF agentVars
<1>1. \A q \in Procs : agent[q] \in Client
  BY DEF Typed, TypeOK
<1>2. agent \in [Procs -> Client]
  BY DEF Typed, TypeOK
<1>3. ASSUME NEW q \in Procs, NEW at, at \notin {"polling", "retiring"}, NEW sid,
             sid \in {agent[q].sid, NoSid}, agent' = [agent EXCEPT ![q] = Loop(at, sid)]
      PROVE  \A r \in Procs : Goal(r)
  BY <1>2, <1>3 DEF Loop
<1>4. UNCHANGED agent => \A q \in Procs : Goal(q)
  OBVIOUS
<1> SUFFICES Goal(p)
  OBVIOUS
<1> HIDE DEF Goal
<1>5. CASE Reap \/ \E s \in Sids : Disconnect(s) \/ Age(s) \/ OrphanEnds(s)
  BY <1>4, <1>5 DEF Reap, Disconnect, Age, OrphanEnds
<1>6. CASE Restart
  <2>1. CASE agent[p].at = "polling"
    BY <1>1, <1>6, <2>1 DEF Restart, Client, Goal
  <2>2. CASE agent[p].at \in {"scanned", "retiring"}
    BY <1>6, <2>2 DEF Restart, Loop, Goal
  <2>3. CASE agent[p].at \notin {"polling", "scanned", "retiring"}
    BY <1>6, <2>3 DEF Restart, Goal
  <2>4. QED
    BY <2>1, <2>2, <2>3 DEF Goal
<1>7. ASSUME NEW q \in Procs, Register(q)
      PROVE  \A r \in Procs : Goal(r)
  <2>1. CASE RegisterLost(q)
    BY <1>3, <2>1 DEF RegisterLost
  <2>2. CASE Scan(q)
    BY <1>1, <1>2, <2>2 DEF Scan, Client, Goal
  <2>3. CASE RegisterLook(q)
    BY <1>1, <1>2, <2>3 DEF RegisterLook, Client, Goal
  <2>4. CASE RegisterRetire(q)
    BY <1>1, <1>2, <2>4 DEF RegisterRetire, Client, Goal
  <2>5. QED
    BY <1>7, <2>1, <2>2, <2>3, <2>4 DEF Register, Inserts
<1>8. ASSUME NEW q \in Procs, Serve(q)
      PROVE  \A r \in Procs : Goal(r)
  <2>1. CASE PollBegin(q)
    <3>1. CASE Forgotten(q)
      BY <1>3, <3>1 DEF Forgotten
    <3>2. CASE agent[q].sid \in sessions /\ Go(q, "ready", "polling")
      BY <1>1, <1>2, <3>2 DEF Go, Client, Goal
    <3>3. QED
      BY <2>1, <3>1, <3>2 DEF PollBegin
  <2>2. ASSUME NEW delivered \in BOOLEAN, PollReturn(q, delivered)
        PROVE  \A r \in Procs : Goal(r)
    <3>1. CASE ~delivered
      BY <1>3, <2>2, <3>1 DEF PollReturn
    <3>2. CASE delivered /\ Head(sess[agent[q].sid].queue) = Stop
      <4>1. agent' = [agent EXCEPT ![q] = Loop("exited", NoSid)]
        BY <2>2, <3>2 DEF PollReturn
      <4>2. QED
        BY <1>3, <4>1
    <3>3. CASE delivered /\ Head(sess[agent[q].sid].queue) # Stop
      <4> DEFINE b == [agent[q] EXCEPT !.at = "busy", !.cmd = Head(sess[agent[q].sid].queue)]
      <4>1. agent' = [agent EXCEPT ![q] = b]
        BY <2>2, <3>3 DEF PollReturn
      <4>2. b.at = "busy" /\ b.sid = agent[q].sid
        BY <1>1 DEF Client
      <4> HIDE DEF b
      <4>3. QED
        BY <1>2, <4>1, <4>2 DEF Goal
    <3>4. QED
      BY <3>1, <3>2, <3>3
  <2>3. CASE PollEmpty(q)
    BY <1>1, <1>2, <2>3 DEF PollEmpty, Go, Client, Goal
  <2>4. CASE Execute(q)
    <3>1. CASE agent[q].cmd \in Jobs
      BY <1>3, <2>4, <3>1 DEF Execute
    <3>2. CASE agent[q].cmd \notin Jobs
      <4>1. agent' = [agent EXCEPT ![q].at = "posting", ![q].scan = tree[q]]
        BY <2>4, <3>2 DEF Execute
      <4>2. QED
        BY <1>1, <1>2, <4>1 DEF Client, Goal
    <3>3. QED
      BY <3>1, <3>2
  <2>5. CASE Post(q)
    BY <1>3, <2>5 DEF Post, Forgotten
  <2>6. QED
    BY <1>8, <2>1, <2>2, <2>3, <2>4, <2>5 DEF Serve
<1>9. ASSUME NEW q \in Procs, Edit(q) \/ Quit(q)
      PROVE  \A r \in Procs : Goal(r)
  BY <1>3, <1>4, <1>9 DEF Edit, Quit
<1>10. CASE \/ \E r \in Jobs : JobPost(r) \/ JobPoll(r)
            \/ \E r \in Requests : Ask(r) \/ Answered(r) \/ TimedOut(r)
  BY <1>4, <1>10 DEF JobPost, JobPoll, Ask, Answered, TimedOut
<1>11. QED
  BY <1>5, <1>6, <1>7, <1>8, <1>9, <1>10 DEF Next

\* A registration enters a session under an id nothing refers to, when none of the process's
\* own is left.
LEMMA InsertsFresh ==
  ASSUME Typed, Inserts
  PROVE  \E p \in Procs, s \in FreshSids, delivered \in BOOLEAN :
           /\ agent[p].at = "retiring" /\ agent[p].olds = {}
           /\ sessions' = sessions \cup {s} /\ UNCHANGED <<orphan, tree, background, reqVars>>
           /\ sess' = [sess EXCEPT ![s] = [proc |-> p, age |-> "fresh", queue |-> <<>>,
                                           catalog |-> agent[p].scan, loaded |-> agent[p].scan]]
           /\ agent' = [agent EXCEPT ![p] = IF delivered THEN Loop("ready", s)
                                                         ELSE Loop("out", NoSid)]
           /\ shown' = [shown EXCEPT ![p] = IF @ < agent[p].scan THEN agent[p].scan ELSE @]
BY DEF Inserts, RegisterInsert

LEMMA IdentityInserts ==
  ASSUME Typed, Identity, Inserts
  PROVE  Identity'
<1>1. PICK p \in Procs, s \in FreshSids, delivered \in BOOLEAN :
        /\ agent[p].at = "retiring" /\ agent[p].olds = {}
        /\ sessions' = sessions \cup {s}
        /\ sess' = [sess EXCEPT ![s] = [proc |-> p, age |-> "fresh", queue |-> <<>>,
                                        catalog |-> agent[p].scan, loaded |-> agent[p].scan]]
        /\ agent' = [agent EXCEPT ![p] = IF delivered THEN Loop("ready", s)
                                                      ELSE Loop("out", NoSid)]
  BY InsertsFresh
<1>2. /\ s \in Sids /\ s \notin sessions /\ s # NoSid
      /\ \A q \in Procs : agent[q].sid # s
  BY HubAssumption DEF FreshSids, InUse
<1>3. /\ agent'[p].at \in {"ready", "out"}
      /\ agent'[p].sid \in {s, NoSid}
      /\ \A q \in Procs : q # p => agent'[q] = agent[q]
  BY <1>1 DEF Typed, TypeOK, Loop
<1>4. /\ sess'[s].proc = p
      /\ \A t \in Sids : t # s => sess'[t] = sess[t]
  BY <1>1, <1>2 DEF Typed, TypeOK
<1>5. sessions \subseteq Sids
  BY DEF Typed, TypeOK
<1>6. \A q, r \in Procs : agent'[q].sid = agent'[r].sid /\ agent'[q].sid # NoSid => q = r
  BY <1>2, <1>3 DEF Identity
<1>7. \A q \in Procs : agent'[q].sid \in sessions' \/ agent'[q].at = "polling"
                         => sess'[agent'[q].sid].proc = q
  <2> SUFFICES ASSUME NEW q \in Procs, agent'[q].sid \in sessions' \/ agent'[q].at = "polling"
               PROVE  sess'[agent'[q].sid].proc = q
    OBVIOUS
  <2>1. CASE q = p
    BY <1>1, <1>3, <1>4, <1>5, <2>1, HubAssumption
  <2>2. CASE q # p
    <3>1. agent[q].sid \in Sids /\ (agent[q].sid \in sessions \/ agent[q].at = "polling")
      BY <1>1, <1>2, <1>3, <1>5, <2>2 DEF Typed, Attached
    <3>2. QED
      BY <1>2, <1>3, <1>4, <2>2, <3>1 DEF Identity
  <2>3. QED
    BY <2>1, <2>2
<1>8. \A t \in sessions : sess[t].proc # p
  BY <1>1 DEF Identity
<1>9. \A q \in Procs : agent'[q].at = "retiring" =>
        \A t \in sessions' : sess'[t].proc = q => t \in agent'[q].olds
  BY <1>1, <1>3, <1>4, <1>5 DEF Identity
<1>10. \A t, u \in sessions' : sess'[t].proc = sess'[u].proc => t = u
  BY <1>1, <1>4, <1>5, <1>8 DEF Identity, OneSessionPerProcess
<1>11. QED
  BY <1>6, <1>7, <1>9, <1>10 DEF Identity, OneSessionPerProcess

LEMMA IdentityStep ==
  ASSUME Typed, Identity, Typed', [Next]_vars
  PROVE  Identity'
<1>1. CASE UNCHANGED vars
  BY <1>1 DEF vars, hubVars, agentVars, Identity, OneSessionPerProcess
<1>2. CASE Next /\ ~Inserts
  <2>1. /\ sessions' \subseteq sessions /\ sessions \subseteq Sids
        /\ \A s \in Sids : s \in sessions' \/ Polled(s)' => sess'[s].proc = sess[s].proc
    BY <1>2, OwnersStay DEF Typed, TypeOK
  <2>2. \A p \in Procs :
          /\ agent'[p].sid \in {agent[p].sid, NoSid}
          /\ agent'[p].at = "polling" => agent[p].at = "polling" \/ agent[p].sid \in sessions
          /\ agent'[p].at = "retiring" =>
               \/ sessions' \subseteq agent'[p].olds
               \/ agent[p].at = "retiring" /\ agent[p].olds \cap sessions' \subseteq agent'[p].olds
    BY <1>2, ClientsStay
  <2>3. \A p, q \in Procs : agent'[p].sid = agent'[q].sid /\ agent'[p].sid # NoSid => p = q
    BY <2>2 DEF Identity
  <2>4. ASSUME NEW p \in Procs, agent'[p].sid \in sessions' \/ agent'[p].at = "polling"
        PROVE  sess'[agent'[p].sid].proc = p
    <3>1. agent'[p].sid \in Sids /\ agent'[p].sid = agent[p].sid
      BY <2>1, <2>2, <2>4, HubAssumption DEF Typed, Attached
    <3>2. sess'[agent[p].sid].proc = sess[agent[p].sid].proc
      BY <2>1, <2>4, <3>1 DEF Polled
    <3>3. agent[p].sid \in sessions \/ agent[p].at = "polling"
      BY <2>1, <2>2, <2>4, <3>1
    <3>4. QED
      BY <3>1, <3>2, <3>3 DEF Identity
  <2>5. \A p \in Procs : agent'[p].at = "retiring" =>
          \A s \in sessions' : sess'[s].proc = p => s \in agent'[p].olds
    BY <2>1, <2>2 DEF Identity
  <2>6. \A s, t \in sessions' : sess'[s].proc = sess'[t].proc => s = t
    BY <2>1 DEF Identity, OneSessionPerProcess
  <2>7. QED
    BY <2>3, <2>4, <2>5, <2>6 DEF Identity, OneSessionPerProcess
<1>3. CASE Inserts
  BY <1>3, IdentityInserts
<1>4. QED
  BY <1>1, <1>2, <1>3

LEMMA IdentityInvariant == Spec => [](Typed /\ Owned /\ Identity)
<1>1. Init => Identity
  BY DEF Init, Identity, OneSessionPerProcess, Loop
<1>2. Typed /\ Identity /\ Typed' /\ [Next]_vars => Identity'
  BY IdentityStep
<1>3. QED
  BY <1>1, <1>2, TypedInvariant, PTL DEF Spec

\* However often a process has had to register again, and whatever was lost on the way, the
\* server knows at most one session of it.
THEOREM OneSession == Spec => []OneSessionPerProcess
<1>1. Identity => OneSessionPerProcess
  BY DEF Identity
<1>2. QED
  BY <1>1, IdentityInvariant, PTL

-----------------------------------------------------------------------------
(* Where a command is *)

\* Nothing but Stop has been added to a queue, and at most its head taken.
QueueFrom(new, old) ==
  \E taken \in {0, 1} : \A i \in DOMAIN new :
    new[i] = Stop \/ (i + taken \in DOMAIN old /\ new[i] = old[i + taken])

LEMMA QueueChanges ==
  ASSUME NEW q \in Seq(Commands)
  PROVE  /\ QueueFrom(q, q) /\ QueueFrom(<<>>, q) /\ QueueFrom(Append(q, Stop), q)
         /\ q # <<>> => QueueFrom(Tail(q), q)
<1>1. QueueFrom(q, q) /\ QueueFrom(<<>>, q)
  BY DEF QueueFrom
<1>2. QueueFrom(Append(q, Stop), q)
  <2>1. \A i \in DOMAIN Append(q, Stop) :
          Append(q, Stop)[i] = Stop \/ (i + 0 \in DOMAIN q /\ Append(q, Stop)[i] = q[i + 0])
    OBVIOUS
  <2>2. QED
    BY <2>1 DEF QueueFrom
<1>3. ASSUME q # <<>>
      PROVE  QueueFrom(Tail(q), q)
  <2>1. \A i \in DOMAIN Tail(q) : i + 1 \in DOMAIN q /\ Tail(q)[i] = q[i + 1]
    BY <1>3
  <2>2. QED
    BY <2>1 DEF QueueFrom
<1>4. QED
  BY <1>1, <1>2, <1>3

LEMMA QueueIsSeq == Typed => \A s \in Sids : sess[s].queue \in Seq(Commands)
BY DEF Typed, TypeOK, Session

\* Only a new request is added to a queue.
LEMMA QueuesMove ==
  ASSUME Typed, Next, \A r \in Requests : ~Ask(r)
  PROVE  \A s \in Sids : QueueFrom(sess'[s].queue, sess[s].queue)
<1> DEFINE Goal == \A s \in Sids : QueueFrom(sess'[s].queue, sess[s].queue)
<1> USE DEF hubVars
<1>1. sess \in [Sids -> Session]
  BY DEF Typed, TypeOK
<1>2. \A s \in Sids : sess'[s].queue = sess[s].queue => QueueFrom(sess'[s].queue, sess[s].queue)
  BY QueueChanges, QueueIsSeq
<1>3. ASSUME NEW objects, sess' = Kept(objects),
             \A s \in Sids : QueueFrom(objects[s].queue, sess[s].queue)
      PROVE  Goal
  <2>1. \A s \in Sids : QueueFrom(NoSession.queue, sess[s].queue)
    BY QueueChanges, QueueIsSeq DEF NoSession
  <2>2. QED
    BY <1>3, <2>1, KeptObjects
<1>4. ASSUME sess' = Kept(sess)
      PROVE  Goal
  BY <1>3, <1>4, QueueChanges, QueueIsSeq
<1>5. ASSUME NEW s \in Sids, sess' = Kept(Put(s, Stop))
      PROVE  Goal
  <2>1. \A t \in Sids : Put(s, Stop)[t].queue =
                          IF t = s THEN Append(sess[t].queue, Stop) ELSE sess[t].queue
    BY <1>1 DEF Put, Session
  <2>2. QED
    BY <1>3, <1>5, <2>1, QueueChanges, QueueIsSeq
<1>6. ASSUME NEW s \in Sids, Dequeue(s)
      PROVE  Goal
  <2>1. \A t \in Sids : [sess EXCEPT ![s].queue = Tail(@)][t].queue =
                          IF t = s THEN Tail(sess[t].queue) ELSE sess[t].queue
    BY <1>1 DEF Session
  <2>2. QED
    BY <1>3, <1>6, <2>1, QueueChanges, QueueIsSeq DEF Dequeue
<1> HIDE DEF Goal
<1>7. UNCHANGED sess => Goal
  BY <1>2 DEF Goal
<1>8. CASE Reap \/ Restart
  <2>1. CASE Restart
    BY <2>1, QueueChanges, QueueIsSeq DEF Restart, NoSession, Goal
  <2>2. QED
    BY <1>4, <1>8, <2>1 DEF Reap, Goal
<1>9. ASSUME NEW s \in Sids, Disconnect(s) \/ Age(s) \/ OrphanEnds(s)
      PROVE  Goal
  <2>1. CASE Age(s)
    BY <1>1, <1>2, <2>1 DEF Age, Session, Goal
  <2>2. QED
    BY <1>4, <1>5, <1>6, <1>9, <2>1 DEF Disconnect, OrphanEnds
<1>10. ASSUME NEW p \in Procs, Register(p)
       PROVE  Goal
  <2>1. CASE RegisterRetire(p)
    <3>1. PICK s \in agent[p].olds : sess' = Kept(Put(s, Stop))
      BY <2>1 DEF RegisterRetire
    <3>2. s \in Sids
      BY DEF Typed, TypeOK, Client
    <3>3. QED
      BY <1>5, <3>1, <3>2
  <2>2. CASE Scan(p) \/ RegisterLost(p) \/ RegisterLook(p)
    BY <1>4, <1>7, <2>2 DEF Scan, RegisterLost, RegisterLook
  <2>3. ASSUME NEW delivered \in BOOLEAN, RegisterInsert(p, delivered)
        PROVE  Goal
    <3>1. PICK s \in FreshSids :
            sess' = [sess EXCEPT ![s] = [proc |-> p, age |-> "fresh", queue |-> <<>>,
                                         catalog |-> agent[p].scan, loaded |-> agent[p].scan]]
      BY <2>3 DEF RegisterInsert
    <3>2. \A t \in Sids : sess'[t].queue = IF t = s THEN <<>> ELSE sess[t].queue
      BY <1>1, <3>1
    <3>3. QED
      BY <3>2, QueueChanges, QueueIsSeq DEF Goal
  <2>4. QED
    BY <1>10, <2>1, <2>2, <2>3 DEF Register
<1>11. ASSUME NEW p \in Procs, Serve(p)
       PROVE  Goal
  <2>1. CASE PollBegin(p)
    BY <1>1, <1>2, <2>1 DEF PollBegin, Session, Goal
  <2>2. ASSUME NEW delivered \in BOOLEAN, PollReturn(p, delivered)
        PROVE  Goal
    BY <1>6, <2>2 DEF PollReturn, Typed, Attached
  <2>3. CASE PollEmpty(p) \/ Execute(p)
    BY <1>4, <1>7, <2>3 DEF PollEmpty, Execute
  <2>4. CASE Post(p)
    BY <1>1, <1>2, <2>4 DEF Post, Receive, Session, Goal
  <2>5. QED
    BY <1>11, <2>1, <2>2, <2>3, <2>4 DEF Serve
<1>12. ASSUME NEW p \in Procs, Edit(p) \/ Quit(p)
       PROVE  Goal
  BY <1>4, <1>7, <1>12 DEF Edit, Quit
<1>13. ASSUME NEW r \in Jobs, JobPost(r) \/ JobPoll(r)
       PROVE  Goal
  <2>1. r \notin CatalogRequests
    BY HubAssumption
  <2>2. QED
    BY <1>7, <1>13, <2>1 DEF JobPost, JobPoll, Receive
<1>14. ASSUME NEW r \in Requests, Answered(r) \/ TimedOut(r)
       PROVE  Goal
  <2>1. \A s \in Sids : sess'[s].queue = sess[s].queue
    BY <1>1, <1>14 DEF Answered, TimedOut, Snapshot, Session
  <2>2. QED
    BY <1>2, <2>1 DEF Goal
<1>15. QED
  BY <1>8, <1>9, <1>10, <1>11, <1>12, <1>13, <1>14 DEF Next, Goal

\* What a step may do without touching a command: take from queues, drop sessions and jobs, and
\* let agents go on.
LEMMA CommandedFrame ==
  ASSUME Typed, Typed', Commanded, UNCHANGED <<req, slot, runs>>, sessions' \subseteq sessions,
         \A s \in Sids : QueueFrom(sess'[s].queue, sess[s].queue),
         \A r \in Jobs : background'[r] \in {background[r], NoSid},
         \A p \in Procs : agent'[p].at \in {"busy", "posting"} =>
           /\ agent'[p].at = agent[p].at
           /\ agent'[p].sid = agent[p].sid /\ agent'[p].cmd = agent[p].cmd
  PROVE  Commanded'
<1>1. ASSUME NEW s \in Sids
      PROVE  Queued(s)'
  <2>1. PICK taken \in {0, 1} : \A i \in DOMAIN sess'[s].queue :
          \/ sess'[s].queue[i] = Stop
          \/ i + taken \in DOMAIN sess[s].queue /\ sess'[s].queue[i] = sess[s].queue[i + taken]
    BY DEF QueueFrom
  <2>2. DOMAIN sess'[s].queue \subseteq Nat
    <3>1. sess'[s] \in Session
      BY DEF Typed, TypeOK
    <3>2. sess'[s].queue \in Seq(Commands)
      BY <3>1 DEF Session
    <3>3. QED
      BY <3>2
  <2>3. Queued(s)
    BY DEF Commanded
  <2>4. QED
    BY <2>1, <2>2, <2>3 DEF Queued
<1>2. ASSUME NEW p \in Procs
      PROVE  InHand(p)'
  <2>1. CASE agent'[p].at \in {"busy", "posting"}
    <3>1. InHand(p) /\ Working(p)
      BY <2>1 DEF Commanded, Working
    <3>2. ASSUME agent[p].at = "busy", NEW i \in DOMAIN sess'[agent[p].sid].queue
          PROVE  sess'[agent[p].sid].queue[i] # agent[p].cmd
      <4>1. agent[p].sid \in Sids
        BY <3>2 DEF Typed, Attached
      <4>2. agent[p].cmd # Stop
        BY <3>1, HubAssumption DEF InHand
      <4>3. QED
        BY <3>1, <3>2, <4>1, <4>2 DEF InHand, QueueFrom
    <3>3. QED
      BY <2>1, <3>1, <3>2 DEF InHand, Working
  <2>2. CASE agent'[p].at \notin {"busy", "posting"}
    BY <2>2 DEF InHand, Working
  <2>3. QED
    BY <2>1, <2>2
<1>3. QED
  BY <1>1, <1>2 DEF Commanded

\* Steps that touch no command.
LEMMA CommandedQuiet ==
  ASSUME Typed, Typed', Commanded, sessions' \subseteq sessions,
         \A s \in Sids : QueueFrom(sess'[s].queue, sess[s].queue),
         \/ Reap
         \/ \E s \in Sids : Disconnect(s) \/ Age(s) \/ OrphanEnds(s)
         \/ \E p \in Procs : Register(p) \/ PollBegin(p) \/ PollEmpty(p) \/ Edit(p) \/ Quit(p)
  PROVE  Commanded'
<1> DEFINE Same(q) == agent'[q].at \in {"busy", "posting"} =>
                        /\ agent'[q].at = agent[q].at
                        /\ agent'[q].sid = agent[q].sid /\ agent'[q].cmd = agent[q].cmd
<1> USE DEF hubVars, agentVars, reqVars
<1>1. agent \in [Procs -> Client]
  BY DEF Typed, TypeOK
<1>2. ASSUME NEW q \in Procs, NEW a, a.at \notin {"busy", "posting"},
             agent' = [agent EXCEPT ![q] = a]
      PROVE  \A p \in Procs : Same(p)
  BY <1>1, <1>2
<1>3. UNCHANGED agent => \A p \in Procs : Same(p)
  OBVIOUS
<1>4. ASSUME NEW q \in Procs, NEW at, at \notin {"busy", "posting"}, NEW sid,
             agent' = [agent EXCEPT ![q] = Loop(at, sid)]
      PROVE  \A p \in Procs : Same(p)
  BY <1>2, <1>4 DEF Loop
<1>5. ASSUME NEW q \in Procs, Register(q)
      PROVE  UNCHANGED <<req, slot, runs, background>> /\ \A p \in Procs : Same(p)
  <2>1. CASE Scan(q)
    BY <1>1, <2>1 DEF Scan, Client
  <2>2. CASE RegisterLook(q)
    BY <1>1, <2>2 DEF RegisterLook, Client
  <2>3. CASE RegisterRetire(q)
    BY <1>1, <2>3 DEF RegisterRetire, Client
  <2>4. ASSUME NEW delivered \in BOOLEAN, RegisterInsert(q, delivered)
        PROVE  UNCHANGED <<req, slot, runs, background>> /\ \A p \in Procs : Same(p)
    <3>1. PICK s \in FreshSids :
            agent' = [agent EXCEPT ![q] = IF delivered THEN Loop("ready", s)
                                                       ELSE Loop("out", NoSid)]
      BY <2>4 DEF RegisterInsert
    <3>2. CASE delivered
      BY <1>4, <2>4, <3>1, <3>2 DEF RegisterInsert
    <3>3. CASE ~delivered
      BY <1>4, <2>4, <3>1, <3>3 DEF RegisterInsert
    <3>4. QED
      BY <3>2, <3>3
  <2>5. CASE RegisterLost(q)
    BY <1>4, <2>5 DEF RegisterLost
  <2>6. QED
    BY <1>5, <2>1, <2>2, <2>3, <2>4, <2>5 DEF Register
<1>6. ASSUME NEW q \in Procs, PollBegin(q)
      PROVE  UNCHANGED <<req, slot, runs, background>> /\ \A p \in Procs : Same(p)
  <2>1. CASE Forgotten(q)
    BY <1>4, <1>6, <2>1 DEF PollBegin, Forgotten
  <2>2. CASE Go(q, "ready", "polling")
    BY <1>1, <1>6, <2>2 DEF PollBegin, Go, Client
  <2>3. QED
    BY <1>6, <2>1, <2>2 DEF PollBegin
<1>7. ASSUME NEW q \in Procs, PollEmpty(q)
      PROVE  UNCHANGED <<req, slot, runs, background>> /\ \A p \in Procs : Same(p)
  BY <1>1, <1>7 DEF PollEmpty, Go, Client
<1>8. ASSUME NEW q \in Procs, Edit(q) \/ Quit(q)
      PROVE  /\ UNCHANGED <<req, slot, runs>> /\ \A p \in Procs : Same(p)
             /\ \A r \in Jobs : background'[r] \in {background[r], NoSid}
  <2>1. CASE Edit(q)
    BY <2>1 DEF Edit
  <2>2. CASE Quit(q)
    BY <1>4, <2>2 DEF Quit
  <2>3. QED
    BY <1>8, <2>1, <2>2
<1>9. CASE Reap \/ \E s \in Sids : Disconnect(s) \/ Age(s) \/ OrphanEnds(s)
  <2>1. UNCHANGED <<req, slot, runs, background, agent>>
    BY <1>9 DEF Reap, Disconnect, Age, OrphanEnds
  <2>2. QED
    BY <2>1, CommandedFrame
<1> HIDE DEF Same
<1>10. \/ /\ UNCHANGED <<req, slot, runs>> /\ \A p \in Procs : Same(p)
          /\ \A r \in Jobs : background'[r] \in {background[r], NoSid}
       \/ Reap \/ \E s \in Sids : Disconnect(s) \/ Age(s) \/ OrphanEnds(s)
  BY <1>5, <1>6, <1>7, <1>8
<1>11. QED
  BY <1>9, <1>10, CommandedFrame DEF Same

LEMMA CommandedInserts ==
  ASSUME Typed, Typed', Commanded, Inserts,
         \A s \in Sids : QueueFrom(sess'[s].queue, sess[s].queue)
  PROVE  Commanded'
<1>1. PICK p \in Procs, s \in FreshSids, delivered \in BOOLEAN :
        /\ sessions' = sessions \cup {s} /\ UNCHANGED <<background, reqVars>>
        /\ sess' = [sess EXCEPT ![s] = [proc |-> p, age |-> "fresh", queue |-> <<>>,
                                        catalog |-> agent[p].scan, loaded |-> agent[p].scan]]
        /\ agent' = [agent EXCEPT ![p] = IF delivered THEN Loop("ready", s)
                                                      ELSE Loop("out", NoSid)]
  BY InsertsFresh
<1>2. /\ s \in Sids /\ s \notin sessions
      /\ \A q \in Procs : agent[q].sid # s
  BY DEF FreshSids, InUse
<1>3. /\ agent'[p].at \in {"ready", "out"}
      /\ \A q \in Procs : q # p => agent'[q] = agent[q]
  BY <1>1 DEF Typed, TypeOK, Loop
<1>4. \A t \in Sids : sess'[t].queue = IF t = s THEN <<>> ELSE sess[t].queue
  BY <1>1, <1>2 DEF Typed, TypeOK
<1>5. \A t \in Sids : Queued(t)'
  BY <1>1, <1>2, <1>4 DEF Commanded, Queued, reqVars
<1>6. ASSUME NEW q \in Procs
      PROVE  InHand(q)'
  <2>1. CASE q = p
    BY <1>3, <2>1 DEF InHand, Working
  <2>2. CASE q # p /\ Working(q)
    <3>1. agent[q].sid \in Sids /\ agent[q].sid # s
      BY <1>2, <2>2 DEF Typed, Attached, Working
    <3>2. InHand(q)
      BY DEF Commanded
    <3>3. QED
      BY <1>1, <1>3, <1>4, <2>2, <3>1, <3>2 DEF InHand, Working, reqVars
  <2>3. CASE q # p /\ ~Working(q)
    BY <1>3, <2>3 DEF InHand, Working
  <2>4. QED
    BY <2>1, <2>2, <2>3
<1>7. QED
  BY <1>1, <1>5, <1>6 DEF Commanded, reqVars

LEMMA QueuedKept ==
  ASSUME Typed, Typed', NEW s \in Sids, Queued(s), QueueFrom(sess'[s].queue, sess[s].queue),
         s \in sessions' => s \in sessions,
         \A i \in DOMAIN sess[s].queue : LET r == sess[s].queue[i] IN
           r \in Requests => /\ req'[r].sid = req[r].sid /\ req'[r].at # "open"
                             /\ runs'[r] = 0
                             /\ s \in sessions' => slot'[r] = slot[r]
  PROVE  Queued(s)'
<1>1. PICK taken \in {0, 1} : \A i \in DOMAIN sess'[s].queue :
        \/ sess'[s].queue[i] = Stop
        \/ i + taken \in DOMAIN sess[s].queue /\ sess'[s].queue[i] = sess[s].queue[i + taken]
  BY DEF QueueFrom
<1>2. DOMAIN sess'[s].queue \subseteq Nat
  <2>1. sess'[s] \in Session
    BY DEF Typed, TypeOK
  <2>2. sess'[s].queue \in Seq(Commands)
    BY <2>1 DEF Session
  <2>3. QED
    BY <2>2
<1>3. \A i \in DOMAIN sess[s].queue : sess[s].queue[i] \in Requests \cup {Stop}
  BY QueueIsSeq DEF Commands
<1>4. ASSUME NEW i \in DOMAIN sess'[s].queue, sess'[s].queue[i] # Stop
      PROVE  LET r == sess'[s].queue[i] IN
             /\ req'[r].sid = s /\ req'[r].at # "open" /\ runs'[r] = 0
             /\ s \in sessions' => slot'[r] = "pending"
             /\ \A j \in DOMAIN sess'[s].queue : sess'[s].queue[j] = r => j = i
  <2> DEFINE k == i + taken
             r == sess[s].queue[k]
  <2>1. k \in DOMAIN sess[s].queue /\ sess'[s].queue[i] = r
    BY <1>1, <1>4
  <2>2. r \in Requests
    BY <1>3, <1>4, <2>1
  <2>3. /\ req[r].sid = s /\ (s \in sessions => slot[r] = "pending")
        /\ \A j \in DOMAIN sess[s].queue : sess[s].queue[j] = r => j = k
    BY <1>4, <2>1 DEF Queued
  <2>4. \A j \in DOMAIN sess'[s].queue : sess'[s].queue[j] = r => j = i
    BY <1>1, <1>2, <1>4, <2>1, <2>3
  <2>5. QED
    BY <2>1, <2>2, <2>3, <2>4
<1>5. QED
  BY <1>4 DEF Queued

\* The command an agent works on is nobody else's, and in no queue unless it is just begun.
LEMMA CommandsApart ==
  ASSUME Typed, Identity, Commanded, NEW p \in Procs, Working(p)
  PROVE  /\ \A q \in Procs : Working(q) /\ agent[q].cmd = agent[p].cmd => q = p
         /\ \A s \in Sids : \A i \in DOMAIN sess[s].queue : sess[s].queue[i] # agent[p].cmd
         /\ \A r \in Jobs : background[r] # NoSid /\ agent[p].at = "busy" => r # agent[p].cmd
<1>1. agent[p].sid \in Sids /\ agent[p].sid # NoSid
  BY HubAssumption DEF Typed, Attached, Working
<1>2. InHand(p)
  BY DEF Commanded
<1>3. \A q \in Procs : Working(q) /\ agent[q].cmd = agent[p].cmd => q = p
  <2> SUFFICES ASSUME NEW q \in Procs, Working(q), agent[q].cmd = agent[p].cmd PROVE q = p
    OBVIOUS
  <2>1. InHand(q)
    BY DEF Commanded
  <2>2. QED
    BY <1>1, <1>2, <2>1 DEF InHand, Identity
<1>4. \A s \in Sids : \A i \in DOMAIN sess[s].queue : sess[s].queue[i] # agent[p].cmd
  <2> SUFFICES ASSUME NEW s \in Sids, NEW i \in DOMAIN sess[s].queue,
                      sess[s].queue[i] = agent[p].cmd
               PROVE  FALSE
    OBVIOUS
  <2>1. Queued(s) /\ agent[p].cmd \in Requests /\ agent[p].cmd # Stop
    BY <1>2, HubAssumption DEF Commanded, InHand
  <2>2. req[agent[p].cmd].sid = s /\ runs[agent[p].cmd] = 0
    BY <2>1 DEF Queued
  <2>3. s = agent[p].sid /\ agent[p].at = "busy"
    BY <1>2, <2>2 DEF InHand, Working
  <2>4. QED
    BY <1>2, <2>3 DEF InHand, Working
<1>5. \A r \in Jobs : background[r] # NoSid /\ agent[p].at = "busy" => r # agent[p].cmd
  BY <1>2 DEF Commanded, InHand, Working
<1>6. QED
  BY <1>3, <1>4, <1>5

\* An agent that does not move keeps its command in hand.
LEMMA InHandKept ==
  ASSUME Typed, Typed', NEW p \in Procs, InHand(p), agent'[p] = agent[p],
         QueueFrom(sess'[agent[p].sid].queue, sess[agent[p].sid].queue),
         agent[p].sid \in sessions' => agent[p].sid \in sessions,
         LET r == agent[p].cmd IN
           r \in Requests /\ Working(p) =>
             /\ req'[r].sid = req[r].sid /\ req'[r].at # "open" /\ runs'[r] = runs[r]
             /\ agent[p].sid \in sessions' => slot'[r] = slot[r]
  PROVE  InHand(p)'
<1>1. CASE Working(p)
  <2>1. agent[p].cmd \in Requests /\ agent[p].cmd # Stop
    BY <1>1, HubAssumption DEF InHand
  <2>2. agent[p].at = "busy" =>
          \A i \in DOMAIN sess'[agent[p].sid].queue : sess'[agent[p].sid].queue[i] # agent[p].cmd
    BY <1>1, <2>1 DEF InHand, QueueFrom
  <2>3. QED
    BY <1>1, <2>1, <2>2 DEF InHand, Working
<1>2. CASE ~Working(p)
  BY <1>2 DEF InHand, Working
<1>3. QED
  BY <1>1, <1>2

LEMMA CommandedTake ==
  ASSUME Typed, Typed', Commanded, sessions' \subseteq sessions,
         \A s \in Sids : QueueFrom(sess'[s].queue, sess[s].queue),
         NEW p \in Procs, NEW delivered \in BOOLEAN, PollReturn(p, delivered)
  PROVE  Commanded'
<1> DEFINE s == agent[p].sid
           r == Head(sess[s].queue)
<1>1. s \in Sids /\ sess[s].queue # <<>> /\ sess[s].queue \in Seq(Commands)
  BY QueueIsSeq DEF PollReturn, Typed, Attached
<1>2. UNCHANGED <<req, slot, runs, background, sessions>>
  BY DEF PollReturn, reqVars
<1>3. CASE delivered /\ r # Stop
  <2>1. /\ r \in Requests /\ 1 \in DOMAIN sess[s].queue /\ sess[s].queue[1] = r
    BY <1>1, <1>3 DEF Commands
  <2>2. /\ req[r].sid = s /\ req[r].at # "open" /\ runs[r] = 0
        /\ s \in sessions => slot[r] = "pending"
        /\ \A j \in DOMAIN sess[s].queue : sess[s].queue[j] = r => j = 1
    BY <1>1, <1>3, <2>1 DEF Commanded, Queued
  <2>3. \A q \in Procs : q # p => agent'[q] = agent[q]
    BY DEF PollReturn, Typed, TypeOK
  <2>4. agent'[p].at = "busy" /\ agent'[p].sid = s /\ agent'[p].cmd = r
    <3>1. agent' = [agent EXCEPT ![p] = [@ EXCEPT !.at = "busy", !.cmd = r]]
      BY <1>3 DEF PollReturn
    <3>2. agent'[p] = [agent[p] EXCEPT !.at = "busy", !.cmd = r]
      BY <3>1 DEF Typed, TypeOK
    <3>3. agent[p] \in Client
      BY DEF Typed, TypeOK
    <3>4. QED
      BY <3>2, <3>3 DEF Client
  <2>5. \A i \in DOMAIN sess'[s].queue : sess'[s].queue[i] # r
    <3>1. sess'[s].queue = <<>> \/ sess'[s].queue = Tail(sess[s].queue)
      <4> DEFINE objects == [sess EXCEPT ![s].queue = Tail(@)]
      <4>1. sess' = Kept(objects)
        BY DEF PollReturn, Dequeue
      <4>2. objects[s].queue = Tail(sess[s].queue)
        BY <1>1 DEF Typed, TypeOK, Session
      <4> HIDE DEF objects
      <4>3. sess'[s] = objects[s] \/ sess'[s] = NoSession
        BY <1>1, <4>1, KeptObjects
      <4>4. QED
        BY <4>2, <4>3 DEF NoSession
    <3>2. \A i \in DOMAIN Tail(sess[s].queue) :
            i + 1 \in DOMAIN sess[s].queue /\ i + 1 # 1 /\ Tail(sess[s].queue)[i] = sess[s].queue[i + 1]
      BY <1>1
    <3>3. \A i \in DOMAIN Tail(sess[s].queue) : Tail(sess[s].queue)[i] # r
      BY <2>2, <3>2
    <3>4. CASE sess'[s].queue = <<>>
      BY <3>4
    <3>5. CASE sess'[s].queue = Tail(sess[s].queue)
      BY <3>3, <3>5
    <3>6. QED
      BY <3>1, <3>4, <3>5
  <2>6. InHand(p)'
    BY <1>2, <2>1, <2>2, <2>4, <2>5 DEF InHand, Working
  <2>7. ASSUME NEW q \in Procs, q # p
        PROVE  InHand(q)'
    <3>1. CASE Working(q)
      <4>1. agent[q].sid \in Sids
        BY <3>1 DEF Typed, Attached, Working
      <4>2. QED
        BY <1>2, <2>3, <2>7, <3>1, <4>1, InHandKept DEF Commanded, InHand
    <3>2. CASE ~Working(q)
      BY <2>3, <2>7, <3>2 DEF InHand, Working
    <3>3. QED
      BY <3>1, <3>2
  <2>8. \A t \in Sids : Queued(t)'
    <3> SUFFICES ASSUME NEW t \in Sids PROVE Queued(t)'
      OBVIOUS
    <3>1. Queued(t)
      BY DEF Commanded
    <3>2. \A i \in DOMAIN sess[t].queue : sess[t].queue[i] \in Requests =>
            req[sess[t].queue[i]].at # "open" /\ runs[sess[t].queue[i]] = 0
      BY <3>1, HubAssumption DEF Queued
    <3>3. QED
      BY <1>2, <3>1, <3>2, QueuedKept
  <2>9. QED
    BY <1>2, <2>6, <2>7, <2>8 DEF Commanded
<1>4. CASE ~(delivered /\ r # Stop)
  <2>1. \E at \in {"ready", "exited"}, sid \in {s, NoSid} : agent' = [agent EXCEPT ![p] = Loop(at, sid)]
    BY <1>4 DEF PollReturn
  <2>2. \A q \in Procs : agent'[q].at \in {"busy", "posting"} => agent'[q] = agent[q]
    BY <2>1 DEF Loop, Typed, TypeOK
  <2>3. QED
    BY <1>2, <2>2, CommandedFrame
<1>5. QED
  BY <1>3, <1>4

\* Steps that change no queue and no session of the table, and of the requests and the agents
\* only what is said of one request.
LEMMA CommandedExecute ==
  ASSUME Typed, Typed', Identity, Commanded, NEW p \in Procs, Execute(p)
  PROVE  Commanded'
<1> DEFINE r == agent[p].cmd
<1>1. /\ r \in Requests /\ runs[r] = 0 /\ Working(p) /\ agent[p].at = "busy"
      /\ req[r].sid = agent[p].sid /\ req[r].at # "open"
      /\ agent[p].sid \in sessions => slot[r] = "pending"
  BY DEF Execute, Commanded, InHand, Working
<1>2. UNCHANGED <<sessions, sess, req, slot>> /\ runs' = [runs EXCEPT ![r] = @ + 1]
  BY DEF Execute, hubVars
<1>3. runs'[r] = 1 /\ \A x \in Requests : x # r => runs'[x] = runs[x]
  BY <1>1, <1>2 DEF Typed, TypeOK
<1>4. \A s \in Sids : Queued(s)'
  <2> SUFFICES ASSUME NEW s \in Sids PROVE Queued(s)'
    OBVIOUS
  <2>1. Queued(s) /\ \A i \in DOMAIN sess[s].queue : sess[s].queue[i] # r
    BY <1>1, CommandsApart DEF Commanded
  <2>2. \A i \in DOMAIN sess[s].queue : sess[s].queue[i] \in Requests \cup {Stop}
    BY QueueIsSeq DEF Commands
  <2>3. QED
    BY <1>2, <1>3, <2>1, <2>2 DEF Queued
<1>5. ASSUME NEW q \in Procs, q # p
      PROVE  InHand(q)'
  <2>1. InHand(q) /\ agent'[q] = agent[q]
    BY <1>5 DEF Commanded, Execute, Typed, TypeOK
  <2>2. Working(q) => agent[q].cmd # r
    BY <1>1, <1>5, CommandsApart
  <2>3. QED
    BY <1>2, <1>3, <2>1, <2>2 DEF InHand, Working
<1>6. CASE r \in Jobs
  <2>1. agent' = [agent EXCEPT ![p] = Loop("ready", agent[p].sid)]
    BY <1>6 DEF Execute
  <2>2. agent'[p].at = "ready"
    BY <2>1 DEF Loop, Typed, TypeOK
  <2>3. background' = [background EXCEPT ![r] = p]
    BY <1>6 DEF Execute
  <2>4. \A x \in Jobs : background'[x] # NoSid => runs'[x] = 1
    BY <1>3, <2>3, HubAssumption DEF Commanded, Typed, TypeOK, Requests
  <2>5. QED
    BY <1>1, <1>2, <1>3, <1>4, <1>5, <2>2, <2>4 DEF Commanded, InHand, Working
<1>7. CASE r \notin Jobs
  <2>1. agent' = [agent EXCEPT ![p].at = "posting", ![p].scan = tree[p]] /\ UNCHANGED background
    BY <1>7 DEF Execute
  <2>2. agent[p] \in Client /\ agent \in [Procs -> Client]
    BY DEF Typed, TypeOK
  <2>3. agent'[p].at = "posting" /\ agent'[p].sid = agent[p].sid /\ agent'[p].cmd = r
    BY <2>1, <2>2 DEF Client
  <2>4. InHand(p)'
    BY <1>1, <1>2, <1>3, <1>7, <2>3 DEF InHand, Working
  <2>5. \A x \in Jobs : background'[x] # NoSid => runs'[x] = 1
    BY <1>3, <1>7, <2>1 DEF Commanded, Requests
  <2>6. QED
    BY <1>1, <1>2, <1>3, <1>4, <1>5, <2>4, <2>5 DEF Commanded
<1>8. QED
  BY <1>6, <1>7

\* A result fills the slot of a request that has been executed.
LEMMA CommandedReceive ==
  ASSUME Typed, Typed', Commanded, UNCHANGED <<sessions, req, runs>>,
         \A s \in Sids : QueueFrom(sess'[s].queue, sess[s].queue),
         NEW r \in Requests, runs[r] = 1,
         slot'[r] \in {slot[r], "set"} \/ (slot'[r] = "freed" /\ r \in Jobs),
         \A x \in Requests : x # r => slot'[x] = slot[x],
         \A x \in Jobs : background'[x] \in {background[x], NoSid},
         \A q \in Procs :
           \/ agent'[q] = agent[q] /\ (Working(q) => agent[q].cmd # r)
           \/ agent'[q].at \notin {"busy", "posting"}
  PROVE  Commanded'
<1>1. \A s \in Sids : Queued(s)'
  <2> SUFFICES ASSUME NEW s \in Sids PROVE Queued(s)'
    OBVIOUS
  <2>1. Queued(s)
    BY DEF Commanded
  <2>2. \A i \in DOMAIN sess[s].queue : LET x == sess[s].queue[i] IN
          x \in Requests => /\ req'[x].sid = req[x].sid /\ req'[x].at # "open"
                            /\ runs'[x] = 0
                            /\ s \in sessions' => slot'[x] = slot[x]
    BY <2>1, HubAssumption DEF Queued
  <2>3. QED
    BY <2>1, <2>2, QueuedKept
<1>2. \A q \in Procs : InHand(q)'
  <2> SUFFICES ASSUME NEW q \in Procs PROVE InHand(q)'
    OBVIOUS
  <2>1. CASE agent'[q].at \notin {"busy", "posting"} \/ ~Working(q)
    BY <2>1 DEF InHand, Working
  <2>2. CASE agent'[q] = agent[q] /\ Working(q) /\ agent[q].cmd # r
    <3>1. agent[q].sid \in Sids /\ InHand(q)
      BY <2>2 DEF Typed, Attached, Working, Commanded
    <3>2. agent[q].cmd \in Requests /\ req[agent[q].cmd].at # "open"
      BY <2>2, <3>1 DEF InHand
    <3>3. QED
      BY <2>2, <3>1, <3>2, InHandKept
  <2>3. QED
    BY <2>1, <2>2
<1>3. QED
  BY <1>1, <1>2 DEF Commanded

LEMMA CommandedPost ==
  ASSUME Typed, Typed', Identity, Commanded, NEW p \in Procs, Post(p),
         \A s \in Sids : QueueFrom(sess'[s].queue, sess[s].queue)
  PROVE  Commanded'
<1> DEFINE r == agent[p].cmd
<1>1. r \in Requests /\ runs[r] = 1 /\ Working(p)
  BY DEF Post, Commanded, InHand, Working
<1>2. UNCHANGED <<sessions, req, runs, background>>
  BY DEF Post
<1>3. \E at \in {"ready", "out"}, sid \in {agent[p].sid, NoSid} :
        agent' = [agent EXCEPT ![p] = Loop(at, sid)]
  BY DEF Post, Forgotten
<1>4. agent'[p].at \in {"ready", "out"} /\ \A q \in Procs : q # p => agent'[q] = agent[q]
  BY <1>3 DEF Loop, Typed, TypeOK
<1>5. slot'[r] \in {slot[r], "set"} /\ \A x \in Requests : x # r => slot'[x] = slot[x]
  BY <1>1 DEF Post, Receive, Typed, TypeOK
<1>6. \A q \in Procs : q # p /\ Working(q) => agent[q].cmd # r
  BY <1>1, CommandsApart
<1>7. QED
  BY <1>1, <1>2, <1>4, <1>5, <1>6, CommandedReceive

\* A caller is answered, or gives up.
LEMMA CommandedReply ==
  ASSUME Typed, Typed', Commanded, UNCHANGED <<sessions, agent, background, runs>>,
         \A s \in Sids : QueueFrom(sess'[s].queue, sess[s].queue),
         NEW r \in Requests, req[r].at = "waiting",
         NEW to \in {"answered", "late", "failed"}, req' = [req EXCEPT ![r].at = to],
         to = "answered" => slot[r] = "set",
         \/ UNCHANGED slot
         \/ r \in Jobs /\ slot[r] = "set" /\ slot' = [slot EXCEPT ![r] = "freed"]
  PROVE  Commanded'
<1>1. \A x \in Requests : /\ req'[x].sid = req[x].sid
                          /\ req'[x].at = IF x = r THEN to ELSE req[x].at
  BY DEF Typed, TypeOK
<1>2. \A x \in Requests : slot'[x] = slot[x] \/ (x = r /\ runs[r] = 1 /\ slot[r] = "set")
  BY DEF Commanded, Typed, TypeOK
<1>3. \A s \in Sids : Queued(s)'
  <2> SUFFICES ASSUME NEW s \in Sids PROVE Queued(s)'
    OBVIOUS
  <2>1. Queued(s)
    BY DEF Commanded
  <2>2. \A i \in DOMAIN sess[s].queue : LET x == sess[s].queue[i] IN
          x \in Requests => /\ req'[x].sid = req[x].sid /\ req'[x].at # "open"
                            /\ runs'[x] = 0
                            /\ s \in sessions' => slot'[x] = slot[x]
    BY <1>1, <1>2, <2>1, HubAssumption DEF Queued
  <2>3. QED
    BY <2>1, <2>2, QueuedKept
<1>4. \A p \in Procs : InHand(p)'
  <2> SUFFICES ASSUME NEW p \in Procs PROVE InHand(p)'
    OBVIOUS
  <2>1. CASE Working(p)
    <3>1. agent[p].sid \in Sids /\ InHand(p)
      BY <2>1 DEF Typed, Attached, Working, Commanded
    <3>2. LET x == agent[p].cmd IN
            /\ req'[x].sid = req[x].sid /\ req'[x].at # "open" /\ runs'[x] = runs[x]
            /\ agent[p].sid \in sessions' => slot'[x] = slot[x]
      BY <1>1, <1>2, <2>1, <3>1 DEF InHand
    <3>3. QED
      BY <3>1, <3>2, InHandKept
  <2>2. CASE ~Working(p)
    BY <2>2 DEF InHand, Working
  <2>3. QED
    BY <2>1, <2>2
<1>5. ASSUME NEW x \in Requests
      PROVE  /\ req'[x].at = "open" => runs'[x] = 0 /\ slot'[x] = "none" /\ req'[x].sid = NoSid
             /\ slot'[x] = "set" \/ req'[x].at = "answered" => runs'[x] = 1
             /\ req'[x].at = "answered" /\ x \notin Jobs => slot'[x] = "set"
  BY <1>1 DEF Commanded, Typed, TypeOK
<1>6. QED
  BY <1>3, <1>4, <1>5 DEF Commanded

LEMMA CommandedJobPost ==
  ASSUME Typed, Typed', Commanded, NEW r \in Jobs, JobPost(r),
         \A s \in Sids : QueueFrom(sess'[s].queue, sess[s].queue)
  PROVE  Commanded'
<1>1. r \in Requests /\ runs[r] = 1
  BY DEF JobPost, Commanded, Requests
<1>2. UNCHANGED <<sessions, req, runs, agent>>
  BY DEF JobPost
<1>3. slot'[r] \in {slot[r], "set"} /\ \A x \in Requests : x # r => slot'[x] = slot[x]
  BY <1>1 DEF JobPost, Receive, Typed, TypeOK
<1>4. \A x \in Jobs : background'[x] \in {background[x], NoSid}
  BY DEF JobPost, Typed, TypeOK
<1>5. \A q \in Procs : Working(q) => agent[q].cmd # r
  BY <1>1 DEF Commanded, InHand, Working
<1>6. QED
  BY <1>1, <1>2, <1>3, <1>4, <1>5, CommandedReceive

LEMMA CommandedRestart ==
  ASSUME Typed, Commanded, Restart
  PROVE  Commanded'
<1>1. ASSUME NEW p \in Procs
      PROVE  Working(p)' => Working(p) /\ agent'[p] = agent[p]
  <2>1. agent[p] \in Client
    BY DEF Typed, TypeOK
  <2>2. CASE agent[p].at = "polling"
    BY <2>1, <2>2 DEF Restart, Client, Working
  <2>3. CASE agent[p].at \in {"scanned", "retiring"}
    BY <2>3 DEF Restart, Loop, Working
  <2>4. CASE agent[p].at \notin {"polling", "scanned", "retiring"}
    BY <2>4 DEF Restart, Working
  <2>5. QED
    BY <2>2, <2>3, <2>4
<1>2. \A r \in Requests : /\ req'[r].sid = req[r].sid
                          /\ req'[r].at = IF req[r].at = "waiting" THEN "failed" ELSE req[r].at
                          /\ slot'[r] = IF slot[r] = "pending" THEN "freed" ELSE slot[r]
  BY DEF Restart, Typed, TypeOK
<1>3. sessions' = {} /\ UNCHANGED <<runs, background>> /\ \A s \in Sids : sess'[s].queue = <<>>
  BY DEF Restart, NoSession
<1>4. \A p \in Procs : InHand(p)'
  <2> SUFFICES ASSUME NEW p \in Procs, Working(p)' PROVE InHand(p)'
    BY DEF InHand, Working
  <2>1. Working(p) /\ agent'[p] = agent[p] /\ InHand(p) /\ agent[p].sid \in Sids
    BY <1>1 DEF Commanded, Typed, Attached, Working
  <2>2. QED
    BY <1>2, <1>3, <2>1 DEF InHand, Working
<1>5. \A s \in Sids : Queued(s)'
  BY <1>3 DEF Queued
<1>6. QED
  BY <1>2, <1>3, <1>4, <1>5 DEF Commanded

LEMMA CommandedAsk ==
  ASSUME Typed, Typed', Commanded, NEW r \in Requests, Ask(r)
  PROVE  Commanded'
<1>1. PICK s \in sessions : /\ req' = [req EXCEPT ![r] = [at |-> "waiting", sid |-> s]]
                            /\ sess' = Put(s, r)
  BY DEF Ask
<1>2. /\ s \in Sids /\ req[r].at = "open" /\ runs[r] = 0 /\ slot' = [slot EXCEPT ![r] = "pending"]
      /\ UNCHANGED <<sessions, agent, background, runs>>
  BY DEF Ask, agentVars, Typed, TypeOK, Commanded
<1>3. \A x \in Requests : /\ x # r => req'[x] = req[x] /\ slot'[x] = slot[x]
                          /\ x = r => req'[x] = [at |-> "waiting", sid |-> s] /\ slot'[x] = "pending"
  BY <1>1, <1>2 DEF Typed, TypeOK
<1>4. \A t \in Sids : sess'[t].queue = IF t = s THEN Append(sess[t].queue, r) ELSE sess[t].queue
  BY <1>1 DEF Put, Typed, TypeOK, Session
<1>5. \A t \in Sids : \A i \in DOMAIN sess[t].queue : sess[t].queue[i] # r
  BY <1>2, HubAssumption DEF Commanded, Queued
<1>6. \A t \in Sids : sess[t].queue \in Seq(Commands)
  BY QueueIsSeq
<1>7. \A t \in Sids : \A i \in DOMAIN sess[t].queue : sess[t].queue[i] # Stop => sess[t].queue[i] \in Requests
  BY <1>6 DEF Commands
<1>8. ASSUME NEW t \in Sids
      PROVE  Queued(t)'
  <2>1. Queued(t)
    BY DEF Commanded
  <2>2. CASE t # s
    BY <1>2, <1>3, <1>4, <1>5, <1>7, <2>1, <2>2 DEF Queued
  <2>3. CASE t = s
    <3> DEFINE q == sess[s].queue
               n == Len(q) + 1
    <3>a. q \in Seq(Commands) /\ sess'[s].queue = Append(q, r)
      BY <1>2, <1>4, <1>6
    <3>1. /\ sess'[s].queue = Append(q, r) /\ q \in Seq(Commands)
          /\ DOMAIN Append(q, r) = 1 .. n /\ Append(q, r)[n] = r
          /\ \A i \in 1 .. n : i # n => i \in DOMAIN q /\ Append(q, r)[i] = q[i]
      <4> HIDE DEF q
      <4>1. r \in Commands
        BY DEF Commands
      <4> QED
        BY <3>a, <4>1
    <3>2. ASSUME NEW i \in 1 .. n, i # n, q[i] # Stop
          PROVE  LET x == q[i] IN
                 /\ x \in Requests /\ x # r /\ req[x].sid = s /\ req[x].at # "open" /\ runs[x] = 0
                 /\ slot[x] = "pending"
                 /\ \A j \in DOMAIN q : q[j] = x => j = i
      BY <1>1, <1>5, <1>7, <2>1, <2>3, <3>1, <3>2 DEF Queued
    <3>3. QED
      BY <1>2, <1>3, <2>3, <3>1, <3>2 DEF Queued
  <2>4. QED
    BY <2>2, <2>3
<1>9. ASSUME NEW p \in Procs
      PROVE  InHand(p)'
  <2>1. CASE Working(p)
    <3>1. agent[p].sid \in Sids /\ InHand(p)
      BY <2>1 DEF Typed, Attached, Working, Commanded
    <3>2. agent[p].cmd \in Requests /\ agent[p].cmd # r
      BY <1>2, <2>1, <3>1 DEF InHand
    <3> DEFINE c == agent[p].cmd
               q == sess[agent[p].sid].queue
    <3>a. q \in Seq(Commands) /\ c # r
      BY <1>6, <3>1, <3>2
    <3>b. sess'[agent[p].sid].queue \in {q, Append(q, r)}
      BY <1>4, <3>1
    <3>c. agent[p].at = "busy" => \A i \in DOMAIN q : q[i] # c
      BY <2>1, <3>1 DEF InHand
    <3>d. (\A i \in DOMAIN q : q[i] # c) => \A i \in DOMAIN Append(q, r) : Append(q, r)[i] # c
      <4> HIDE DEF q, c
      <4>1. r \in Commands
        BY DEF Commands
      <4>2. \A i \in DOMAIN Append(q, r) :
              \/ i \in DOMAIN q /\ Append(q, r)[i] = q[i]
              \/ Append(q, r)[i] = r
        BY <3>a, <4>1
      <4> QED
        BY <3>a, <4>2
    <3>3. agent[p].at = "busy" =>
            \A i \in DOMAIN sess'[agent[p].sid].queue : sess'[agent[p].sid].queue[i] # agent[p].cmd
      BY <3>b, <3>c, <3>d
    <3>4. QED
      BY <1>2, <1>3, <2>1, <3>1, <3>2, <3>3 DEF InHand, Working
  <2>2. CASE ~Working(p)
    BY <1>2, <2>2 DEF InHand, Working
  <2>3. QED
    BY <2>1, <2>2
<1>10. QED
  BY <1>1, <1>2, <1>3, <1>8, <1>9 DEF Commanded

LEMMA CommandedStep ==
  ASSUME Typed, Typed', Identity, Commanded, [Next]_vars
  PROVE  Commanded'
<1>1. CASE UNCHANGED vars
  <2>1. UNCHANGED <<sessions, sess, agent, background, req, slot, runs>>
    BY <1>1 DEF vars, hubVars, agentVars, reqVars
  <2>2. \A s \in Sids : QueueFrom(sess'[s].queue, sess[s].queue)
    BY <2>1, QueueChanges, QueueIsSeq
  <2>3. QED
    BY <2>1, <2>2, CommandedFrame
<1>2. CASE \E r \in Requests : Ask(r)
  BY <1>2, CommandedAsk
<1>3. CASE Next /\ \A r \in Requests : ~Ask(r)
  <2>1. \A s \in Sids : QueueFrom(sess'[s].queue, sess[s].queue)
    BY <1>3, QueuesMove
  <2>2. CASE Inserts
    BY <2>1, <2>2, CommandedInserts
  <2>3. CASE ~Inserts
    <3>1. sessions' \subseteq sessions
      BY <1>3, <2>3, OwnersStay
    <3>2. CASE Restart
      BY <3>2, CommandedRestart
    <3>3. CASE \/ Reap
               \/ \E s \in Sids : Disconnect(s) \/ Age(s) \/ OrphanEnds(s)
               \/ \E p \in Procs : Register(p) \/ PollBegin(p) \/ PollEmpty(p) \/ Edit(p) \/ Quit(p)
      BY <2>1, <3>1, <3>3, CommandedQuiet
    <3>4. CASE \E p \in Procs : PollReturn(p, TRUE) \/ PollReturn(p, FALSE)
      BY <2>1, <3>1, <3>4, CommandedTake
    <3>5. CASE \E p \in Procs : Execute(p)
      BY <3>5, CommandedExecute
    <3>6. CASE \E p \in Procs : Post(p)
      BY <2>1, <3>6, CommandedPost
    <3>7. CASE \E r \in Jobs : JobPost(r)
      BY <2>1, <3>7, CommandedJobPost
    <3>8. ASSUME NEW r \in Jobs, JobPoll(r)
          PROVE  Commanded'
      <4>1. r \in Requests /\ req[r].at = "waiting"
        BY <3>8 DEF JobPoll, Requests
      <4>2. UNCHANGED <<sessions, agent, background, runs>>
        BY <3>8 DEF JobPoll, hubVars, agentVars
      <4>3. CASE /\ slot[r] = "set" /\ req' = [req EXCEPT ![r].at = "answered"]
                 /\ slot' = [slot EXCEPT ![r] = "freed"]
        BY <2>1, <4>1, <4>2, <4>3, CommandedReply
      <4>4. CASE req' = [req EXCEPT ![r].at = "failed"] /\ UNCHANGED slot
        BY <2>1, <4>1, <4>2, <4>4, CommandedReply
      <4>5. QED
        BY <3>8, <4>3, <4>4 DEF JobPoll
    <3>9. ASSUME NEW r \in Requests, Answered(r) \/ TimedOut(r)
          PROVE  Commanded'
      <4>1. req[r].at = "waiting" /\ UNCHANGED <<sessions, agent, background, runs, slot>>
        BY <3>9 DEF Answered, TimedOut, agentVars
      <4>2. CASE slot[r] = "set" /\ req' = [req EXCEPT ![r].at = "answered"]
        BY <2>1, <4>1, <4>2, CommandedReply
      <4>3. CASE req' = [req EXCEPT ![r].at = "late"]
        BY <2>1, <4>1, <4>3, CommandedReply
      <4>4. CASE req' = [req EXCEPT ![r].at = "failed"]
        BY <2>1, <4>1, <4>4, CommandedReply
      <4>5. QED
        BY <3>9, <4>2, <4>3, <4>4 DEF Answered, TimedOut
    <3>10. QED
      BY <1>3, <3>2, <3>3, <3>4, <3>5, <3>6, <3>7, <3>8, <3>9 DEF Next, Serve
  <2>4. QED
    BY <2>2, <2>3
<1>4. QED
  BY <1>1, <1>2, <1>3

LEMMA CommandedInvariant == Spec => [](Typed /\ Owned /\ Identity /\ Commanded)
<1>1. Init => Commanded
  <2> SUFFICES ASSUME Init PROVE Commanded
    OBVIOUS
  <2>1. \A s \in Sids : Queued(s)
    BY DEF Init, Queued, NoSession
  <2>2. \A p \in Procs : InHand(p)
    BY DEF Init, InHand, Working, Loop
  <2>3. \A r \in Requests : req[r].at = "open" /\ req[r].sid = NoSid /\ slot[r] = "none" /\ runs[r] = 0
    BY DEF Init
  <2>4. QED
    BY <2>1, <2>2, <2>3 DEF Init, Commanded
<1>2. Typed /\ Owned /\ Identity /\ Commanded /\ Typed' /\ [Next]_vars => Commanded'
  BY CommandedStep
<1>3. QED
  BY <1>1, <1>2, IdentityInvariant, PTL DEF Spec

-----------------------------------------------------------------------------
(* What a caller is promised *)

\* Every step is a step of AgentCall's, or one that its callers do not see.
LEMMA CallStep ==
  ASSUME Typed, Typed', Commanded, [Next]_vars
  PROVE  [Call!Next]_<<[r \in Requests |-> req[r].at], runs>>
<1> DEFINE phase == [r \in Requests |-> req[r].at]
<1>1. /\ runs \in [Requests -> Nat]
      /\ DOMAIN req = Requests /\ \A r \in Requests : DOMAIN req[r] = {"at", "sid"}
  BY DEF Typed, TypeOK
<1>2. CASE UNCHANGED <<req, runs>>
  BY <1>2
<1>3. ASSUME NEW r \in Requests, Ask(r)
      PROVE  Call!Ask(r)
  <2>1. PICK s \in sessions : req' = [req EXCEPT ![r] = [at |-> "waiting", sid |-> s]]
    BY <1>3 DEF Ask
  <2>2. phase[r] = "open" /\ phase' = [phase EXCEPT ![r] = "waiting"] /\ UNCHANGED runs
    BY <1>1, <1>3, <2>1 DEF Ask
  <2>3. QED
    BY <2>2 DEF Call!Ask
<1>4. ASSUME NEW p \in Procs, Execute(p)
      PROVE  \E r \in Requests : Call!Execute(r)
  <2> DEFINE r == agent[p].cmd
  <2>1. r \in Requests /\ runs[r] = 0 /\ req[r].at # "open"
    BY <1>4 DEF Execute, Commanded, InHand, Working
  <2>2. req[r].at # "answered"
    BY <2>1 DEF Commanded
  <2>3. runs' = [runs EXCEPT ![r] = 1] /\ UNCHANGED phase
    BY <1>1, <1>4, <2>1 DEF Execute
  <2>4. QED
    BY <2>1, <2>2, <2>3 DEF Call!Execute
<1>5. ASSUME NEW r \in Requests, req[r].at = "waiting", UNCHANGED runs, slot[r] = "set",
             req' = [req EXCEPT ![r].at = "answered"]
      PROVE  Call!Answer(r)
  <2>1. runs[r] = 1
    BY <1>5 DEF Commanded
  <2>2. phase[r] = "waiting" /\ phase' = [phase EXCEPT ![r] = "answered"]
    BY <1>1, <1>5
  <2>3. QED
    BY <1>5, <2>1, <2>2 DEF Call!Answer
<1>6. ASSUME NEW r \in Requests, req[r].at = "waiting", UNCHANGED runs,
             req' = [req EXCEPT ![r].at = "failed"]
      PROVE  Call!GiveUp({r})
  BY <1>1, <1>6 DEF Call!GiveUp
<1>7. CASE Restart
  <2>1. PICK Cut \in SUBSET Requests : Cut = {r \in Requests : req[r].at = "waiting"}
    OBVIOUS
  <2>2. \A r \in Requests : req'[r].at = IF r \in Cut THEN "failed" ELSE req[r].at
    BY <1>1, <1>7, <2>1 DEF Restart
  <2>3. phase' = [r \in Requests |-> IF r \in Cut THEN "failed" ELSE phase[r]]
    BY <2>2
  <2>4. Call!GiveUp(Cut)
    BY <1>7, <2>1, <2>3 DEF Call!GiveUp, Restart
  <2>5. QED
    BY <2>4 DEF Call!Next
<1>8. CASE Next /\ ~Restart
  <2> USE DEF hubVars, agentVars, reqVars
  <2>1. CASE Reap \/ \E s \in Sids : Disconnect(s) \/ Age(s) \/ OrphanEnds(s)
    BY <1>2, <2>1 DEF Reap, Disconnect, Age, OrphanEnds
  <2>2. CASE \E p \in Procs : Register(p) \/ Edit(p) \/ Quit(p)
    BY <1>2, <2>2 DEF Register, Scan, RegisterLook, RegisterRetire, RegisterInsert, RegisterLost,
                      Edit, Quit
  <2>3. CASE \E p \in Procs : \/ PollBegin(p) \/ PollReturn(p, TRUE) \/ PollReturn(p, FALSE)
                              \/ PollEmpty(p) \/ Post(p)
    BY <1>2, <2>3 DEF PollBegin, PollReturn, PollEmpty, Post
  <2>4. CASE \E p \in Procs : Execute(p)
    BY <1>4, <2>4 DEF Call!Next
  <2>5. CASE \E r \in Jobs : JobPost(r)
    BY <1>2, <2>5 DEF JobPost
  <2>6. CASE \E r \in Jobs : JobPoll(r)
    <3>1. PICK r \in Jobs : JobPoll(r)
      BY <2>6
    <3>2. r \in Requests /\ {r} \in SUBSET Requests
      BY DEF Requests
    <3>3. Call!Answer(r) \/ Call!GiveUp({r})
      BY <1>5, <1>6, <3>1, <3>2 DEF JobPoll
    <3>4. QED
      BY <3>2, <3>3 DEF Call!Next
  <2>7. CASE \E r \in Requests : Ask(r)
    BY <1>3, <2>7 DEF Call!Next
  <2>8. CASE \E r \in Requests : Answered(r) \/ TimedOut(r)
    <3>1. PICK r \in Requests : Answered(r) \/ TimedOut(r)
      BY <2>8
    <3>2. req[r].at = "waiting" /\ UNCHANGED runs
      BY <3>1 DEF Answered, TimedOut
    <3>3. CASE slot[r] = "set" /\ req' = [req EXCEPT ![r].at = "answered"]
      BY <1>5, <3>2, <3>3 DEF Call!Next
    <3>4. CASE r \in CatalogRequests /\ req' = [req EXCEPT ![r].at = "late"]
      <4>1. phase[r] = "waiting" /\ phase' = [phase EXCEPT ![r] = "late"]
        BY <1>1, <3>2, <3>4
      <4>2. Call!FallBack(r)
        BY <3>2, <3>4, <4>1 DEF Call!FallBack
      <4>3. QED
        BY <4>2 DEF Call!Next
    <3>5. CASE req' = [req EXCEPT ![r].at = "failed"]
      BY <1>6, <3>2, <3>5 DEF Call!Next
    <3>6. QED
      BY <3>1, <3>3, <3>4, <3>5 DEF Answered, TimedOut
  <2>9. QED
    BY <1>8, <2>1, <2>2, <2>3, <2>4, <2>5, <2>6, <2>7, <2>8 DEF Next, Serve
<1>9. CASE UNCHANGED vars
  BY <1>2, <1>9 DEF vars, reqVars
<1>10. QED
  BY <1>7, <1>8, <1>9

\* Whatever is lost on the way, and whenever the server is started again, a command is executed
\* at most once.  An answer in time is the answer to an execution, and only requests for the
\* catalog are answered without one: the hub and the agents implement AgentCall.
THEOREM CallImplemented == Spec => ImplementsCall
<1>1. Init => Call!Init
  BY DEF Init, Call!Init
<1>2. Typed /\ Typed' /\ Commanded /\ [Next]_vars
        => [Call!Next]_<<[r \in Requests |-> req[r].at], runs>>
  BY CallStep
<1>3. QED
  BY <1>1, <1>2, CommandedInvariant, PTL DEF Spec, ImplementsCall, Call!Spec

-----------------------------------------------------------------------------
(* Which version is where *)

LEMMA VersionsAreNumbers ==
  ASSUME Typed
  PROVE  /\ \A p \in Procs : tree[p] \in Nat /\ shown[p] \in Nat /\ agent[p].scan \in Nat
         /\ \A r \in Requests : /\ asked[r].tree \in Nat /\ asked[r].shown \in Nat
                                /\ asked[r].cached \in Nat /\ result[r] \in Nat
         /\ \A s \in Sids : sess[s].catalog \in Nat /\ sess[s].loaded \in Nat
BY HubAssumption DEF Typed, TypeOK, Versions, Client, Session

\* Only a result, a snapshot and a registration change what an object shows or has loaded.
Same(s) ==
  /\ sess'[s].proc = sess[s].proc
  /\ sess'[s].catalog = sess[s].catalog /\ sess'[s].loaded = sess[s].loaded

LEMMA ObjectsStay ==
  ASSUME Typed, Next, ~Inserts,
         \A p \in Procs : ~Post(p), \A r \in Requests : ~Answered(r) /\ ~TimedOut(r)
  PROVE  \A s \in Sids : Same(s) \/ (sess'[s] = NoSession /\ s \notin sessions')
<1> DEFINE Goal == \A s \in Sids : Same(s) \/ (sess'[s] = NoSession /\ s \notin sessions')
<1> USE DEF hubVars
<1>1. sess \in [Sids -> Session] /\ sessions \subseteq Sids
  BY DEF Typed, TypeOK
<1>2. ASSUME NEW objects, sess' = Kept(objects),
             \A s \in Sids : /\ objects[s].proc = sess[s].proc
                             /\ objects[s].catalog = sess[s].catalog
                             /\ objects[s].loaded = sess[s].loaded
      PROVE  Goal
  BY <1>2, KeptObjects DEF Same
<1>3. ASSUME NEW s \in Sids, NEW c
      PROVE  \A t \in Sids : /\ Put(s, c)[t].proc = sess[t].proc
                             /\ Put(s, c)[t].catalog = sess[t].catalog
                             /\ Put(s, c)[t].loaded = sess[t].loaded
  BY <1>1 DEF Put, Session
<1>4. ASSUME NEW s \in Sids, Dequeue(s)
      PROVE  Goal
  <2>1. \A t \in Sids : /\ [sess EXCEPT ![s].queue = Tail(@)][t].proc = sess[t].proc
                        /\ [sess EXCEPT ![s].queue = Tail(@)][t].catalog = sess[t].catalog
                        /\ [sess EXCEPT ![s].queue = Tail(@)][t].loaded = sess[t].loaded
    BY <1>1 DEF Session
  <2>2. QED
    BY <1>2, <1>4, <2>1 DEF Dequeue
<1>5. sess' = Kept(sess) \/ UNCHANGED sess => Goal
  BY <1>2 DEF Same
<1> SUFFICES Goal
  OBVIOUS
<1> HIDE DEF Goal
<1>6. CASE Reap
  BY <1>5, <1>6 DEF Reap
<1>7. CASE Restart
  BY <1>7 DEF Restart, Goal
<1>8. ASSUME NEW s \in Sids, Disconnect(s) \/ Age(s) \/ OrphanEnds(s)
      PROVE  Goal
  <2>1. CASE Disconnect(s)
    BY <1>2, <1>3, <2>1 DEF Disconnect
  <2>2. CASE Age(s)
    BY <1>1, <2>2 DEF Age, Session, Same, Goal
  <2>3. CASE OrphanEnds(s)
    BY <1>4, <1>5, <2>3 DEF OrphanEnds
  <2>4. QED
    BY <1>8, <2>1, <2>2, <2>3
<1>9. ASSUME NEW p \in Procs, Register(p)
      PROVE  Goal
  <2>1. CASE RegisterRetire(p)
    <3>1. PICK s \in agent[p].olds : sess' = Kept(Put(s, Stop))
      BY <2>1 DEF RegisterRetire
    <3>2. s \in Sids
      BY DEF Typed, TypeOK, Client
    <3>3. QED
      BY <1>2, <1>3, <3>1, <3>2
  <2>2. CASE Scan(p) \/ RegisterLook(p) \/ RegisterLost(p)
    BY <1>5, <2>2 DEF Scan, RegisterLook, RegisterLost
  <2>3. QED
    BY <1>9, <2>1, <2>2 DEF Register, Inserts
<1>10. ASSUME NEW p \in Procs, Serve(p)
       PROVE  Goal
  <2>1. CASE PollBegin(p)
    BY <1>1, <2>1 DEF PollBegin, Session, Same, Goal
  <2>2. ASSUME NEW delivered \in BOOLEAN, PollReturn(p, delivered)
        PROVE  Goal
    BY <1>4, <2>2 DEF PollReturn, Typed, Attached
  <2>3. CASE PollEmpty(p) \/ Execute(p)
    BY <1>5, <2>3 DEF PollEmpty, Execute
  <2>4. QED
    BY <1>10, <2>1, <2>2, <2>3 DEF Serve
<1>11. ASSUME NEW p \in Procs, Edit(p) \/ Quit(p)
       PROVE  Goal
  BY <1>5, <1>11 DEF Edit, Quit
<1>12. ASSUME NEW r \in Jobs, JobPost(r) \/ JobPoll(r)
       PROVE  Goal
  <2>1. r \notin CatalogRequests
    BY HubAssumption
  <2>2. UNCHANGED sess
    BY <1>12, <2>1 DEF JobPost, JobPoll, Receive
  <2>3. QED
    BY <1>5, <2>2
<1>13. ASSUME NEW r \in Requests, Ask(r)
       PROVE  Goal
  BY <1>1, <1>3, <1>13 DEF Ask, Same, Goal
<1>14. QED
  BY <1>6, <1>7, <1>8, <1>9, <1>10, <1>11, <1>12, <1>13 DEF Next

LEMMA ReadsStay ==
  ASSUME Typed, Typed', Identity, Commanded, Versioned, Next, ~Inserts,
         \A q \in Procs : ~Post(q), \A r \in Requests : ~Ask(r)
  PROVE  /\ \A q \in Procs : Reads(q)' /\ tree'[q] >= tree[q]
         /\ UNCHANGED <<shown, asked>>
<1> DEFINE Goal == /\ \A q \in Procs : Reads(q)' /\ tree'[q] >= tree[q]
                   /\ UNCHANGED <<shown, asked>>
<1>1. agent \in [Procs -> Client] /\ tree \in [Procs -> Versions]
  BY DEF Typed, TypeOK
<1>2. \A q \in Procs : Reads(q) /\ shown[q] <= tree[q] /\ tree[q] >= tree[q]
  BY VersionsAreNumbers DEF Versioned, Reads
<1>3. ASSUME UNCHANGED <<tree, shown, asked>>,
             \A q \in Procs : \/ agent'[q] = agent[q]
                              \/ agent'[q].at \notin {"scanned", "retiring", "busy", "posting"}
      PROVE  Goal
  BY <1>2, <1>3 DEF Reads
<1>4. ASSUME UNCHANGED <<tree, shown, asked>>, NEW q \in Procs, NEW at, NEW sid,
             agent' = [agent EXCEPT ![q] = Loop(at, sid)],
             at \notin {"scanned", "retiring", "busy", "posting"}
      PROVE  Goal
  BY <1>1, <1>3, <1>4 DEF Loop
<1>5. ASSUME UNCHANGED <<tree, shown, asked>>, NEW q \in Procs, Reads(q)',
             \A p \in Procs \ {q} : agent'[p] = agent[p]
      PROVE  Goal
  BY <1>2, <1>5 DEF Reads
<1> SUFFICES Goal
  OBVIOUS
<1> HIDE DEF Goal
<1> USE DEF hubVars, agentVars, reqVars
<1>6. CASE Reap \/ \E s \in Sids : Disconnect(s) \/ Age(s) \/ OrphanEnds(s)
  BY <1>3, <1>6 DEF Reap, Disconnect, Age, OrphanEnds
<1>7. CASE Restart
  <2>1. ASSUME NEW q \in Procs
        PROVE  \/ agent'[q] = agent[q]
               \/ agent'[q].at \notin {"scanned", "retiring", "busy", "posting"}
    <3>1. agent[q] \in Client
      BY <1>1
    <3>2. CASE agent[q].at = "polling"
      BY <1>7, <3>1, <3>2 DEF Restart, Client
    <3>3. CASE agent[q].at \in {"scanned", "retiring"}
      BY <1>7, <3>3 DEF Restart, Loop
    <3>4. CASE agent[q].at \notin {"polling", "scanned", "retiring"}
      BY <1>7, <3>4 DEF Restart
    <3>5. QED
      BY <3>2, <3>3, <3>4
  <2>2. QED
    BY <1>3, <1>7, <2>1 DEF Restart
<1>8. ASSUME NEW q \in Procs, Register(q)
      PROVE  Goal
  <2>1. CASE Scan(q)
    <3>1. /\ agent'[q].at = "scanned" /\ agent'[q].scan = tree[q]
          /\ \A p \in Procs \ {q} : agent'[p] = agent[p]
      BY <1>1, <2>1 DEF Scan, Client
    <3>2. Reads(q)'
      BY <1>2, <2>1, <3>1, VersionsAreNumbers DEF Scan, Reads
    <3>3. QED
      BY <1>5, <2>1, <3>1, <3>2 DEF Scan
  <2>2. CASE RegisterLook(q) \/ RegisterRetire(q)
    <3>1. /\ agent'[q].at = "retiring" /\ agent'[q].scan = agent[q].scan
          /\ agent[q].at \in {"scanned", "retiring"}
          /\ \A p \in Procs \ {q} : agent'[p] = agent[p]
      BY <1>1, <2>2 DEF RegisterLook, RegisterRetire, Client
    <3>2. UNCHANGED <<tree, shown, asked>>
      BY <2>2 DEF RegisterLook, RegisterRetire
    <3>3. Reads(q)'
      BY <1>2, <3>1, <3>2 DEF Reads
    <3>4. QED
      BY <1>5, <3>1, <3>2, <3>3
  <2>3. CASE RegisterLost(q)
    BY <1>4, <2>3 DEF RegisterLost
  <2>4. QED
    BY <1>8, <2>1, <2>2, <2>3 DEF Register, Inserts
<1>9. ASSUME NEW q \in Procs, PollBegin(q) \/ PollEmpty(q)
      PROVE  Goal
  <2>1. UNCHANGED <<tree, shown, asked>>
    BY <1>9 DEF PollBegin, PollEmpty
  <2>2. CASE Forgotten(q)
    BY <1>4, <2>1, <2>2 DEF Forgotten
  <2>3. ASSUME NEW from, NEW to \in {"polling", "ready"}, Go(q, from, to)
        PROVE  Goal
    BY <1>1, <1>3, <2>1, <2>3 DEF Go, Client
  <2>4. QED
    BY <1>9, <2>2, <2>3 DEF PollBegin, PollEmpty
<1>10. ASSUME NEW q \in Procs, NEW delivered \in BOOLEAN, PollReturn(q, delivered)
       PROVE  Goal
  <2> DEFINE s == agent[q].sid
             cmd == Head(sess[s].queue)
  <2>1. UNCHANGED <<tree, shown, asked>> /\ agent[q].at = "polling"
    BY <1>10 DEF PollReturn
  <2>2. s \in Sids /\ sess[s].proc = q /\ sess[s].queue \in Seq(Commands) /\ sess[s].queue # <<>>
    BY <1>10, <2>1, QueueIsSeq DEF Typed, Attached, Identity, PollReturn
  <2>3. CASE ~delivered
    BY <1>4, <1>10, <2>1, <2>3 DEF PollReturn
  <2>4. CASE delivered /\ cmd = Stop
    <3>1. agent' = [agent EXCEPT ![q] = Loop("exited", NoSid)]
      BY <1>10, <2>4 DEF PollReturn
    <3>2. QED
      BY <1>4, <2>1, <3>1
  <2>5. CASE delivered /\ cmd # Stop
    <3>1. 1 \in DOMAIN sess[s].queue /\ cmd = sess[s].queue[1]
      BY <2>2
    <3>2. asked[cmd].tree <= tree[q]
      BY <2>2, <2>5, <3>1 DEF Versioned, Behind
    <3> DEFINE b == [agent[q] EXCEPT !.at = "busy", !.cmd = cmd]
    <3>3. agent' = [agent EXCEPT ![q] = b]
      BY <1>10, <2>5 DEF PollReturn
    <3>4. b.at = "busy" /\ b.cmd = cmd
      BY <1>1 DEF Client
    <3> HIDE DEF b, cmd
    <3>5. agent'[q].at = "busy" /\ agent'[q].cmd = cmd /\ \A p \in Procs \ {q} : agent'[p] = agent[p]
      BY <1>1, <3>3, <3>4
    <3>6. Reads(q)'
      BY <1>2, <2>1, <3>2, <3>5 DEF Reads
    <3>7. QED
      BY <1>5, <2>1, <3>5, <3>6
  <2>6. QED
    BY <2>3, <2>4, <2>5
<1>11. ASSUME NEW q \in Procs, Execute(q)
       PROVE  Goal
  <2>1. CASE agent[q].cmd \in Jobs
    BY <1>4, <1>11, <2>1 DEF Execute
  <2>2. CASE agent[q].cmd \notin Jobs
    <3>1. agent[q].at = "busy" /\ agent' = [agent EXCEPT ![q].at = "posting", ![q].scan = tree[q]]
      BY <1>11, <2>2 DEF Execute
    <3>2. /\ agent'[q].at = "posting" /\ agent'[q].scan = tree[q] /\ agent'[q].cmd = agent[q].cmd
          /\ \A p \in Procs \ {q} : agent'[p] = agent[p]
      BY <1>1, <3>1 DEF Client
    <3>3. Reads(q)'
      BY <1>2, <1>11, <3>1, <3>2, VersionsAreNumbers DEF Execute, Reads
    <3>4. QED
      BY <1>5, <1>11, <3>2, <3>3 DEF Execute
  <2>3. QED
    BY <2>1, <2>2
<1>12. ASSUME NEW q \in Procs, Edit(q)
       PROVE  Goal
  <2>1. \A p \in Procs : tree'[p] = IF p = q THEN tree[p] + 1 ELSE tree[p]
    BY <1>1, <1>12 DEF Edit
  <2>2. UNCHANGED <<agent, shown, asked>>
    BY <1>12 DEF Edit
  <2>3. \A p \in Procs : Reads(p)'
    <3> SUFFICES ASSUME NEW p \in Procs PROVE Reads(p)'
      OBVIOUS
    <3>1. Working(p) => agent[p].cmd \in Requests
      BY DEF Commanded, InHand
    <3>2. QED
      BY <1>2, <2>1, <2>2, <3>1, VersionsAreNumbers DEF Reads, Working
  <2>4. QED
    BY <2>1, <2>2, <2>3, VersionsAreNumbers DEF Goal
<1>13. ASSUME NEW q \in Procs, Quit(q)
       PROVE  Goal
  BY <1>4, <1>13 DEF Quit
<1>14. CASE \/ \E r \in Jobs : JobPost(r) \/ JobPoll(r)
            \/ \E r \in Requests : Answered(r) \/ TimedOut(r)
  BY <1>3, <1>14 DEF JobPost, JobPoll, Answered, TimedOut
<1>15. QED
  BY <1>6, <1>7, <1>8, <1>9, <1>10, <1>11, <1>12, <1>13, <1>14 DEF Next, Serve

LEMMA VersionedFrame ==
  ASSUME Typed, Typed', Commanded, Versioned, sessions' \subseteq sessions,
         \A s \in Sids : Same(s) \/ (sess'[s] = NoSession /\ s \notin sessions'),
         \A s \in Sids : QueueFrom(sess'[s].queue, sess[s].queue),
         UNCHANGED <<shown, asked>>,
         \A p \in Procs : Reads(p)' /\ tree'[p] >= tree[p],
         \A r \in Requests :
           /\ req'[r].sid = req[r].sid
           /\ r \notin Jobs => (slot'[r] = "set" => slot[r] = "set") /\ result'[r] = result[r]
           /\ r \in Syncs => req'[r].at = req[r].at \/ req'[r].at = "failed"
  PROVE  Versioned'
<1>1. sessions \subseteq Sids
  BY DEF Typed, TypeOK
<1>2. \A s \in sessions' : s \in Sids /\ s \in sessions /\ Same(s)
  BY <1>1
<1>3. \A s \in sessions' : sess'[s].catalog = shown'[sess'[s].proc]
  BY <1>2 DEF Versioned, Same
<1>4. ASSUME NEW s \in Sids
      PROVE  Behind(s)'
  <2>1. CASE sess'[s] = NoSession
    BY <2>1 DEF Behind, NoSession
  <2>2. CASE Same(s)
    <3> SUFFICES ASSUME NEW i \in DOMAIN sess'[s].queue, sess'[s].queue[i] # Stop
                 PROVE  sess'[s].proc \in Procs /\ asked[sess'[s].queue[i]].tree <= tree'[sess'[s].proc]
      BY DEF Behind
    <3>1. PICK j \in DOMAIN sess[s].queue : sess'[s].queue[i] = sess[s].queue[j]
      BY DEF QueueFrom
    <3> DEFINE r == sess[s].queue[j]
               p == sess[s].proc
    <3>2. p \in Procs /\ asked[r].tree <= tree[p] /\ sess'[s].proc = p
      BY <2>2, <3>1 DEF Versioned, Behind, Same
    <3>3. sess[s].queue \in Seq(Commands)
      BY QueueIsSeq
    <3>4. r \in Requests
      BY <3>1, <3>3 DEF Commands
    <3>5. asked[r].tree \in Nat /\ tree[p] \in Nat /\ tree'[p] \in Nat /\ tree'[p] >= tree[p]
      BY <3>2, <3>4, VersionsAreNumbers, HubAssumption DEF Typed, TypeOK, Versions
    <3>6. asked[r].tree <= tree'[p]
      BY <3>2, <3>5
    <3>7. QED
      BY <3>1, <3>2, <3>6
  <2>3. QED
    BY <2>1, <2>2
<1>5. Received' /\ Remembered'
  <2>1. Syncs \subseteq Requests \ Jobs
    BY HubAssumption DEF Requests, CatalogRequests
  <2>2. QED
    BY <1>2, <2>1 DEF Versioned, Received, Remembered, Same
<1>6. SyncLoads'
  BY <1>2, HubAssumption DEF Versioned, SyncLoads, Same, Requests, CatalogRequests
<1>7. QED
  BY <1>3, <1>4, <1>5, <1>6 DEF Versioned

LEMMA VersionedInserts ==
  ASSUME Typed, Typed', Identity, Commanded, Versioned, Inserts
  PROVE  Versioned'
<1>1. PICK p \in Procs, s \in FreshSids, delivered \in BOOLEAN :
        /\ agent[p].at = "retiring" /\ agent[p].olds = {}
        /\ sessions' = sessions \cup {s} /\ UNCHANGED <<orphan, tree, background, reqVars>>
        /\ sess' = [sess EXCEPT ![s] = [proc |-> p, age |-> "fresh", queue |-> <<>>,
                                        catalog |-> agent[p].scan, loaded |-> agent[p].scan]]
        /\ agent' = [agent EXCEPT ![p] = IF delivered THEN Loop("ready", s)
                                                      ELSE Loop("out", NoSid)]
        /\ shown' = [shown EXCEPT ![p] = IF @ < agent[p].scan THEN agent[p].scan ELSE @]
  BY InsertsFresh
<1>2. s \in Sids /\ s \notin sessions /\ \A r \in Requests : req[r].sid # s
  BY DEF FreshSids, InUse
<1>3. UNCHANGED <<tree, req, slot, result, asked>>
  BY <1>1 DEF reqVars
<1>4. agent'[p].at \in {"ready", "out"} /\ \A q \in Procs \ {p} : agent'[q] = agent[q]
  BY <1>1 DEF Typed, TypeOK, Loop
<1>5. /\ sess'[s].proc = p /\ sess'[s].catalog = agent[p].scan /\ sess'[s].queue = <<>>
      /\ \A t \in Sids : t # s => sess'[t] = sess[t]
  BY <1>1, <1>2 DEF Typed, TypeOK
<1>6. shown[p] <= agent[p].scan /\ agent[p].scan <= tree[p]
  BY <1>1 DEF Versioned, Reads
<1>7. shown'[p] = agent[p].scan /\ \A q \in Procs \ {p} : shown'[q] = shown[q]
  BY <1>1, <1>6, VersionsAreNumbers DEF Typed, TypeOK
<1>8. \A t \in sessions : t \in Sids /\ t # s /\ sess[t].proc # p
  BY <1>1, <1>2 DEF Identity, Typed, TypeOK
<1>9. ASSUME NEW t \in sessions'
      PROVE  sess'[t].catalog = shown'[sess'[t].proc]
  <2>1. CASE t = s
    BY <1>5, <1>7, <2>1
  <2>2. CASE t # s
    <3>1. t \in sessions
      BY <1>1, <2>2
    <3>2. sess'[t] = sess[t] /\ sess[t].proc # p /\ sess[t].catalog = shown[sess[t].proc]
      BY <1>5, <1>8, <3>1 DEF Versioned
    <3>3. shown'[sess[t].proc] = shown[sess[t].proc]
      BY <1>1, <3>2 DEF Typed, TypeOK
    <3>4. QED
      BY <3>2, <3>3
  <2>3. QED
    BY <2>1, <2>2
<1>10. \A q \in Procs : Reads(q)'
  BY <1>3, <1>4, <1>6, <1>7 DEF Versioned, Reads
<1>11. \A t \in Sids : Behind(t)'
  BY <1>3, <1>5 DEF Versioned, Behind
<1>12. Received' /\ Remembered' /\ SyncLoads'
  <2>1. Syncs \subseteq Requests
    BY DEF Requests, CatalogRequests
  <2>2. \A r \in Syncs : req[r].sid \in sessions' =>
          req[r].sid \in sessions /\ sess'[req[r].sid] = sess[req[r].sid]
    BY <1>1, <1>2, <1>5, <1>8, <2>1
  <2>3. QED
    BY <1>3, <2>2 DEF Versioned, Received, Remembered, SyncLoads
<1>13. QED
  BY <1>9, <1>10, <1>11, <1>12 DEF Versioned

LEMMA VersionedAsk ==
  ASSUME Typed, Typed', Owned, Commanded, Versioned, NEW r \in Requests, Ask(r)
  PROVE  Versioned'
<1>1. PICK s \in sessions : /\ req' = [req EXCEPT ![r] = [at |-> "waiting", sid |-> s]]
                            /\ sess' = Put(s, r)
                            /\ asked' = [asked EXCEPT ![r] = [tree |-> tree[sess[s].proc],
                                                              shown |-> shown[sess[s].proc],
                                                              cached |-> sess[s].catalog]]
  BY DEF Ask
<1>2. /\ s \in Sids /\ sess[s].proc \in Procs /\ req[r].at = "open"
      /\ slot' = [slot EXCEPT ![r] = "pending"]
      /\ UNCHANGED <<sessions, agent, tree, shown, result>>
  BY DEF Ask, agentVars, Owned, Typed, TypeOK
<1>3. /\ slot'[r] = "pending" /\ req'[r].at = "waiting" /\ req'[r].sid = s
      /\ asked'[r].tree = tree[sess[s].proc] /\ asked'[r].shown = shown[sess[s].proc]
      /\ asked'[r].cached = sess[s].catalog
      /\ \A x \in Requests : x # r =>
           req'[x] = req[x] /\ slot'[x] = slot[x] /\ asked'[x] = asked[x]
  BY <1>1, <1>2 DEF Typed, TypeOK
<1>4. \A t \in Sids : /\ sess'[t].proc = sess[t].proc /\ sess'[t].catalog = sess[t].catalog
                      /\ sess'[t].loaded = sess[t].loaded
                      /\ sess'[t].queue = IF t = s THEN Append(sess[t].queue, r)
                                                   ELSE sess[t].queue
  BY <1>1 DEF Put, Typed, TypeOK, Session
<1>5. sessions \subseteq Sids
  BY DEF Typed, TypeOK
<1>6. \A t \in sessions' : sess'[t].catalog = shown'[sess'[t].proc]
  BY <1>2, <1>4, <1>5 DEF Versioned
<1>7. ASSUME NEW p \in Procs
      PROVE  Reads(p)'
  <2>1. Working(p) => agent[p].cmd \in Requests /\ agent[p].cmd # r
    BY <1>2 DEF Commanded, InHand
  <2>2. QED
    BY <1>2, <1>3, <2>1 DEF Versioned, Reads, Working
<1>8. ASSUME NEW t \in Sids
      PROVE  Behind(t)'
  <2> DEFINE q == sess[t].queue
  <2>1. q \in Seq(Commands) /\ r \in Commands
    BY QueueIsSeq DEF Commands
  <2>2. ASSUME NEW i \in DOMAIN q, q[i] # Stop
        PROVE  sess'[t].proc \in Procs /\ asked'[q[i]].tree <= tree'[sess'[t].proc]
    <3>1. q[i] \in Requests /\ q[i] # r
      BY <1>2, <2>1, <2>2 DEF Commanded, Queued, Commands
    <3>2. QED
      BY <1>2, <1>3, <1>4, <2>2, <3>1 DEF Versioned, Behind
  <2>3. sess'[t].queue = q \/ (t = s /\ sess'[t].queue = Append(q, r))
    BY <1>4
  <2>4. asked'[r].tree <= tree'[sess'[s].proc]
    BY <1>2, <1>3, <1>4, VersionsAreNumbers
  <2>5. \A i \in DOMAIN Append(q, r) :
          \/ i \in DOMAIN q /\ Append(q, r)[i] = q[i]
          \/ Append(q, r)[i] = r
    <3> HIDE DEF q
    <3> QED
      BY <2>1
  <2> HIDE DEF q
  <2>6. QED
    BY <1>2, <1>4, <2>2, <2>3, <2>4, <2>5 DEF Behind
<1>9. Received' /\ Remembered' /\ SyncLoads'
  <2>1. Syncs \subseteq Requests
    BY DEF Requests, CatalogRequests
  <2>2. sess[s].catalog = shown[sess[s].proc] /\ sess[s].catalog \in Nat
    BY <1>2, VersionsAreNumbers DEF Versioned
  <2>3. Remembered'
    BY <1>2, <1>3, <1>4, <1>5, <2>1, <2>2 DEF Versioned, Remembered
  <2>4. Received' /\ SyncLoads'
    BY <1>2, <1>3, <1>4, <1>5, <2>1 DEF Versioned, Received, SyncLoads
  <2>5. QED
    BY <2>3, <2>4
<1>10. QED
  BY <1>6, <1>7, <1>8, <1>9 DEF Versioned

LEMMA VersionedPost ==
  ASSUME Typed, Typed', Identity, Commanded, Versioned, NEW p \in Procs, Post(p)
  PROVE  Versioned'
<1> DEFINE r == agent[p].cmd
           s == agent[p].sid
           scan == agent[p].scan
<1>1. r \in Requests \ Jobs /\ s \in Sids /\ req[r].sid = s /\ agent[p].at = "posting"
  BY DEF Post, Commanded, InHand, Working, Typed, Attached
<1>2. UNCHANGED <<sessions, tree, req, asked>> /\ sessions \subseteq Sids
  BY DEF Post, Typed, TypeOK
<1>3. agent'[p].at \in {"ready", "out"} /\ \A q \in Procs \ {p} : agent'[q] = agent[q]
  BY DEF Post, Forgotten, Loop, Typed, TypeOK
<1>4. /\ shown[p] <= scan /\ scan <= tree[p] /\ asked[r].tree <= scan
      /\ shown[p] <= tree[p]
  BY <1>1 DEF Versioned, Reads
<1>5. CASE UNCHANGED <<sess, slot, result, shown>>
  BY <1>2, <1>3, <1>4, <1>5
     DEF Versioned, Reads, Behind, Received, Remembered, SyncLoads
<1>6. CASE /\ Receive(r, s, scan)
           /\ shown' = IF r \in CatalogRequests THEN [shown EXCEPT ![p] = scan] ELSE shown
  <2>1. /\ s \in sessions
        /\ slot' = [slot EXCEPT ![r] = IF @ = "pending" THEN "set" ELSE @]
        /\ result' = [result EXCEPT ![r] = scan]
        /\ sess' = IF r \in CatalogRequests THEN [sess EXCEPT ![s].catalog = scan] ELSE sess
    BY <1>6 DEF Receive
  <2>2. sess[s].proc = p /\ \A t \in sessions : t # s => sess[t].proc # p
    BY <2>1 DEF Identity, OneSessionPerProcess
  <2>3. \A t \in Sids : /\ sess'[t].proc = sess[t].proc /\ sess'[t].queue = sess[t].queue
                        /\ sess'[t].loaded = sess[t].loaded
                        /\ sess'[t].catalog = IF t = s /\ r \in CatalogRequests
                                                THEN scan ELSE sess[t].catalog
    BY <2>1 DEF Typed, TypeOK, Session
  <2>4. \A q \in Procs : shown'[q] = IF q = p /\ r \in CatalogRequests THEN scan ELSE shown[q]
    BY <1>6 DEF Typed, TypeOK
  <2>5. \A x \in Requests : /\ x # r => slot'[x] = slot[x] /\ result'[x] = result[x]
                            /\ x = r => result'[x] = scan
    BY <2>1 DEF Typed, TypeOK
  <2>6. ASSUME NEW t \in sessions'
        PROVE  sess'[t].catalog = shown'[sess'[t].proc]
    <3>1. t \in sessions /\ t \in Sids /\ sess[t].catalog = shown[sess[t].proc]
      BY <1>2 DEF Versioned
    <3>2. CASE t = s
      BY <2>2, <2>3, <2>4, <3>1, <3>2
    <3>3. CASE t # s
      <4>1. sess[t].proc # p
        BY <2>2, <3>1, <3>3
      <4>2. shown'[sess[t].proc] = shown[sess[t].proc]
        BY <1>6, <4>1 DEF Typed, TypeOK
      <4>3. QED
        BY <2>3, <3>1, <3>3, <4>2
    <3>4. QED
      BY <3>2, <3>3
  <2>7. \A q \in Procs : Reads(q)'
    BY <1>2, <1>3, <1>4, <2>4 DEF Versioned, Reads
  <2>8. \A t \in Sids : Behind(t)'
    BY <1>2, <2>3 DEF Versioned, Behind
  <2>9. Syncs \subseteq CatalogRequests /\ Syncs \subseteq Requests \ Jobs
    BY HubAssumption DEF Requests, CatalogRequests
  <2>10. \A x \in Requests \ Jobs : slot'[x] = "set" => asked'[x].tree <= result'[x]
    BY <1>2, <1>4, <2>5 DEF Versioned, Received
  <2>11. ASSUME NEW x \in Syncs, slot'[x] = "set", req'[x].sid \in sessions'
         PROVE  asked'[x].tree <= sess'[req'[x].sid].catalog
    <3>1. req[x].sid \in sessions /\ req[x].sid \in Sids /\ x \in Requests
      BY <1>2, <2>9, <2>11
    <3>2. CASE x = r
      BY <1>1, <1>2, <1>4, <2>3, <2>9, <3>2
    <3>3. CASE x # r
      <4>1. asked[x].tree <= sess[req[x].sid].catalog
        BY <2>5, <2>11, <3>1, <3>3 DEF Versioned, Received
      <4>2. sess[s].catalog = shown[p]
        BY <2>1, <2>2 DEF Versioned
      <4>3. CASE req[x].sid = s
        BY <1>2, <1>4, <2>3, <3>1, <4>1, <4>2, <4>3, VersionsAreNumbers
      <4>4. CASE req[x].sid # s
        BY <1>2, <2>3, <3>1, <4>1, <4>4
      <4>5. QED
        BY <4>3, <4>4
    <3>4. QED
      BY <3>2, <3>3
  <2>12. SyncLoads'
    BY <1>2, <2>3, <2>9 DEF Versioned, SyncLoads
  <2>13. ASSUME NEW x \in Syncs, req'[x].sid \in sessions'
         PROVE  asked'[x].shown <= sess'[req'[x].sid].catalog
    <3>1. req[x].sid \in sessions /\ req[x].sid \in Sids /\ x \in Requests
      BY <1>2, <2>9, <2>13
    <3>2. asked[x].shown <= sess[req[x].sid].catalog
      BY <3>1 DEF Versioned, Remembered
    <3>3. sess[s].catalog = shown[p]
      BY <2>1, <2>2 DEF Versioned
    <3>4. CASE req[x].sid = s
      BY <1>2, <1>4, <2>3, <3>1, <3>2, <3>3, <3>4, VersionsAreNumbers
    <3>5. CASE req[x].sid # s
      BY <1>2, <2>3, <3>1, <3>2, <3>5
    <3>6. QED
      BY <3>4, <3>5
  <2>14. Remembered'
    BY <1>2, <2>13 DEF Versioned, Remembered
  <2>15. QED
    BY <2>6, <2>7, <2>8, <2>10, <2>11, <2>12, <2>14 DEF Versioned, Received
<1>7. QED
  BY <1>5, <1>6 DEF Post

LEMMA VersionedReply ==
  ASSUME Typed, Typed', Commanded, Versioned, NEW r \in Requests, Answered(r) \/ TimedOut(r)
  PROVE  Versioned'
<1>1. /\ UNCHANGED <<sessions, agent, tree, shown, slot, result, asked>>
      /\ Snapshot(r) /\ sessions \subseteq Sids
  BY DEF Answered, TimedOut, agentVars, Typed, TypeOK
<1>2. \E to \in {"answered", "late", "failed"} :
        req' = [req EXCEPT ![r].at = to] /\ (to = "answered" => slot[r] = "set")
  BY DEF Answered, TimedOut
<1>3. \A x \in Requests : /\ req'[x].sid = req[x].sid
                          /\ x # r => req'[x].at = req[x].at
                          /\ req'[r].at = "answered" => slot[r] = "set"
  BY <1>2 DEF Typed, TypeOK
<1>4. \A t \in Sids :
        /\ sess'[t].proc = sess[t].proc /\ sess'[t].queue = sess[t].queue
        /\ sess'[t].catalog = sess[t].catalog
        /\ sess'[t].loaded = IF r \in Syncs /\ req[r].sid \in sessions /\ t = req[r].sid
                               THEN sess[t].catalog ELSE sess[t].loaded
  BY <1>1 DEF Snapshot, Typed, TypeOK, Session
<1>5. Syncs \subseteq Requests \ Jobs
  BY HubAssumption DEF Requests, CatalogRequests
<1>6. \A t \in sessions' : sess'[t].catalog = shown'[sess'[t].proc]
  BY <1>1, <1>4 DEF Versioned
<1>7. \A p \in Procs : Reads(p)'
  BY <1>1 DEF Versioned, Reads
<1>8. \A t \in Sids : Behind(t)'
  BY <1>1, <1>4 DEF Versioned, Behind
<1>9. Received' /\ Remembered'
  BY <1>1, <1>3, <1>4, <1>5 DEF Versioned, Received, Remembered
<1>10. ASSUME NEW x \in Syncs, req'[x].at = "answered", req'[x].sid \in sessions'
       PROVE  sess'[req'[x].sid].loaded >= asked'[x].tree
  <2>1. req[x].sid \in sessions /\ req[x].sid \in Sids /\ x \in Requests \ Jobs
    BY <1>1, <1>3, <1>5, <1>10
  <2>2. slot[x] = "set"
    BY <1>3, <1>10, <2>1 DEF Commanded
  <2>3. asked[x].tree <= sess[req[x].sid].catalog
    BY <2>1, <2>2 DEF Versioned, Received
  <2>4. sess'[req[x].sid].loaded = sess[req[x].sid].catalog
          \/ (x # r /\ sess'[req[x].sid].loaded = sess[req[x].sid].loaded)
    BY <1>4, <2>1
  <2>5. x # r => sess[req[x].sid].loaded >= asked[x].tree
    BY <1>3, <1>10, <2>1 DEF Versioned, SyncLoads
  <2>6. QED
    BY <1>1, <1>3, <2>1, <2>3, <2>4, <2>5, VersionsAreNumbers
<1>11. ASSUME NEW x \in Syncs, req'[x].at = "late", req'[x].sid \in sessions'
       PROVE  sess'[req'[x].sid].loaded >= asked'[x].shown
  <2>1. req[x].sid \in sessions /\ req[x].sid \in Sids /\ x \in Requests \ Jobs
    BY <1>1, <1>3, <1>5, <1>11
  <2>2. asked[x].shown <= sess[req[x].sid].catalog
    BY <2>1 DEF Versioned, Remembered
  <2>3. sess'[req[x].sid].loaded = sess[req[x].sid].catalog
          \/ (x # r /\ sess'[req[x].sid].loaded = sess[req[x].sid].loaded)
    BY <1>4, <2>1
  <2>4. x # r => sess[req[x].sid].loaded >= asked[x].shown
    BY <1>3, <1>11, <2>1 DEF Versioned, SyncLoads
  <2>5. QED
    BY <1>1, <1>3, <2>1, <2>2, <2>3, <2>4, VersionsAreNumbers
<1>12. QED
  BY <1>6, <1>7, <1>8, <1>9, <1>10, <1>11 DEF Versioned, SyncLoads

\* Outside the callers' own steps and a result, no request moves towards an answer.
LEMMA RequestsStay ==
  ASSUME Typed, Next, \A p \in Procs : ~Post(p),
         \A r \in Requests : ~Ask(r) /\ ~Answered(r) /\ ~TimedOut(r)
  PROVE  \A r \in Requests :
           /\ req'[r].sid = req[r].sid
           /\ r \notin Jobs => (slot'[r] = "set" => slot[r] = "set") /\ result'[r] = result[r]
           /\ r \in Syncs => req'[r].at = req[r].at \/ req'[r].at = "failed"
<1> DEFINE Goal == \A r \in Requests :
           /\ req'[r].sid = req[r].sid
           /\ r \notin Jobs => (slot'[r] = "set" => slot[r] = "set") /\ result'[r] = result[r]
           /\ r \in Syncs => req'[r].at = req[r].at \/ req'[r].at = "failed"
<1>1. UNCHANGED <<req, slot, result>> => Goal
  OBVIOUS
<1> SUFFICES Goal
  OBVIOUS
<1> USE DEF reqVars
<1>2. CASE Restart
  <2>1. /\ UNCHANGED result
        /\ \A r \in Requests : /\ req'[r].sid = req[r].sid
                               /\ req'[r].at = IF req[r].at = "waiting" THEN "failed" ELSE req[r].at
                               /\ slot'[r] = IF slot[r] = "pending" THEN "freed" ELSE slot[r]
    BY <1>2 DEF Restart, Typed, TypeOK
  <2>2. QED
    BY <2>1
<1>3. ASSUME NEW r \in Jobs, JobPost(r)
      PROVE  Goal
  <2>1. UNCHANGED req /\ \A x \in Requests : x # r => slot'[x] = slot[x] /\ result'[x] = result[x]
    BY <1>3 DEF JobPost, Receive, Typed, TypeOK
  <2>2. QED
    BY <1>3, <2>1
<1>4. ASSUME NEW r \in Jobs, JobPoll(r)
      PROVE  Goal
  <2>1. /\ UNCHANGED result
        /\ \A x \in Requests : /\ req'[x].sid = req[x].sid
                               /\ x # r => req'[x] = req[x] /\ slot'[x] = slot[x]
    BY <1>4 DEF JobPoll, Typed, TypeOK
  <2>2. r \notin Syncs
    BY HubAssumption DEF CatalogRequests
  <2>3. QED
    BY <1>4, <2>1, <2>2
<1> HIDE DEF Goal
<1>5. CASE Reap \/ \E s \in Sids : Disconnect(s) \/ Age(s) \/ OrphanEnds(s)
  BY <1>1, <1>5 DEF Reap, Disconnect, Age, OrphanEnds
<1>6. CASE \E p \in Procs : Register(p) \/ Edit(p) \/ Quit(p)
  BY <1>1, <1>6 DEF Register, Scan, RegisterLook, RegisterRetire, RegisterInsert, RegisterLost,
                    Edit, Quit
<1>7. CASE \E p \in Procs : Serve(p)
  BY <1>1, <1>7 DEF Serve, PollBegin, PollReturn, PollEmpty, Execute
<1>8. QED
  BY <1>2, <1>3, <1>4, <1>5, <1>6, <1>7 DEF Next

LEMMA VersionedStep ==
  ASSUME Typed, Typed', Owned, Identity, Commanded, Versioned, [Next]_vars
  PROVE  Versioned'
<1>1. CASE UNCHANGED vars
  BY <1>1 DEF vars, hubVars, agentVars, reqVars, Versioned, Reads, Behind, Received, Remembered, SyncLoads
<1>2. CASE Inserts
  BY <1>2, VersionedInserts
<1>3. CASE \E r \in Requests : Ask(r)
  BY <1>3, VersionedAsk
<1>4. CASE \E p \in Procs : Post(p)
  BY <1>4, VersionedPost
<1>5. CASE \E r \in Requests : Answered(r) \/ TimedOut(r)
  BY <1>5, VersionedReply
<1>6. CASE /\ Next /\ ~Inserts /\ \A p \in Procs : ~Post(p)
           /\ \A r \in Requests : ~Ask(r) /\ ~Answered(r) /\ ~TimedOut(r)
  <2>1. sessions' \subseteq sessions
    BY <1>6, OwnersStay
  <2>2. \A s \in Sids : Same(s) \/ (sess'[s] = NoSession /\ s \notin sessions')
    BY <1>6, ObjectsStay
  <2>3. \A s \in Sids : QueueFrom(sess'[s].queue, sess[s].queue)
    BY <1>6, QueuesMove
  <2>4. UNCHANGED <<shown, asked>> /\ \A p \in Procs : Reads(p)' /\ tree'[p] >= tree[p]
    BY <1>6, ReadsStay
  <2>5. \A r \in Requests :
          /\ req'[r].sid = req[r].sid
          /\ r \notin Jobs => (slot'[r] = "set" => slot[r] = "set") /\ result'[r] = result[r]
          /\ r \in Syncs => req'[r].at = req[r].at \/ req'[r].at = "failed"
    BY <1>6, RequestsStay
  <2>6. QED
    BY <2>1, <2>2, <2>3, <2>4, <2>5, VersionedFrame
<1>7. QED
  BY <1>1, <1>2, <1>3, <1>4, <1>5, <1>6

LEMMA ShownGrows ==
  ASSUME Typed, Typed', Identity, Commanded, Versioned, [Next]_vars
  PROVE  \A p \in Procs : shown'[p] >= shown[p]
<1>1. \A p \in Procs : shown[p] \in Nat /\ shown[p] >= shown[p]
  BY VersionsAreNumbers
<1>2. CASE UNCHANGED vars
  BY <1>1, <1>2 DEF vars, agentVars
<1>3. CASE Inserts
  <2>1. PICK p \in Procs :
          shown' = [shown EXCEPT ![p] = IF @ < agent[p].scan THEN agent[p].scan ELSE @]
    BY <1>3, InsertsFresh
  <2>2. QED
    BY <1>1, <2>1, VersionsAreNumbers DEF Typed, TypeOK
<1>4. ASSUME NEW p \in Procs, Post(p)
      PROVE  \A q \in Procs : shown'[q] >= shown[q]
  <2>1. shown[p] <= agent[p].scan
    BY <1>4 DEF Post, Versioned, Reads
  <2>2. UNCHANGED shown \/ shown' = [shown EXCEPT ![p] = agent[p].scan]
    BY <1>4 DEF Post
  <2>3. QED
    BY <1>1, <2>1, <2>2, VersionsAreNumbers DEF Typed, TypeOK
<1>5. CASE \E r \in Requests : Ask(r)
  BY <1>1, <1>5 DEF Ask, agentVars
<1>6. CASE Next /\ ~Inserts /\ (\A p \in Procs : ~Post(p)) /\ \A r \in Requests : ~Ask(r)
  BY <1>1, <1>6, ReadsStay
<1>7. QED
  BY <1>2, <1>3, <1>4, <1>5, <1>6

LEMMA HubInvariant == Spec => []IInv
<1>1. Init => Versioned
  <2> SUFFICES ASSUME Init PROVE Versioned
    OBVIOUS
  <2>1. \A p \in Procs : Reads(p)
    BY DEF Init, Reads, Loop
  <2>2. \A s \in Sids : Behind(s)
    BY DEF Init, Behind, NoSession
  <2>3. Received /\ Remembered /\ SyncLoads
    BY HubAssumption DEF Init, Received, Remembered, SyncLoads, Requests, CatalogRequests
  <2>4. QED
    BY <2>1, <2>2, <2>3 DEF Init, Versioned
<1>2. /\ Typed /\ Owned /\ Identity /\ Commanded /\ Versioned
      /\ Typed' /\ [Next]_vars
      => Versioned'
  BY VersionedStep
<1>3. QED
  BY <1>1, <1>2, CommandedInvariant, PTL DEF Spec, IInv

\* Sessions, clients, requests and their slots keep their types.
THEOREM HubTypes == Spec => []TypeOK
<1>1. IInv => TypeOK
  BY DEF IInv, Typed
<1>2. QED
  BY <1>1, HubInvariant, PTL

\* A request answered in time is answered with what the files of its agent were after it was
\* asked, whatever earlier result arrived late and however often the agent registered again; a
\* pull that timed out, with a catalog not older than the newest shown until then.
THEOREM AnswersAreFresh == Spec => []AnswerIsFresh
<1>1. IInv => AnswerIsFresh
  <2> SUFFICES ASSUME IInv PROVE AnswerIsFresh
    OBVIOUS
  <2>1. ASSUME NEW r \in Requests \ Jobs, req[r].at = "answered"
        PROVE  result[r] >= asked[r].tree
    <3>1. slot[r] = "set"
      BY <2>1 DEF IInv, Commanded
    <3>2. asked[r].tree <= result[r]
      BY <3>1 DEF IInv, Versioned, Received
    <3>3. QED
      BY <3>2, VersionsAreNumbers DEF IInv
  <2>2. \A r \in Pulls : asked[r].cached >= asked[r].shown
    BY VersionsAreNumbers DEF IInv, Versioned, Remembered, Requests, CatalogRequests
  <2>3. QED
    BY <2>1, <2>2 DEF AnswerIsFresh
<1>2. QED
  BY <1>1, HubInvariant, PTL

\* A sync answered in time has loaded at least what the agent had when it was asked, one that
\* timed out at least what had been shown, and nothing takes that back while its session lives.
THEOREM SyncsLoad == Spec => []SyncLoads
<1>1. IInv => SyncLoads
  BY DEF IInv, Versioned
<1>2. QED
  BY <1>1, HubInvariant, PTL

\* What the server shows of an agent never goes back to an older state of its files.
THEOREM CatalogsGoForward == Spec => CatalogNeverGoesBack
<1>1. ASSUME IInv, IInv', [Next]_vars, NEW p \in Procs, NEW s \in Sids,
             s \in sessions', sess'[s].proc = p
      PROVE  sess'[s].catalog >= shown[p]
  <2>1. sess'[s].catalog = shown'[p]
    BY <1>1 DEF IInv, Versioned
  <2>2. shown[p] \in Nat /\ shown'[p] \in Nat
    BY <1>1, VersionsAreNumbers, HubAssumption DEF IInv, Typed, TypeOK, Versions
  <2>3. shown'[p] >= shown[p]
    BY <1>1, ShownGrows DEF IInv
  <2>4. QED
    BY <2>1, <2>2, <2>3
<1>2. IInv /\ IInv' /\ [Next]_vars
        => [\A p \in Procs, s \in Sids :
              s \in sessions' /\ sess'[s].proc = p => sess'[s].catalog >= shown[p]]_vars
  BY <1>1
<1>3. QED
  BY <1>2, HubInvariant, PTL DEF Spec, CatalogNeverGoesBack

\* An agent at work is not forgotten before busy_ttl: the slot of its command is pending, also
\* when the caller has given up.
THEOREM BusyAgentsAreKept == Spec => BusyIsKept
<1> DEFINE Loses(p) == /\ agent[p].at \in {"busy", "posting"} /\ agent[p].cmd # Stop
                       /\ agent[p].sid \in sessions /\ sess[agent[p].sid].age # "stale"
                       /\ agent[p].sid \notin sessions'
<1>1. ASSUME IInv, [Next]_vars, NEW p \in Procs, Loses(p)
      PROVE  Restart \/ Disconnect(agent[p].sid) \/ \E q \in Procs : RegisterRetire(q)
  <2> DEFINE s == agent[p].sid
  <2>1. agent[p].cmd \in Requests /\ req[agent[p].cmd].sid = s /\ slot[agent[p].cmd] = "pending"
    BY <1>1 DEF IInv, Commanded, InHand, Working
  <2>2. s \in alive
    BY <1>1, <2>1 DEF alive, Expired, has_pending
  <2>3. sessions' # sessions /\ sessions' # alive
    BY <1>1, <2>2
  <2> USE DEF hubVars
  <2>4. CASE Reap \/ \E t \in Sids : Disconnect(t) \/ Age(t) \/ OrphanEnds(t)
    BY <1>1, <2>3, <2>4 DEF Reap, Disconnect, Age, OrphanEnds
  <2>5. CASE \E q \in Procs : Register(q)
    BY <1>1, <2>3, <2>5
       DEF Register, Scan, RegisterLook, RegisterInsert, RegisterLost
  <2>6. CASE \E q \in Procs : Serve(q) \/ Edit(q) \/ Quit(q)
    BY <2>3, <2>6 DEF Serve, PollBegin, PollReturn, PollEmpty, Execute, Post, Edit, Quit
  <2>7. CASE \E r \in Jobs : JobPost(r) \/ JobPoll(r)
    BY <2>3, <2>7 DEF JobPost, JobPoll
  <2>8. CASE \E r \in Requests : Ask(r) \/ Answered(r) \/ TimedOut(r)
    BY <2>3, <2>8 DEF Ask, Answered, TimedOut
  <2>9. QED
    BY <1>1, <2>3, <2>4, <2>5, <2>6, <2>7, <2>8 DEF Next, vars
<1>2. IInv /\ [Next]_vars
        => [\A p \in Procs : LET s == agent[p].sid IN
              /\ agent[p].at \in {"busy", "posting"} /\ agent[p].cmd # Stop
              /\ s \in sessions /\ sess[s].age # "stale"
              /\ s \notin sessions'
              => Restart \/ Disconnect(s) \/ \E q \in Procs : RegisterRetire(q)]_vars
  BY <1>1
<1>3. QED
  BY <1>2, HubInvariant, PTL DEF Spec, BusyIsKept

=============================================================================
