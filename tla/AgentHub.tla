-------------------------------- MODULE AgentHub -------------------------------
(***************************************************************************)
(* The developers' agents: class AgentHub of web/agents.py, the agent      *)
(* endpoints of web/server.py that drive it, and the client loop of        *)
(* agent.py (run).  An agent reaches the server only by HTTP requests of   *)
(* its own: it registers, long-polls for a command, executes it and posts  *)
(* the result under the command's token.  The server forgets an agent that *)
(* has not polled for `ttl`, or for `busy_ttl` while it owes a result.     *)
(*                                                                         *)
(* All agents here belong to one owner: sessions of two owners share no    *)
(* state but the table, and register looks at its owner's sessions only.   *)
(* An agent's working tree is a version number; a command, its token and   *)
(* the slot its result goes to are named by the request that made them.    *)
(***************************************************************************)
EXTENDS Naturals, Sequences, FiniteSets

CONSTANTS
  Procs,                 \* agent processes started with the owner's token
  Calls,                 \* requests for the tree, an inspection or a file
  Pulls, Syncs,          \* requests for the catalog: agents_catalog and the
                         \* refresh after a write; agent_sync
  Jobs,                  \* headless AI runs
  MaxSids,               \* bound on the session ids in use at one time
  MaxEdits,              \* bound on the versions of a working tree
  MaxOrphans,            \* bound on the poll handlers left without a client
  NoSid, Stop

CatalogRequests == Pulls \cup Syncs
Requests == Calls \cup CatalogRequests \cup Jobs
Sids == 1..MaxSids
Versions == 0..MaxEdits
Commands == Requests \cup {Stop}

ASSUME HubAssumption ==
  /\ MaxSids \in Nat /\ MaxEdits \in Nat /\ MaxOrphans \in Nat
  /\ Calls \cap (CatalogRequests \cup Jobs) = {}
  /\ CatalogRequests \cap Jobs = {} /\ Pulls \cap Syncs = {}
  /\ NoSid \notin Sids /\ Stop \notin Requests

VARIABLES
  sessions,   \* AgentHub.sessions: the ids in the table
  sess,       \* the session objects, in the table or still polled
  orphan,     \* sessions with a poll handler whose client is gone
  agent,      \* the client loop of each process
  tree,       \* the version of each process's files
  background, \* the process that runs a job in a thread of its own
  req,        \* each request: where it is, on which session
  slot,       \* its entry in uploads, inspects, catalogs or files
  result,     \* the tree version its result was made from
  runs,       \* history: how often an agent executed it
  asked,      \* when it was asked: the version of the tree and the newest shown
              \* so far (history), and the session's catalog, which
              \* agents_catalog keeps in case the agent does not answer in time
  shown       \* history: the newest version a process's sessions have shown

hubVars == <<sessions, sess, orphan>>
agentVars == <<agent, tree, background, shown>>
reqVars == <<req, slot, result, runs, asked>>
vars == <<hubVars, agentVars, reqVars>>

AgentAt == {"out", "scanned", "retiring", "ready", "polling", "busy", "posting", "exited"}

Session == [proc : Procs \cup {NoSid}, age : {"fresh", "idle", "stale"},
            queue : Seq(Commands), catalog : Versions, loaded : Versions]

Client == [at : AgentAt, sid : Sids \cup {NoSid}, scan : Versions,
           cmd : Commands \cup {NoSid}, olds : SUBSET Sids]

TypeOK ==
  /\ sessions \subseteq Sids /\ orphan \subseteq Sids
  /\ sess \in [Sids -> Session] /\ agent \in [Procs -> Client]
  /\ tree \in [Procs -> Versions] /\ shown \in [Procs -> Versions]
  /\ background \in [Jobs -> Procs \cup {NoSid}]
  /\ req \in [Requests -> [at : {"open", "waiting", "answered", "late", "failed"},
                           sid : Sids \cup {NoSid}]]
  /\ slot \in [Requests -> {"none", "pending", "set", "freed"}]
  /\ result \in [Requests -> Versions]
  /\ asked \in [Requests -> [tree : Versions, shown : Versions, cached : Versions]]
  /\ runs \in [Requests -> Nat]

NoSession == [proc |-> NoSid, age |-> "fresh", queue |-> <<>>, catalog |-> 0, loaded |-> 0]

\* An agent outside a registration, a command and a result.
Loop(at, sid) == [at |-> at, sid |-> sid, scan |-> 0, cmd |-> NoSid, olds |-> {}]

Init ==
  /\ sessions = {} /\ orphan = {}
  /\ sess = [s \in Sids |-> NoSession]
  /\ agent = [p \in Procs |-> Loop("out", NoSid)]
  /\ tree = [p \in Procs |-> 0] /\ shown = [p \in Procs |-> 0]
  /\ background = [r \in Jobs |-> NoSid]
  /\ req = [r \in Requests |-> [at |-> "open", sid |-> NoSid]]
  /\ slot = [r \in Requests |-> "none"]
  /\ result = [r \in Requests |-> 0]
  /\ asked = [r \in Requests |-> [tree |-> 0, shown |-> 0, cached |-> 0]]
  /\ runs = [r \in Requests |-> 0]

-----------------------------------------------------------------------------
(* AgentHub *)

\* Mutant: only results that a caller still waits for count.
has_pendingCaller(s) ==
  \E r \in Requests : req[r].sid = s /\ req[r].at = "waiting" /\ slot[r] = "pending"

\* has_pending: a result is still owed, whether or not anybody waits for it.
has_pending(s) == \E r \in Requests : req[r].sid = s /\ slot[r] = "pending"

Expired(s) == IF has_pending(s) THEN sess[s].age = "stale" ELSE sess[s].age # "fresh"

\* alive: what remains of the table once the expired sessions are forgotten.
alive == {s \in sessions : ~Expired(s)}

\* secrets.token_hex: an id nothing refers to.
InUse(s) ==
  \/ s \in sessions \cup orphan
  \/ \E p \in Procs : agent[p].sid = s \/ s \in agent[p].olds
  \/ \E r \in Requests : req[r].sid = s

FreshSids == {s \in Sids : ~InUse(s)}

\* The objects of a step: one that is neither in the table nor held by a poll
\* handler is gone.
Polled(s) == s \in orphan \/ \E p \in Procs : agent[p].at = "polling" /\ agent[p].sid = s
Kept(objects) ==
  [s \in Sids |-> IF s \in sessions' \/ Polled(s)' THEN objects[s] ELSE NoSession]

Put(s, cmd) == [sess EXCEPT ![s].queue = Append(@, cmd)]

\* agents_list, agents_catalog, _pick_agent: each begins with hub.alive().
Reap ==
  /\ alive # sessions
  /\ sessions' = alive
  /\ UNCHANGED <<orphan, agentVars, reqVars>>
  /\ sess' = Kept(sess)

\* agent_disconnect
Disconnect(s) ==
  /\ s \in sessions
  /\ sessions' = sessions \ {s}
  /\ UNCHANGED <<orphan, agentVars, reqVars>>
  /\ sess' = Kept(Put(s, Stop))

\* The server process ends and starts again: the hub is in memory only.
Restart ==
  /\ sessions # {}
  /\ sessions' = {} /\ orphan' = {}
  /\ agent' = [p \in Procs |->
       CASE agent[p].at = "polling" -> [agent[p] EXCEPT !.at = "ready"]
         [] agent[p].at \in {"scanned", "retiring"} -> Loop("out", NoSid)
         [] OTHER -> agent[p]]
  /\ req' = [r \in Requests |->
       IF req[r].at = "waiting" THEN [req[r] EXCEPT !.at = "failed"] ELSE req[r]]
  /\ slot' = [r \in Requests |-> IF slot[r] = "pending" THEN "freed" ELSE slot[r]]
  /\ sess' = [s \in Sids |-> NoSession]
  /\ UNCHANGED <<tree, background, shown, result, runs, asked>>

\* Time passes since the last poll began.  A poll takes 25 s, less than ttl.
Age(s) ==
  /\ s \in sessions /\ sess[s].age # "stale"
  /\ \A p \in Procs : ~(agent[p].at = "polling" /\ agent[p].sid = s)
  /\ sess' = [sess EXCEPT ![s].age = IF @ = "fresh" THEN "idle" ELSE "stale"]
  /\ UNCHANGED <<sessions, orphan, agentVars, reqVars>>

-----------------------------------------------------------------------------
(* The agent: register *)

Go(p, from, to) == agent[p].at = from /\ agent' = [agent EXCEPT ![p].at = to]

\* Mutant: the files are scanned once, when the process starts.
ScanAtStartOnly(p) ==
  /\ agent[p].at = "out"
  /\ agent' = [agent EXCEPT ![p].at = "scanned", ![p].scan = 0]
  /\ UNCHANGED <<hubVars, tree, background, shown, reqVars>>

\* Every (re)registration scans the files again.
Scan(p) ==
  /\ agent[p].at = "out"
  /\ agent' = [agent EXCEPT ![p].at = "scanned", ![p].scan = tree[p]]
  /\ UNCHANGED <<hubVars, tree, background, shown, reqVars>>

\* Mutant: no session is retired.
RegisterLookAtNone(p) ==
  /\ agent[p].at = "scanned"
  /\ agent' = [agent EXCEPT ![p].at = "retiring", ![p].olds = {}]
  /\ sessions' = alive
  /\ UNCHANGED <<orphan, tree, background, shown, reqVars>>
  /\ sess' = Kept(sess)

\* agent_register collects the owner's live sessions ...
RegisterLook(p) ==
  /\ agent[p].at = "scanned"
  /\ agent' = [agent EXCEPT ![p].at = "retiring", ![p].olds = alive]
  /\ sessions' = alive
  /\ UNCHANGED <<orphan, tree, background, shown, reqVars>>
  /\ sess' = Kept(sess)

\* ... asks each to stop and drops it ...
RegisterRetire(p) ==
  /\ agent[p].at = "retiring"
  /\ \E s \in agent[p].olds :
       /\ sessions' = sessions \ {s}
       /\ agent' = [agent EXCEPT ![p].olds = @ \ {s}]
       /\ UNCHANGED orphan
       /\ sess' = Kept(Put(s, Stop))
  /\ UNCHANGED <<tree, background, shown, reqVars>>

\* ... and enters the new one.
RegisterInsert(p, delivered) ==
  /\ agent[p].at = "retiring" /\ agent[p].olds = {}
  /\ \E s \in FreshSids :
       /\ \A t \in FreshSids : s <= t
       /\ sessions' = sessions \cup {s}
       /\ sess' = [sess EXCEPT ![s] = [proc |-> p, age |-> "fresh", queue |-> <<>>,
                                       catalog |-> agent[p].scan, loaded |-> agent[p].scan]]
       /\ agent' = [agent EXCEPT ![p] = IF delivered THEN Loop("ready", s)
                                                     ELSE Loop("out", NoSid)]
  /\ shown' = [shown EXCEPT ![p] = IF @ < agent[p].scan THEN agent[p].scan ELSE @]
  /\ UNCHANGED <<orphan, tree, background, reqVars>>

\* The request for a registration does not arrive.
RegisterLost(p) ==
  /\ agent[p].at = "scanned"
  /\ agent' = [agent EXCEPT ![p] = Loop("out", NoSid)]
  /\ UNCHANGED <<hubVars, tree, background, shown, reqVars>>

-----------------------------------------------------------------------------
(* The agent: poll, execute, post *)

\* Mutant: a 404 is retried like any other error.
ForgottenRetries(p) ==
  /\ agent[p].sid \notin sessions
  /\ agent' = [agent EXCEPT ![p] = Loop("ready", @.sid)]

\* A 404: the server has forgotten this session.
Forgotten(p) ==
  /\ agent[p].sid \notin sessions
  /\ agent' = [agent EXCEPT ![p] = Loop("out", NoSid)]

PollBegin(p) ==
  /\ agent[p].at = "ready"
  /\ \/ Forgotten(p) /\ UNCHANGED sess
     \/ /\ agent[p].sid \in sessions
        /\ Go(p, "ready", "polling")
        /\ sess' = [sess EXCEPT ![agent[p].sid].age = "fresh"]
  /\ UNCHANGED <<sessions, orphan, tree, background, shown, reqVars>>

\* Mutant: the command stays at the head of the queue.
DequeueLeaves(s) ==
  /\ sess[s].queue # <<>>
  /\ sess' = Kept(sess)

\* The handler takes the next command off the queue of the session it holds,
\* whether or not that is still in the table.
Dequeue(s) ==
  /\ sess[s].queue # <<>>
  /\ sess' = Kept([sess EXCEPT ![s].queue = Tail(@)])

PollReturn(p, delivered) ==
  LET s == agent[p].sid  cmd == Head(sess[s].queue) IN
  /\ agent[p].at = "polling" /\ sess[s].queue # <<>>
  /\ agent' = [agent EXCEPT ![p] =
       IF ~delivered THEN Loop("ready", s)
       ELSE IF cmd = Stop THEN Loop("exited", NoSid)
       ELSE [@ EXCEPT !.at = "busy", !.cmd = cmd]]
  /\ UNCHANGED <<sessions, orphan>>
  /\ Dequeue(s)
  /\ UNCHANGED <<tree, background, shown, reqVars>>

\* "noop" after 25 s, or the connection breaks and the handler waits on alone.
PollEmpty(p) ==
  /\ Go(p, "polling", "ready")
  /\ \/ sess[agent[p].sid].queue = <<>> /\ UNCHANGED orphan
     \/ /\ Cardinality(orphan) < MaxOrphans
        /\ orphan' = orphan \cup {agent[p].sid}
  /\ UNCHANGED sessions
  /\ sess' = Kept(sess)
  /\ UNCHANGED <<tree, background, shown, reqVars>>

\* A handler nobody listens to still takes a command, or ends.
OrphanEnds(s) ==
  /\ s \in orphan
  /\ orphan' = orphan \ {s}
  /\ UNCHANGED <<sessions, agentVars, reqVars>>
  /\ Dequeue(s) \/ sess' = Kept(sess)

\* Mutant: the result is made from the scan of the registration.
ExecuteFromCache(p) ==
  LET r == agent[p].cmd IN
  /\ agent[p].at = "busy"
  /\ runs' = [runs EXCEPT ![r] = @ + 1]
  /\ agent' = [agent EXCEPT ![p].at = "posting"]
  /\ UNCHANGED <<hubVars, tree, background, shown, req, slot, result, asked>>

\* A job goes to a thread of its own; anything else is done at once.
Execute(p) ==
  LET r == agent[p].cmd IN
  /\ agent[p].at = "busy"
  /\ runs' = [runs EXCEPT ![r] = @ + 1]
  /\ IF r \in Jobs
       THEN /\ agent' = [agent EXCEPT ![p] = Loop("ready", @.sid)]
            /\ background' = [background EXCEPT ![r] = p]
       ELSE /\ agent' = [agent EXCEPT ![p].at = "posting", ![p].scan = tree[p]]
            /\ UNCHANGED background
  /\ UNCHANGED <<hubVars, tree, shown, req, slot, result, asked>>

\* receive_tree, receive_inspect, receive_file, receive_catalog: the slot of
\* the token is filled; a catalog also replaces the session's.
Receive(r, s, version) ==
  /\ s \in sessions
  /\ slot' = [slot EXCEPT ![r] = IF @ = "pending" THEN "set" ELSE @]
  /\ result' = [result EXCEPT ![r] = version]
  /\ sess' = IF r \in CatalogRequests THEN [sess EXCEPT ![s].catalog = version] ELSE sess

Post(p) ==
  /\ agent[p].at = "posting"
  /\ LET s == agent[p].sid  r == agent[p].cmd IN
     \/ Forgotten(p) /\ UNCHANGED <<sess, slot, result, shown>>
     \/ /\ Receive(r, s, agent[p].scan)
        /\ shown' = IF r \in CatalogRequests THEN [shown EXCEPT ![p] = agent[p].scan] ELSE shown
        /\ agent' = [agent EXCEPT ![p] = Loop("ready", @.sid)]
     \/ /\ agent' = [agent EXCEPT ![p] = Loop("ready", @.sid)]    \* lost
        /\ UNCHANGED <<sess, slot, result, shown>>
  /\ UNCHANGED <<sessions, orphan, tree, background, req, runs, asked>>

\* The job's thread posts by itself, to the session it began under.
JobPost(r) ==
  /\ background[r] # NoSid
  /\ background' = [background EXCEPT ![r] = NoSid]
  /\ \/ req[r].sid \in sessions /\ Receive(r, req[r].sid, 0)
     \/ UNCHANGED <<sess, slot, result>>
  /\ UNCHANGED <<sessions, orphan, agent, tree, shown, req, runs, asked>>

Edit(p) ==
  /\ tree[p] < MaxEdits /\ agent[p].at # "exited"
  /\ tree' = [tree EXCEPT ![p] = @ + 1]
  /\ UNCHANGED <<hubVars, agent, background, shown, reqVars>>

\* The process ends; its jobs' daemon threads end with it.
Quit(p) ==
  /\ agent[p].at \notin {"exited", "retiring"}
  /\ agent' = [agent EXCEPT ![p] = Loop("exited", NoSid)]
  /\ background' = [r \in Jobs |-> IF background[r] = p THEN NoSid ELSE background[r]]
  /\ UNCHANGED <<sessions, orphan, tree, shown, reqVars>>
  /\ sess' = Kept(sess)

-----------------------------------------------------------------------------
(* The callers *)

\* _own_agent, then request_tree, _inspect, _file, _ai, _catalog or _ai_run.
Ask(r) ==
  /\ req[r].at = "open"
  /\ \E s \in sessions :
       /\ req' = [req EXCEPT ![r] = [at |-> "waiting", sid |-> s]]
       /\ sess' = Put(s, r)
       /\ asked' = [asked EXCEPT ![r] = [tree |-> tree[sess[s].proc],
                                         shown |-> shown[sess[s].proc],
                                         cached |-> sess[s].catalog]]
  /\ slot' = [slot EXCEPT ![r] = "pending"]
  /\ UNCHANGED <<sessions, orphan, agentVars, result, runs>>

\* agent_sync's s.snapshot(): what the agent has shown is what the app has
\* loaded.  The inspection it then asks for is a Call.
Snapshot(r) ==
  sess' = IF r \in Syncs /\ req[r].sid \in sessions
            THEN [sess EXCEPT ![req[r].sid].loaded = sess[req[r].sid].catalog]
            ELSE sess

\* Mutant: a sync that is answered forgets the snapshot.
AnsweredWithoutSnapshot(r) ==
  /\ r \notin Jobs /\ req[r].at = "waiting" /\ slot[r] = "set"
  /\ req' = [req EXCEPT ![r].at = "answered"]
  /\ UNCHANGED <<hubVars, agentVars, slot, result, runs, asked>>

\* ev.wait returns in time.
Answered(r) ==
  /\ r \notin Jobs /\ req[r].at = "waiting" /\ slot[r] = "set"
  /\ req' = [req EXCEPT ![r].at = "answered"]
  /\ Snapshot(r)
  /\ UNCHANGED <<sessions, orphan, agentVars, slot, result, runs, asked>>

\* ev.wait runs out; the slot stays.  A call fails with 504.  agents_catalog
\* answers with the catalog it read before it asked, agent_sync takes the
\* snapshot and reports success all the same.
TimedOut(r) ==
  /\ r \notin Jobs /\ req[r].at = "waiting" /\ slot[r] = "pending"
  /\ req' = [req EXCEPT ![r].at = IF r \in CatalogRequests THEN "late" ELSE "failed"]
  /\ Snapshot(r)
  /\ UNCHANGED <<sessions, orphan, agentVars, slot, result, runs, asked>>

\* agent_ai_run_poll: delivered once, then freed; a 404 once the session is
\* gone.  The page that polls gives up after six minutes.
JobPoll(r) ==
  /\ r \in Jobs /\ req[r].at = "waiting"
  /\ \/ /\ req[r].sid \in sessions /\ slot[r] = "set"
        /\ req' = [req EXCEPT ![r].at = "answered"]
        /\ slot' = [slot EXCEPT ![r] = "freed"]
     \/ /\ req' = [req EXCEPT ![r].at = "failed"]
        /\ UNCHANGED slot
  /\ UNCHANGED <<hubVars, agentVars, result, runs, asked>>

-----------------------------------------------------------------------------
Register(p) ==
  \/ Scan(p) \/ RegisterLook(p) \/ RegisterRetire(p)
  \/ RegisterInsert(p, TRUE) \/ RegisterInsert(p, FALSE) \/ RegisterLost(p)

Serve(p) ==
  \/ PollBegin(p) \/ PollReturn(p, TRUE) \/ PollReturn(p, FALSE) \/ PollEmpty(p)
  \/ Execute(p) \/ Post(p)

Next ==
  \/ Reap \/ Restart
  \/ \E s \in Sids : Disconnect(s) \/ Age(s) \/ OrphanEnds(s)
  \/ \E p \in Procs : Register(p) \/ Serve(p) \/ Edit(p) \/ Quit(p)
  \/ \E r \in Jobs : JobPost(r) \/ JobPoll(r)
  \/ \E r \in Requests : Ask(r) \/ Answered(r) \/ TimedOut(r)

Spec == Init /\ [][Next]_vars

\* An agent's loop goes on whatever it meets.  A registration sent again and
\* again is once received, not cut short by a restart of the server, and
\* answered.
Fairness ==
  \A p \in Procs :
    /\ WF_vars(Register(p)) /\ WF_vars(Serve(p))
    /\ SF_vars(RegisterLook(p)) /\ SF_vars(RegisterRetire(p))
    /\ SF_vars(RegisterInsert(p, TRUE))

FairSpec == Spec /\ Fairness

-----------------------------------------------------------------------------
(* Properties *)

\* A process has at most one session in the table, however often it had to
\* register: nothing stale is left to take its commands.
OneSessionPerProcess ==
  \A s, t \in sessions : sess[s].proc = sess[t].proc => s = t

\* A request answered in time is answered with what the agent's files were after
\* it was asked, never with what an earlier request or the registration saw.  A
\* pull that timed out is answered with a catalog that may be older than that, but
\* is not older than any the process's sessions had shown before.
AnswerIsFresh ==
  /\ \A r \in Requests \ Jobs : req[r].at = "answered" => result[r] >= asked[r].tree
  /\ \A r \in Pulls : req[r].at = "late" => asked[r].cached >= asked[r].shown

\* A sync answered in time has loaded at least what the agent had when it was
\* asked, one that timed out at least what had been shown by then, and no later
\* pull or sync of the session takes that back.
SyncLoads ==
  \A r \in Syncs : req[r].sid \in sessions =>
    /\ req[r].at = "answered" => sess[req[r].sid].loaded >= asked[r].tree
    /\ req[r].at = "late" => sess[req[r].sid].loaded >= asked[r].shown

\* "Pull the agent's current tree into the platform and snapshot it as 'loaded'":
\* a sync that reports success has loaded what the agent had when it was asked.
SyncPullsCurrentTree ==
  \A r \in Syncs :
    req[r].at \in {"answered", "late"} /\ req[r].sid \in sessions
      => sess[req[r].sid].loaded >= asked[r].tree

\* A session is not forgotten within busy_ttl while its agent still works on
\* a request, also one whose caller has given up.
BusyIsKept ==
  [][\A p \in Procs : LET s == agent[p].sid IN
       /\ agent[p].at \in {"busy", "posting"} /\ agent[p].cmd # Stop
       /\ s \in sessions /\ sess[s].age # "stale"
       /\ s \notin sessions'
       => Restart \/ Disconnect(s) \/ \E q \in Procs : RegisterRetire(q)]_vars

\* A catalog never goes back: what replaces it was read from the agent's files
\* later, also across a restart of the server and a new registration.
CatalogNeverGoesBack ==
  [][\A p \in Procs, s \in Sids :
       s \in sessions' /\ sess'[s].proc = p => sess'[s].catalog >= shown[p]]_vars

\* A forgotten agent that is not told to stop registers again.
AgentComesBack ==
  \A p \in Procs :
    (agent[p].at # "exited" /\ agent[p].sid \notin sessions)
      ~> (agent[p].at = "exited" \/ agent[p].sid \in sessions)

\* Whatever is lost, a command is executed at most once, and answered only after
\* it was, but for catalog requests, which the server may answer from what it has.
Call == INSTANCE AgentCall WITH phase <- [r \in Requests |-> req[r].at],
                                Cached <- CatalogRequests
ImplementsCall == Call!Spec

=============================================================================
