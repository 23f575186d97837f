----------------------------- MODULE MCBenchRuns -----------------------------
(* A bench of two boards that share one agent, for TLC. *)
EXTENDS BenchRuns, TLC

CONSTANTS b1, b2, a1, a2, p1, d1, d2, g1

MCBoards == {b1, b2}
MCAgents == {a1, a2}
MCAliases == {"console", "craft", "oob"}

\* b1: console through a1, an action through a2.  b2: craft through a2, and
\* another alias through a1, which is not locked for it.
MCDriverAgent ==
  (b1 :> ("console" :> a1 @@ "craft" :> NoAgent @@ "oob" :> NoAgent)) @@
  (b2 :> ("console" :> NoAgent @@ "craft" :> a2 @@ "oob" :> a1))
MCActionAgents == (b1 :> {a2}) @@ (b2 :> {})

MCPrefix == p1 :> "run" @@ d1 :> "dev" @@ d2 :> "dev" @@ g1 :> "agent-lab"

=============================================================================
