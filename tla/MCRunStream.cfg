CONSTANTS
  Reqs = {q1, q2}
  Cancels = {c1}
  Answers = {}
  Streams = {s1}
  Plans <- MCPlans
  MaxUnits = 1
  Bench = bench
  Other = other
  NoReq = NoReq  NoRun = NoRun  NoPrompt = NoPrompt  NoCaller = NoCaller
SPECIFICATION StreamFairSpec
INVARIANTS SentIsPrefix EndsAtTerminal
PROPERTIES ReadersEnd
