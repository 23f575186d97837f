CONSTANTS
  Reqs = {q1, q2}
  Cancels = {c1}
  Answers = {o1}
  Plans <- MCPlans
  MaxUnits = 2
  Bench = bench
  Other = other
  NoReq = NoReq  NoRun = NoRun  NoPrompt = NoPrompt  NoCaller = NoCaller
SPECIFICATION FairSpec
INVARIANTS PendingIsLive PrompterIsLive
  NoBenchLeak TerminalIsLast VerdictSource
PROPERTIES NoUnitAfterCancel ImplementsLifecycle RunsEnd
