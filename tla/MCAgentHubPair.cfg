CONSTANTS
  Procs = {p1, p2}
  Calls = {}
  Pulls = {}
  Syncs = {}
  Jobs = {j1}
  MaxSids = 3
  MaxEdits = 0
  MaxOrphans = 0
  NoSid = NoSid  Stop = Stop
SPECIFICATION FairSpec
INVARIANT OneSessionPerProcess
PROPERTY AgentComesBack
CHECK_DEADLOCK FALSE
