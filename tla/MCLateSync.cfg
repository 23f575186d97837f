CONSTANTS
  Procs = {p1}
  Calls = {}
  Pulls = {}
  Syncs = {s1}
  Jobs = {}
  MaxSids = 2
  MaxEdits = 1
  MaxOrphans = 1
  NoSid = NoSid  Stop = Stop
SPECIFICATION Spec
INVARIANT SyncPullsCurrentTree
CHECK_DEADLOCK FALSE
