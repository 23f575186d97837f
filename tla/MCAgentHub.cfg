CONSTANTS
  Procs = {p1}
  Calls = {}
  Pulls = {u1}
  Syncs = {s1}
  Jobs = {}
  MaxSids = 4
  MaxEdits = 1
  MaxOrphans = 1
  NoSid = NoSid  Stop = Stop
SPECIFICATION Spec
INVARIANTS AnswerIsFresh SyncLoads
PROPERTIES BusyIsKept CatalogNeverGoesBack ImplementsCall
CHECK_DEADLOCK FALSE
