CONSTANTS
  b1 = b1  b2 = b2  a1 = a1  a2 = a2
  p1 = p1  d1 = d1  d2 = d2  g1 = g1
  NoAgent = NoAgent  UnknownBoard = UnknownBoard  NoRun = NoRun  NoReq = NoReq
  Boards <- MCBoards
  Agents <- MCAgents
  Aliases <- MCAliases
  DriverAgent <- MCDriverAgent
  ActionAgents <- MCActionAgents
  PilotReqs = {p1}
  DevReqs = {d1, d2}
  AgentReqs = {g1}
  Prefix <- MCPrefix
  MaxMs = 1
  UniqueMs = TRUE
SPECIFICATION FairSpec
INVARIANTS BenchExclusive NoOrphanLock
PROPERTIES OnlyOwnerReleases LocksAreFreed ImplementsMutex
