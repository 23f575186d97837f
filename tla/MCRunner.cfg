CONSTANTS
  AnyModel = "any"
  CheckModel <- MCCheckModel
  Registry <- MCRegistry
  Needs <- MCNeeds
  NeedsActions <- MCNeedsActions
  Suites <- MCSuites
  BoardSeq <- MCBoardSeq
  BoardModel <- MCBoardModel
  Drivers <- MCDrivers
  BoardActions <- MCBoardActions
  Backends = {"docker", "local"}
SPECIFICATION FairSpec
INVARIANTS OneRecordEach RanInSuiteOrder RanEquipped PassIsEarned ChannelsClosed
PROPERTIES Ends
CHECK_DEADLOCK FALSE
