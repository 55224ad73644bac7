SPECIFICATION Spec
CONSTANTS
  Modes = {"VERBOSE", "NOPASS", "DISCARD"}
  Mesg = {"a", "b"}
  ResTypes = {"PASS", "FAIL", "INFO"}
  BrkTypes = {"CONF", "WARN"}
  MaxTold = 2
  MaxSignals = 1
  CpRounds = 2
  SpRounds = 3
  FkCopies = 3
  FkSizes = {1, 2, 3}
  Doios = {"d1", "d2"}
  Blocks = 2
  MaxReqs = 2
  BufSize = 8
  Base = 4
  RecLens = {1, 2, 6}
  RecMax = 6
  MaxRecs = 3
  NRecs = {0, 2}
INVARIANTS LibTypeOK FailuresToldOnce StatusTells CleanupsEnd SuccessLeavesNothing NobodyRunsAhead HeardItsChild SameFifo KnowsTheFirst ReturnTells LogTellsFile NoFalseAlarm HandsBackwards
PROPERTIES BreakIsFinal HangsOnlyAlone SyncWaitEnds StopIsPassedOn ScanEnds
CHECK_DEADLOCK FALSE
