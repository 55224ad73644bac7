SPECIFICATION Spec
CONSTANTS
  p1 = p1
  p2 = p2
  p3 = p3
  NoPid = NoPid
  Pids <- ThreePids
  Codes = {"0", "1"}
  MayLead = TRUE
  MayStop = FALSE
  KeepActive = 2
  CmdCount = 1
  Unexecutable = {}
  Options <- AnyOptions
  LogFile = TRUE
  StopFiles = {FALSE}
  Signals = {"INT", "USR2"}
  MaxSignals = 1
  SignalsInExec = TRUE
  MaxFaults = 0
  ExitCodes = 4
  MaxBelow = 2
SYMMETRY Symmetry
INVARIANTS SlotsHoldChildren
CHECK_DEADLOCK FALSE
