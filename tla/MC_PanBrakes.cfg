SPECIFICATION FairSpec
CONSTANTS
  p1 = p1
  p2 = p2
  p3 = p3
  NoPid = NoPid
  Pids <- ThreePids
  Codes = {"0", "1"}
  MayLead = FALSE
  MayStop = FALSE
  KeepActive = 1
  CmdCount = 3
  Unexecutable = {}
  Options <- BrakeOptions
  LogFile = TRUE
  StopFiles = {FALSE}
  Signals = {"INT", "USR1", "USR2"}
  MaxSignals = 0
  SignalsInExec = FALSE
  MaxFaults = 0
  ExitCodes = 3
  MaxBelow = 2
PROPERTIES Terminates
CHECK_DEADLOCK FALSE
