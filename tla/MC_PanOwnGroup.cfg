SPECIFICATION Spec
CONSTANTS
  p1 = p1
  p2 = p2
  p3 = p3
  NoPid = NoPid
  Pids <- ThreePids
  Codes = {"0"}
  MayLead = TRUE
  MayStop = FALSE
  KeepActive = 2
  CmdCount = 3
  Unexecutable = {}
  Options <- PlainOptions
  LogFile = TRUE
  StopFiles = {FALSE}
  Signals = {"INT", "USR1", "USR2"}
  MaxSignals = 0
  SignalsInExec = FALSE
  MaxFaults = 0
  ExitCodes = 3
  MaxBelow = 2
SYMMETRY Symmetry
INVARIANTS ExitsLast
CHECK_DEADLOCK FALSE
