SPECIFICATION PanFairSpec
CONSTANTS
  p1 = p1
  p2 = p2
  p3 = p3
  NoPid = NoPid
  Pids <- TwoPids
  Codes = {"0"}
  MayLead = FALSE
  MayStop = FALSE
  KeepActive = 1
  CmdCount = 2
  Unexecutable = {}
  Options <- PlainOptions
  LogFile = FALSE
  StopFiles = {FALSE}
  Signals = {"INT"}
  MaxSignals = 4
  SignalsInExec = FALSE
  MaxFaults = 0
  ExitCodes = 3
  MaxBelow = 2
PROPERTIES SignalsKillTests
CHECK_DEADLOCK FALSE
