SPECIFICATION FairSpec
CONSTANTS
  p1 = p1
  p2 = p2
  p3 = p3
  NoPid = NoPid
  Pids <- TwoPids
  Codes = {"0", "1", "130"}
  MayLead = TRUE
  MayStop = FALSE
  KeepActive = 2
  CmdCount = 2
  Unexecutable = {2}
  Options <- WaitOptions
  LogFile = FALSE
  StopFiles = {FALSE}
  Signals = {"INT", "USR1", "USR2"}
  MaxSignals = 1
  SignalsInExec = FALSE
  MaxFaults = 1
  ExitCodes = 3
  MaxBelow = 2
INVARIANTS PanTypeOK CountsItsChildren EachChildHasItsSlot  ExitStatusTells StartsAreUsed
PROPERTIES ImplementsPanSpec Terminates IdleEnds
CHECK_DEADLOCK FALSE
