SPECIFICATION FairSpec
CONSTANTS
  p1 = p1
  p2 = p2
  p3 = p3
  NoPid = NoPid
  Pids <- TwoPids
  Codes = {"0", "1", "signal"}
  MayLead = FALSE
  MayStop = TRUE
  KeepActive = 2
  CmdCount = 3
  Unexecutable = {}
  Options <- PollOptions
  LogFile = TRUE
  StopFiles = {TRUE, FALSE}
  Signals = {"INT", "USR1", "USR2"}
  MaxSignals = 0
  SignalsInExec = FALSE
  MaxFaults = 0
  ExitCodes = 4
  MaxBelow = 2
INVARIANTS CountsItsChildren ZooListsThem
PROPERTIES Terminates
CHECK_DEADLOCK FALSE
