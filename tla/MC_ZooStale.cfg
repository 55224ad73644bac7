CONSTANTS
  n1 = n1
  n2 = n2
  b1 = b1
  pid1 = pid1
  pid2 = pid2
  c1 = c1
  c2 = c2
  zero = zero
  pan = pan
  po = po
  t = t
  tt = tt
  NoProc = NoProc
  NoPid = NoPid
  Pid <- Pids
  Tag <- Tags
  PrefixOf <- Prefixes
  Pan <- OnePan
  Bump <- OneBump
  Proc <- PanAndBump
  Writer <- PanAndBump
  Reader <- OneBump
  PidOf <- OnePidOf
  PanTag <- OnePanTag
  TestPid = {c1, c2}
  TestTag = {t}
  BlankPid <- NoBlank
  MaxStarts <- ThreeTests
  MaxNames = 2
  OrphanTag = po
  OwnGroups = FALSE
  IOErrors = FALSE
  Crashes = FALSE
  MaxLines = 6
SPECIFICATION ClientsSpec
CHECK_DEADLOCK FALSE
PROPERTIES
  ClearsThatPid
