CONSTANTS
  n1 = n1
  n2 = n2
  b1 = b1
  pid1 = pid1
  pid2 = pid2
  c1 = c1
  c2 = c2
  zero = zero
  pan = pan
  po = po
  t = t
  tt = tt
  NoProc = NoProc
  NoPid = NoPid
  Pid <- Pids
  Tag <- Tags
  PrefixOf <- Prefixes
  Pan <- TwoPans
  Bump <- NoBump
  Proc <- PansOnly
  Writer <- PansOnly
  Reader <- NoBump
  PidOf <- TwoPidOf
  PanTag <- TwoPanTag
  TestPid = {c1, c2}
  TestTag = {t}
  BlankPid <- OneBlank
  MaxStarts <- TwoAndOne
  MaxNames = 0
  OrphanTag = po
  OwnGroups = TRUE
  IOErrors = FALSE
  Crashes = TRUE
  MaxLines = 6
SPECIFICATION ClientsSpec
SYMMETRY Symmetry
CHECK_DEADLOCK FALSE
INVARIANTS
  ClientsTypeOK
  Recorded
  ClearFindsItsEntry
  NothingElseListed
