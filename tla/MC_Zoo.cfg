CONSTANTS
  p1 = p1
  p2 = p2
  p3 = p3
  one = one
  two = two
  a = a
  NoProc = NoProc
  NoPid = NoPid
  Proc <- MCProc
  Reader = {p3}
  Writer = {p1, p2}
  Pid <- MCPid
  Tag <- MCTag
  PrefixOf <- MCPrefixOf
  MaxLines = 2
SPECIFICATION Spec
SYMMETRY Symmetry
INVARIANTS
  TypeOK
  MutualExclusion
  WritesItsLine
PROPERTIES
  ImplementsZooSpec
