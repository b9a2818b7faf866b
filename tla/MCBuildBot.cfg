\* Two builds, so that one may run in the image that replaced the other's; two
\* process ids and two directories.
SPECIFICATION BuildBotSpec
CONSTANTS
  Job = {1, 2}
  Build = {1, 2}
  Cmd = {"clone", "checkout", "configure", "build"}
  Pid = {p1, p2}
  NoPid = NoPid
  None = None
  Dir = {d1, d2}
  PoolSize = 1
  MaxRestarts = 1
SYMMETRY Symmetry
\* The system stops when every build is over or cut off.
CHECK_DEADLOCK FALSE
INVARIANTS
  StepsInOrder
  SuccessMeansBuilt
  OrphansAreCut
  LeftoversExplained
PROPERTIES
  OrphansStay
