\* Two builds in one directory; no symmetry, because liveness is checked.
SPECIFICATION FairBuildBotSpec
CONSTANTS
  Job = {1, 2}
  Build = {1, 2}
  Cmd = {"clone", "checkout", "configure", "build"}
  Pid = {p1, p2}
  NoPid = NoPid
  None = None
  Dir = {d1}
  PoolSize = 1
  MaxRestarts = 1
\* The system stops when every build is over or cut off.
CHECK_DEADLOCK FALSE
PROPERTIES
  EveryBuildSettled
