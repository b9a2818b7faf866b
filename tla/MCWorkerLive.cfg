\* Two builds that may share their directory; no symmetry, because liveness is
\* checked.
SPECIFICATION FairWorkerSpec
CONSTANTS
  Job = {j1, j2}
  Cmd = {"clone", "checkout", "configure", "build"}
  Pid = {p1, p2}
  NoPid = NoPid
  None = None
  Dir = {d1}
\* The system stops when both jobs are done.
CHECK_DEADLOCK FALSE
PROPERTIES
  ChildProcessSpec
  EveryJobEnds
