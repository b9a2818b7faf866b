\* Two builds at once: two process ids (so one can be recycled) and two
\* directories (so the build ids can differ or collide).
SPECIFICATION WorkerSpec
CONSTANTS
  Job = {j1, j2}
  Cmd = {"clone", "checkout", "configure", "build"}
  Pid = {p1, p2}
  NoPid = NoPid
  None = None
  Dir = {d1, d2}
SYMMETRY Symmetry
\* The system stops when both jobs are done.
CHECK_DEADLOCK FALSE
INVARIANTS
  WorkerTypeOK
  StepsInOrder
  SuccessMeansBuilt
  CommandsStayInTree
  NoProcessOutlivesJob
  NothingLeftBehind
