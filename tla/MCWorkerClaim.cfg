\* The instance of MCWorker.cfg, without symmetry for a readable trace.
SPECIFICATION WorkerSpec
CONSTANTS
  Job = {j1, j2}
  Cmd = {"clone", "checkout", "configure", "build"}
  Pid = {p1, p2}
  NoPid = NoPid
  None = None
  Dir = {d1, d2}
CHECK_DEADLOCK FALSE
INVARIANTS
  SuccessIsOwn
