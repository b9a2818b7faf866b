\* Three jobs compete for three process ids: a job can lose its fork, and a
\* freed process id can come back while a stale child object still holds it.
\* No symmetry, because liveness is checked.
SPECIFICATION FairSpec
CONSTANTS
  Job = {j1, j2, j3}
  Cmd = {c1}
  Pid = {p1, p2, p3}
  NoPid = NoPid
  None = None
INVARIANTS
  TypeOK
  OwnStatus
  NoChildForgotten
PROPERTIES
  EveryWaitReturns
