\* Four commands of any kind, at most two descriptors (so the second restart
\* finds none left), two pool threads.
SPECIFICATION Spec
CONSTANTS
  MaxSent = 4
  MaxFd = 2
  PoolSize = 2
\* The process ends.
CHECK_DEADLOCK FALSE
PROPERTIES
  BuildServiceSpec
INVARIANTS
  TypeOK
  FifoOrder
  ExitCodeHonest
  NoHandlerAfterRun
  NoUseAfterFree
