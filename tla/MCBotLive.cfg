\* Three commands of any kind: enough for a restart between two others.
SPECIFICATION FairSpec
CONSTANTS
  MaxSent = 3
  MaxFd = 2
  PoolSize = 1
\* The process ends.
CHECK_DEADLOCK FALSE
PROPERTIES
  StopHonoured
  BuildHonoured
