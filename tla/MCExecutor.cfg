\* Two threads, each with any of the sequences; eight descriptors, so that two
\* error pipes find room.
SPECIFICATION FairSpec
CONSTANTS
  t1 = t1
  t2 = t2
  Thread <- MCThread
  None = None
  NoText = NoText
  MaxFd <- MCMaxFd
  BotFiles <- MCBotFiles
  Calls <- MCCalls
\* The system stops when both calls and both programs are over.
CHECK_DEADLOCK FALSE
INVARIANTS
  ProgramAsConfigured
  CallLeavesNothing
  SinkLeaksInWindow
PROPERTIES
  ExecutionPromised
  EveryCallReturns
