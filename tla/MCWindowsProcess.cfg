\* Two calls on two threads, and three child objects to move about.
SPECIFICATION Spec
CONSTANTS
  Call = {c1, c2}
  Object = {o1, o2, o3}
  Invalid = Invalid
  Calls <- MCCalls
\* The system stops when the calls are over and the objects are gone.
CHECK_DEADLOCK FALSE
INVARIANTS
  HandlesOwnedOnce
  StreamsAsAsked
PROPERTIES
  ExecutionPromised
