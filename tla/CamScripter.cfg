SPECIFICATION Spec
CONSTANTS
  Messages <- MCMessages
  Scripts <- MCScripts
  MaxLen = 11
  FifoLen = 2
  MaxSends = 3
  MaxFaults = 1
INVARIANTS TakenAsSent InOrder MemoryKept
PROPERTIES Resynchronises
\* A camera that was not sent the button, or whose program failed, stops.
CHECK_DEADLOCK FALSE
