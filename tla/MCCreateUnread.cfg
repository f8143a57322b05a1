CONSTANTS
  Faults <- OnlyUnread
  MaxSetters = 1
SPECIFICATION Spec
INVARIANT NoOrphan
CHECK_DEADLOCK FALSE
