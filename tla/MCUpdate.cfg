CONSTANTS
  secondaryRanges = secondaryRanges
  logConfig = logConfig
  setLabels = setLabels
  setTarget = setTarget
  Fields <- TwoFields
  Setters <- TwoSetters
  LockedSetters <- TwoSetters
  Styles <- Protected
  Faults <- EveryFault
  MaxTrouble = 2
SPECIFICATION FairSpec
INVARIANTS TypeOK EarlyErrorChangedNothing NeverStaleTwice KeepsOthers OneCallSuffices
PROPERTY UpdateConverges
CHECK_DEADLOCK FALSE
