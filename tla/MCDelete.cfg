CONSTANTS
  networks = networks
  alternatives = alternatives
  Fields <- TwoFields
  Faults <- EveryFault
  MaxTrouble = 3
SPECIFICATION FairSpec
INVARIANTS NothingForgotten NotFoundIsSuccess
PROPERTY DestroyConverges
CHECK_DEADLOCK FALSE
