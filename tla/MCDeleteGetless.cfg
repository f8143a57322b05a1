CONSTANTS
  networks = networks
  alternatives = alternatives
  Fields <- NoFields
  Faults <- Getless
  MaxTrouble = 2
SPECIFICATION Spec
INVARIANT NothingForgotten
CHECK_DEADLOCK FALSE
