CONSTANTS
  Types <- AllTypes
  Attrs <- AllAttrs
  Depth <- Depths
  OwnProject = "ours"
  Habits <- Reading
  MaxTrouble = 3
  innerAnswersTo <- againAnswersTo
  innerValue <- againValue
  innerWithoutReservedLabels <- againWithoutReservedLabels
  innerChanged <- againChanged
  innerFits <- againFits
  innerFilled <- againFilled
  innerWritten <- againWritten
  innerMerged <- againMerged
  innerHolds <- againHolds
SPECIFICATION Spec
INVARIANTS TypeOK NoPhantomDrift DriftIsSeen
PROPERTIES UpdateSettles
CHECK_DEADLOCK FALSE
