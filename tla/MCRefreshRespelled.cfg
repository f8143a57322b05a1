CONSTANTS
  Types <- ListTypes
  Attrs <- AllAttrs
  Depth <- Depths
  OwnProject = "ours"
  Habits <- Respelling
  MaxTrouble = 3
  innerAnswersTo <- againAnswersTo
  innerValue <- againValue
  innerWithoutReservedLabels <- againWithoutReservedLabels
  innerChanged <- againChanged
  innerFits <- againFits
  innerFilled <- againFilled
  innerWritten <- againWritten
  innerMerged <- againMerged
  innerHolds <- againHolds
SPECIFICATION Spec
INVARIANT NoPhantomDrift
CHECK_DEADLOCK FALSE
