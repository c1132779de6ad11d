CONSTANTS
  Positions = {0, 1}
  MaxSteps = 6
SPECIFICATION Spec
INVARIANT ConditionMeansWhatItSays
CHECK_DEADLOCK FALSE
