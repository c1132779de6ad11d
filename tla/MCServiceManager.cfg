CONSTANTS
  Services = {1, 2, 3}
  Isolation <- IsolationOf
  Foreground = {2}
  HandlerChoices <- Handlers
  Errors = {"ValueError", "KeyError"}
  Mro <- Classes
SPECIFICATION Spec
INVARIANTS
  NoServiceOutlivesStop
  RetriedUntilStopped
PROPERTIES
  StopReturns
  ServicesEnd
CHECK_DEADLOCK FALSE
