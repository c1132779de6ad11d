CONSTANTS
  n1 = n1
  n2 = n2
  Nodes = {n1, n2}
  Sources = {"x", "y"}
  Scenarios <- BrokerScenarios
  MaxFaults = 2
  None = None
SPECIFICATION FairSpec
INVARIANTS
  NoDoubleAllocation
  ChangesApplicable
  AcceptedAsObserved
PROPERTIES
  WorkRecovers
  NoSourceLost
