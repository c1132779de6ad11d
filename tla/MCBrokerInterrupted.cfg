CONSTANTS
  n1 = n1
  n2 = n2
  Nodes = {n1, n2}
  Sources = {"x", "y"}
  Scenarios <- InterruptedScenarios
  MaxFaults = 2
  None = None
SPECIFICATION FairSpec
PROPERTY WorkRecovers
