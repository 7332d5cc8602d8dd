SPECIFICATION Spec
CONSTANTS
  ClusterSize = 3
  LastCluster = 5
  MaxLen = 3
INVARIANT WalkStaysOnChain
