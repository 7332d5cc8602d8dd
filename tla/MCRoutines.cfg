SPECIFICATION MCSpec
CONSTANTS
  Slot = {s1, s2, s3}
  Boot = {s1, s2}
  Main = s1
  MaxPage = 10
  Image = {zero, one}
  Zero = zero
  MaxAddr = 5
  Width = 5
  FormatLen = 4
  MaxString = 2
  NameLen = 2
  ExtLen = 1
  Letter = {a}
  MaxPath = 5
  Entries = 2
  ClusterSize = 3
  LastCluster = 5
  ChainLen = 3
  Core = {0, 1}
  Waiting = {0}
  Event = {1, 2}
  Process = {p, q, r}
  Nil = Nil
  Pending = Pending
SYMMETRY Processes
INVARIANTS
  MCTypeOK PagesAccountedFor RoutinesKeepPromise PrintsArguments SearchIsExact ReadsTheFile
PROPERTIES ChildIsCopy ImplementsQueues
CHECK_DEADLOCK FALSE
