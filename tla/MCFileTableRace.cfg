SPECIFICATION Spec
CONSTANTS
  p1 = p1  p2 = p2  p3 = p3  f1 = f1  f2 = f2
  Proc = {p1, p2}
  Root = {p1, p2}
  Core = {0, 1}
  CoreOf <- TwoCores
  File = {f1, f2}
  FileSize <- Sizes
  Chain <- Chains
  ClusterSize = 2
  Word = 8
  MaxFd = 2
  MaxDesc = 3
  NULL = NULL
INVARIANT PutFcbAssertion
