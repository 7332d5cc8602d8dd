SPECIFICATION Spec
CONSTANTS
  MAX_ORDER = 3
  StartPages = {1}
  EndPage = 9
  Core = {0, 1}
INVARIANT NothingLost
