SPECIFICATION Spec
CONSTANTS
  MAX_ORDER = 3
  StartPages = {1, 2, 3}
  EndPage = 9
  Core = {0, 1}
INVARIANTS TypeOK ListsSound NoPageTwice
PROPERTIES FreePagesExact
