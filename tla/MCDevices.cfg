SPECIFICATION MCSpec
CONSTANTS
  Reader = {r1}
  Homes = {0}
  Key = {a, b}
  NoKey = NoKey
  Size = 4
  Timers = {0, 1}
  Home = 0
  Sleeper = {p1}
  Width = 3
  MaxSleep = 3
  Lag = 1
  Stale = 2
  Kernel = {k1, k2}
  User = {u1}
  MessageSize = 2
  Printks = 2
  Writes = 1
  Secondary = {1, 2, 3}
  Ends = {1, 2}
INVARIANTS MCTypeOK LineIsWhole ReadyBeforeUse
PROPERTIES ImplementsKeyQueue KeyEndsRead EarlyOnlyAfterRace SleepEnds AllWritten AllCoresStart
