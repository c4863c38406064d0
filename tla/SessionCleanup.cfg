SPECIFICATION FairSpec
CONSTANTS
  Requests = {r1}
  Cleaner = cleaner
  Users = {r1, cleaner}
  Conns = {w, r}
  Writers = {w}
  NoConn = NoConn
  NoID = NoID
  Timeouts = {0, 1}
  MaxID = 1
  MaxTime = 2
  MaxRestarts = 1
PROPERTIES CleanupReaches AbsoluteTimeout
