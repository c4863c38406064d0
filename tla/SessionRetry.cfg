SPECIFICATION Spec
CONSTANTS
  Requests = {r1}
  Cleaner = cleaner
  Users = {r1, cleaner}
  Conns = {w, r}
  Writers = {w}
  NoConn = NoConn
  NoID = NoID
  Timeouts = {1}
  MaxID = 2
  MaxTime = 0
  MaxRestarts = 0
INVARIANTS CookieIsStored
