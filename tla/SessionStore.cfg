SPECIFICATION Spec
CONSTANTS
  Requests = {r1, r2}
  Cleaner = cleaner
  Users = {r1, r2, cleaner}
  Conns = {w, r}
  Writers = {w}
  NoConn = NoConn
  NoID = NoID
  Timeouts = {1}
  MaxID = 2
  MaxTime = 2
  MaxRestarts = 0
SYMMETRY RequestSymmetry
INVARIANTS StoreTypeOK ConnInOnePlace PreparedBeforeUse NoResurrection CookieHasRow
