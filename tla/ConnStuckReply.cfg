SPECIFICATION FairSpec
CONSTANTS
  Idents = {i1}
  Acceptable = {i1}
  Insts = {k1, k2}
  NoInst = NoInst
PROPERTIES CancelationEndsServe
CHECK_DEADLOCK FALSE
