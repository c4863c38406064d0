SPECIFICATION FairSpec
CONSTANTS
  Idents = {i1, i2, i3}
  Acceptable = {i1, i2}
  Insts = {k1, k2}
  NoInst = NoInst
INVARIANTS ConnTypeOK UnsubscriberReachesSub CloseLeavesNothing
PROPERTIES ServeEnds SendTextReturns
CHECK_DEADLOCK FALSE
