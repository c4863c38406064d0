SPECIFICATION Spec
CONSTANTS
  Idents = {i1}
  Acceptable = {i1}
  Insts = {k1, k2}
  NoInst = NoInst
INVARIANTS NoSendOnClosed
CHECK_DEADLOCK FALSE
