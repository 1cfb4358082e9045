SPECIFICATION Spec
CONSTANTS
  Call = {t1, t2}
  Buffer = {x1, x2}
  Null = null
  Width = 2
  NumParams = {0, 1}
  AllocFails = TRUE
INVARIANTS
    RequestAndAnswer
    NothingLeaks
    ResultStands
PROPERTIES
    CallReturns
