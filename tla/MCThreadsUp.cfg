SPECIFICATION FairSpec
CONSTANTS
    CPU = {c1}
    NUM_THREADS = 2
    Clnt = {0}
    Val = {0}
    Fn = {"CALL", "FASTCALL"}
    StrictNw = TRUE
INVARIANTS
    TmpStackExclusive
PROPERTIES
    SmcReturns
    CallCompletes
