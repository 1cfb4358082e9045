SPECIFICATION Spec
CONSTANTS
    CPU = {c1, c2}
    NUM_THREADS = 2
    Clnt = {0, 1}
    Val = {0, 1}
    Fn = {"CALL"}
    StrictNw = FALSE
SYMMETRY CoreSymmetry
INVARIANTS
    OneActive
    ActiveIsRun
    NoAssertFails
    RegsIntact
    ThreadRunsForItsClient
