SPECIFICATION Spec
CONSTANTS
    CPU = {c1}
    NUM_THREADS = 2
    Clnt = {0}
    Val = {0}
    Fn = {"CALL", "FASTCALL_INVOKE"}
    StrictNw = TRUE
INVARIANTS
    NoAssertFails
