SPECIFICATION Spec
CONSTANTS
    CPU = {c1, c2}
    NUM_THREADS = 2
    Clnt = {0, 1}
    Val = {0}
    Fn = {"CALL"}
    StrictNw = TRUE
SYMMETRY CoreSymmetry
INVARIANTS
    RpcTailPrivate
PROPERTIES
    ImplementsPool
