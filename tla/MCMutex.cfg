SPECIFICATION FairSpec
CONSTANTS
    CPU = {c1, c2}
    Agent = {a1, a2, a3}
    Nowhere = Nowhere
INVARIANTS
    MutualExclusion
PROPERTIES
    ImplementsLock
    SpinEnds
