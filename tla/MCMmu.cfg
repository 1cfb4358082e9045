SPECIFICATION Spec
CONSTANTS
    MMU_L1_NUM_ENTRIES = 4
    CodeStart = 1
    CodeEnd = 2
    DataStart = 1
    DataEnd = 2
INVARIANTS
    MappedOnReturn
    KernelStays
    TlbSound
