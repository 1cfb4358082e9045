SPECIFICATION GicSpec
CONSTANTS
    RegSize = 2
    TargetSize = 4
    TopReg = 2
    Last = 3
    SecureIts = {2, 3}
INVARIANTS
    GicSound
PROPERTIES
    AllServed
