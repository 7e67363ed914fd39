SPECIFICATION Spec
CONSTANTS
    Holders = {h1, h2}
    TargetSize = 1
    MaxKeys = 6
SYMMETRY Symmetry
INVARIANTS
    ReservedOnce
