\* Two cells; sectors erased or written by version 1 at first.
SPECIFICATION Spec
CONSTANTS
    CellCount = 2
    Value = {v1, v2}
    Blank = Blank
    NoCrc = NoCrc
    None = None
    Factory = {"blank", "v1"}
    LoneSeal = FALSE
SYMMETRY ValueSymmetry
INVARIANTS
    TypeOK
    SuccessMeansStored
    BackupKept
PROPERTY
    ImplementsAtomicStore
