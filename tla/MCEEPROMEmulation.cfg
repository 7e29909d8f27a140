\* Flash programmed by half words; up to two failures during a put.
SPECIFICATION Spec
CONSTANTS
    Capacity = 2
    Slots <- MCSlots
    Value = {v1}
    Blank = Blank
    Empty = Empty
    Invalid = Invalid
    None = None
    Bytewise = FALSE
    MaxLength = 2
    MaxFailures = 2
INVARIANTS
    TypeOK
    AtomicPut
    ReadsAreDurable
    PutStores
