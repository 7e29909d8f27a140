\* Files of up to nine units, data requests of up to three.
SPECIFICATION Spec
CONSTANTS
    Lengths = {1, 4, 6, 9}
    MaxData = 3
    None = None
INVARIANT
    TypeOK
PROPERTY
    ImplementsUpdate
