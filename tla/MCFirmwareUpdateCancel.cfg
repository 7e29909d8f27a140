\* What cancelling a firmware update is documented to do.
SPECIFICATION Spec
CONSTANTS
    Lengths = {1, 4}
    MaxData = 3
    None = None
PROPERTY
    CancelDiscards
